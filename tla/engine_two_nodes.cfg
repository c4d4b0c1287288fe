\* One engine on each of two nodes, the rows in opposite order, one foreign
\* step; the second engine neither replaces nor cleans up.
SPECIFICATION Spec
CONSTANTS
  b1 = b1
  b2 = b2
  n1 = n1
  n2 = n2
  v1 = v1
  v2 = v2
  Builders = {b1, b2}
  Nodes = {n1, n2}
  Vmids = {v1, v2}
  Ovmf = {v1, v2}
  Home <- TwoNodes
  CacheDir <- SharedCache
  Selection <- Reversed
  Replace <- OnlyFirst
  Cleanup <- OnlyFirst
  Operator = Operator
  None = None
  MaxOps = 1
INVARIANT SuccessMeansBuilt
PROPERTIES
  DestroyOnlyCheckedOrOwn
  IsReplacement
CHECK_DEADLOCK FALSE

\* Two engines on one node, the same two rows, one foreign step.
SPECIFICATION Spec
CONSTANTS
  b1 = b1
  b2 = b2
  n1 = n1
  n2 = n2
  v1 = v1
  v2 = v2
  Builders = {b1, b2}
  Nodes = {n1}
  Vmids = {v1, v2}
  Ovmf = {v1}
  Home <- OneNode
  CacheDir <- SharedCache
  Selection <- BothRows
  Replace <- Always
  Cleanup <- Always
  Operator = Operator
  None = None
  MaxOps = 1
SYMMETRY BuilderSymmetry
INVARIANTS
  TypeOK
  ReadyBeforeReplace
  AtMostOneLost
  ProjectTagMeansComplete
  CreatedStillThere
  SuccessMeansBuilt
  NoLeftover
PROPERTY DestroyOnlyCheckedOrOwn
CHECK_DEADLOCK FALSE

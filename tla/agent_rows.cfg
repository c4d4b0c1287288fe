\* A helper asked for two templates beside a replacing run.
SPECIFICATION AgentSpec
CONSTANTS
  b1 = b1
  b2 = b2
  n1 = n1
  v1 = v1
  v2 = v2
  Builders = {b1, b2}
  Agents = {b1}
  Nodes = {n1}
  Vmids = {v1, v2}
  Ovmf = {v1, v2}
  Home <- OneNode
  CacheDir <- OneCache
  Selection <- BesideOne
  Replace <- OnlySecond
  Cleanup <- Always
  Required <- NoBackup
  Operator = Operator
  None = None
  MaxOps = 1
  MaxBackups = 0
INVARIANTS
  AgentTypeOK
  CompleteAreReported
PROPERTIES
  SuccessMeansOwn
CHECK_DEADLOCK FALSE

\* A PVE command times out after the engine has run.
SPECIFICATION AgentSpec
CONSTANTS
  b1 = b1
  b2 = b2
  n1 = n1
  v1 = v1
  v2 = v2
  Builders = {b1}
  Agents = {b1}
  Nodes = {n1}
  Vmids = {v1, v2}
  Ovmf = {v1, v2}
  Home <- OneNode
  CacheDir <- OneCache
  Selection <- BothRows
  Replace <- Never
  Cleanup <- Always
  Required <- NoBackup
  Operator = Operator
  None = None
  MaxOps = 0
  MaxBackups = 0
INVARIANTS
  ExitTwoMeansRefused
CHECK_DEADLOCK FALSE

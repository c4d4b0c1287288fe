\* One helper, two templates to back up, one backup by somebody else.
SPECIFICATION AgentFairSpec
CONSTANTS
  b1 = b1
  b2 = b2
  n1 = n1
  v1 = v1
  v2 = v2
  Builders = {b1}
  Agents = {b1}
  Nodes = {n1}
  Vmids = {v1, v2}
  Ovmf = {v1, v2}
  Home <- OneNode
  CacheDir <- OneCache
  Selection <- BothRows
  Replace <- Never
  Cleanup <- Always
  Required <- AllBackup
  Operator = Operator
  None = None
  MaxOps = 1
  MaxBackups = 2
INVARIANT BackedUpMeansTaskOk
PROPERTIES
  BackupVolumeIsOwn
  EveryRequestAnswered
CHECK_DEADLOCK FALSE

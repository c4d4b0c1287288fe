\* One engine and the boot order repair, one foreign step anywhere, two runs of the tool.
SPECIFICATION RepairSpec
CONSTANTS
  b1 = b1
  n1 = n1
  r1 = r1
  v1 = v1
  v2 = v2
  Builders = {b1}
  Nodes = {n1}
  Vmids = {v1, v2}
  Ovmf = {v1, v2}
  Home <- OneNode
  CacheDir <- OwnCache
  Selection <- BothRows
  Replace <- Always
  Cleanup <- Always
  Operator = Operator
  None = None
  MaxOps = 1
  Repairers = {r1}
  RepairNode <- SameNode
  Items <- BothItems
  Apply <- Applied
  MaxRepairs = 2
INVARIANTS
  RepairTypeOK
  RepairedWhenDone
PROPERTIES
  RepairOnlyInspected
  RepairCanBeRepeated
  EveryRunEnds
  LockIsReleased
CHECK_DEADLOCK FALSE

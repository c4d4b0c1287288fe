\* An Agent and an administrator; the catalog is replaced, the node changes.
SPECIFICATION Spec
CONSTANTS
  first = first
  later = later
  broken = broken
  none = none
  p1 = p1
  p2 = p2
  p3 = p3
  p4 = p4
  p5 = p5
  Ids <- AllIds
  Files = {first, later, broken, none}
  Catalog <- Catalogs
  Pves = {p1, p2, p3, p4, p5}
  Storage <- Storages
  Network <- Networks
  Links <- AllLinks
  Requests <- SomeRequests
  Vlans = {0, 2, 150, 2100, 4095}
  None = None
  Unknown = Unknown
  MaxSwaps = 2
  MaxMoves = 2
INVARIANTS
  BuildRequestTypeOK
  BuiltIsConfirmed
  ReadyIsAccepted
  OfferIsAccepted
  HostBridgeNeedsUse
CHECK_DEADLOCK FALSE

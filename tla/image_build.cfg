\* Two builders, one shared storage; one preparation and boot check.
SPECIFICATION BuildSpec
CONSTANTS
  b1 = b1
  b2 = b2
  v1 = v1
  v2 = v2
  p1 = p1
  p2 = p2
  Builders = {b1, b2}
  Versions = {v1, v2}
  Profiles = {p1, p2}
  Profile <- OwnProfile
  Pids = {1, 2}
  Pinnings <- SameOrLater
  None = None
  Mixed = Mixed
  Preparers = {b1}
  Checkers = {b1}
  Calls <- AllCalls
  Required <- Needed
  Demanded <- Needed
  Guests <- SomeGuests
  NoImage = NoImage
  MaxQueue = 2
INVARIANTS
  BuildTypeOK
  LeftoversNeverFatal
  SnippetsAreTheirNames
  CopiedIsPinned
  ReportMeansFit
  DisabledHasCause
  NothingLeftBehind
PROPERTY PreparationEnds
CHECK_DEADLOCK FALSE

\* Two saves of different storages and two edits by administrators.
SPECIFICATION Spec
CONSTANTS
  s1 = s1
  s2 = s2
  pbs = pbs
  nfs = nfs
  hello = hello
  Savers = {s1, s2}
  Storages = {pbs, nfs}
  Wanted <- TwoTargets
  Texts = {hello}
  Unset = Unset
  Absent = Absent
  Invalid = Invalid
  Joined = Joined
  InitialNotes <- CleanNotes
  MaxEdits = 2
INVARIANTS
  TypeOK
  PublishedWasUsable
PROPERTIES
  IsRegister
  OverridesKnowingly
CHECK_DEADLOCK FALSE

\* A save is reported as failed after it took effect.
SPECIFICATION Spec
CONSTANTS
  s1 = s1
  s2 = s2
  pbs = pbs
  nfs = nfs
  hello = hello
  Savers = {s1, s2}
  Storages = {pbs, nfs}
  Wanted <- TwoTargets
  Texts = {hello}
  Unset = Unset
  Absent = Absent
  Invalid = Invalid
  Joined = Joined
  InitialNotes <- CleanNotes
  MaxEdits = 0
INVARIANTS
  NotSavedMeansNotSaved
CHECK_DEADLOCK FALSE

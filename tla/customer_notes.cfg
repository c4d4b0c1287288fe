\* A marker line that does not end in a newline.
SPECIFICATION Spec
CONSTANTS
  s1 = s1
  s2 = s2
  pbs = pbs
  nfs = nfs
  hello = hello
  Savers = {s1, s2}
  Storages = {pbs, nfs}
  Wanted <- TwoTargets
  Texts = {hello}
  Unset = Unset
  Absent = Absent
  Invalid = Invalid
  Joined = Joined
  InitialNotes <- OddNotes
  MaxEdits = 0
PROPERTIES
  OtherNotesKept
CHECK_DEADLOCK FALSE

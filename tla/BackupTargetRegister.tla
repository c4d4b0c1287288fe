------------------------ MODULE BackupTargetRegister ------------------------
(***************************************************************************)
(* What CustomerBackupTarget promises: a register that holds the storage   *)
(* published for customers' backups, set atomically by saves, in a node    *)
(* configuration whose remainder belongs to administrators.                *)
(***************************************************************************)
EXTENDS Naturals

CONSTANTS
  Savers,   \* processes that set the register
  Wanted,   \* Wanted[s]: what saver s sets it to
  Invalid   \* more than a register can hold: saves leave it alone

VARIABLES
  target,   \* the value published, if any
  rest,     \* everything else in the configuration
  edits     \* edits by administrators so far

vars == <<target, rest, edits>>

Init == edits = 0

Set(s) ==
  /\ target # Invalid
  /\ target' = Wanted[s]
  /\ UNCHANGED <<rest, edits>>

\* An administrator may do anything to the configuration.
Edit == edits' = edits + 1

Next == Edit \/ \E s \in Savers : Set(s)

Spec == Init /\ [][Next]_vars
=============================================================================

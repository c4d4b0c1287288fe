------------------------ MODULE CustomerBackupTarget ------------------------
(***************************************************************************)
(* tools/customer-backup-target.py: the storage customers' backups go to,  *)
(* published as one marker line among the notes of a PVE node.             *)
(*                                                                         *)
(* A saver is one `set --storage' process.  It looks at the storage, reads *)
(* the node's configuration, writes the notes with its marker line in them *)
(* back under the digest it read, and reads once more.  Administrators     *)
(* edit the same notes and the same storages meanwhile.                    *)
(*                                                                         *)
(* Notes are a sequence of lines as splitlines cuts them.  `lf' says that  *)
(* a line ends in \n or \r\n; a line without is the last one, or is cut by *)
(* one of the other separators of splitlines.  The configuration as a      *)
(* whole stands for its digest.                                            *)
(***************************************************************************)
EXTENDS Naturals, Sequences

CONSTANTS
  Savers,       \* processes running `set'
  Storages,     \* storage IDs
  Wanted,       \* Wanted[s]: the --storage of saver s
  Texts,        \* what operators write in other lines
  Unset,        \* the value `-'
  Absent,       \* parse(): no marker line
  Invalid,      \* parse(): malformed, or several marker lines
  Joined,       \* what a value with another line stuck to it reads as
  InitialNotes, \* what the notes may be to begin with
  MaxEdits      \* bound on the edits of administrators

Values == Storages \cup {Unset, Invalid, Joined}
Line   == [is : Values \cup Texts, lf : BOOLEAN]
Config == [notes : Seq(Line), other : BOOLEAN]

ASSUME TargetAssumption ==
  /\ Wanted \in [Savers -> Storages \cup {Unset}]
  /\ InitialNotes \subseteq Seq(Line)
  /\ Texts \cap Values = {}
  /\ Absent \notin Values
  /\ Unset # Invalid
  /\ Unset \notin Storages
  /\ {Invalid, Joined} \cap Storages = {}
  /\ Unset # Joined
  /\ MaxEdits \in Nat

VARIABLES
  config,  \* the node configuration: notes, and any other option set or not
  usable,  \* storages that are active, enabled and take backups
  edits,   \* edits by administrators so far
  pc,      \* pc[s]: where saver s is in save()
  seen,    \* seen[s]: the configuration s has read
  \* history variables, read by no action
  wrote,   \* savers whose new notes have reached the configuration
  fresh    \* fresh[s]: its storage was usable at some moment of save()

vars == <<config, usable, edits, pc, seen, wrote, fresh>>

NoConfig == [notes |-> <<>>, other |-> FALSE]

-----------------------------------------------------------------------------
(* parse and merge.                                                        *)

IsMarker(line) == line.is \in Values
Markers(notes) == {i \in DOMAIN notes : IsMarker(notes[i])}

Parse(notes) ==
  IF Markers(notes) = {} THEN Absent
  ELSE IF \E i, j \in Markers(notes) : i # j THEN Invalid
  ELSE notes[CHOOSE i \in Markers(notes) : TRUE].is

\* notes + '\n' + the new line.
Appended(notes, value) ==
  LET n == Len(notes) IN
  Append([i \in 1..n |-> [notes[i] EXCEPT !.lf = @ \/ i = n]],
         [is |-> value, lf |-> TRUE])

\* Bug: the notes are replaced and not merged.
MergeOver(notes, value) == <<[is |-> value, lf |-> TRUE]>>

\* For valid notes.  The new marker line keeps a \n and no other separator, so
\* without one the line that follows becomes part of it.
Merge(notes, value) ==
  IF Markers(notes) = {} THEN Appended(notes, value)
  ELSE LET i == CHOOSE i \in Markers(notes) : TRUE IN
       IF notes[i].lf \/ i = Len(notes)
       THEN [notes EXCEPT ![i].is = value]
       ELSE SubSeq(notes, 1, i - 1)
              \o <<[is |-> Joined, lf |-> notes[i + 1].lf]>>
              \o SubSeq(notes, i + 2, Len(notes))

Init ==
  /\ config \in [notes : InitialNotes, other : BOOLEAN]
  /\ usable \in SUBSET Storages
  /\ edits = 0
  /\ pc = [s \in Savers |-> "storage"]
  /\ seen = [s \in Savers |-> NoConfig]
  /\ wrote = {}
  /\ fresh = [s \in Savers |-> Wanted[s] \in usable]

-----------------------------------------------------------------------------
(* save().                                                                 *)

Goto(s, from, to) ==
  /\ pc[s] = from
  /\ pc' = [pc EXCEPT ![s] = to]

\* Bug: the menu's list is trusted, the storage is not looked at again.
CheckNothing(s) ==
  /\ Goto(s, "storage", "config")
  /\ UNCHANGED <<config, usable, edits, seen, wrote, fresh>>

CheckStorage(s) ==
  /\ Goto(s, "storage", "config")
  /\ Wanted[s] = Unset \/ Wanted[s] \in usable
  /\ UNCHANGED <<config, usable, edits, seen, wrote, fresh>>

\* Bug: the digest that came with the notes is not kept.
ReadNotesOnly(s) ==
  /\ Goto(s, "config", "write")
  /\ Parse(config.notes) # Invalid
  /\ seen' = [seen EXCEPT ![s] = config.notes]
  /\ UNCHANGED <<config, usable, edits, wrote, fresh>>

ReadConfig(s) ==
  /\ Goto(s, "config", "write")
  /\ Parse(config.notes) # Invalid
  /\ seen' = [seen EXCEPT ![s] = config]
  /\ UNCHANGED <<config, usable, edits, wrote, fresh>>

\* Bug: neither the digest nor, on a new node, emptiness is checked again.
PublishBlindly(s) ==
  /\ config' = [seen[s] EXCEPT !.notes = Merge(@, Wanted[s])]
  /\ wrote' = wrote \cup {s}
  /\ UNCHANGED <<usable, edits, seen, fresh>>

\* `pvesh set --digest', or INITIALIZE_EMPTY_CONFIG under the lock of PVE when
\* the node had no configuration: nothing has changed since it was read.
Publish(s) ==
  /\ config = seen[s]
  /\ config' = [seen[s] EXCEPT !.notes = Merge(@, Wanted[s])]
  /\ wrote' = wrote \cup {s}
  /\ UNCHANGED <<usable, edits, seen, fresh>>

Write(s) == Goto(s, "write", "readback") /\ Publish(s)

\* The command is killed after 30 seconds, with its work done.
WriteTimesOut(s) == Goto(s, "write", "failed") /\ Publish(s)

Readback(s) ==
  /\ Goto(s, "readback",
          IF Parse(config.notes) = Wanted[s] THEN "saved" ELSE "failed")
  /\ UNCHANGED <<config, usable, edits, seen, wrote, fresh>>

\* ValueError, a command that fails or does not answer, a lost race.
Fail(s) ==
  /\ pc[s] \in {"storage", "config", "write", "readback"}
  /\ pc' = [pc EXCEPT ![s] = "failed"]
  /\ UNCHANGED <<config, usable, edits, seen, wrote, fresh>>

-----------------------------------------------------------------------------
(* Administrators of the node.                                             *)

Edit(to) ==
  /\ edits < MaxEdits
  /\ edits' = edits + 1
  /\ config' = to
  /\ UNCHANGED <<usable, pc, seen, wrote, fresh>>

Without(notes, i) == SubSeq(notes, 1, i - 1) \o SubSeq(notes, i + 1, Len(notes))

EditConfig ==
  \/ \E what \in Values \cup Texts :
       Edit([config EXCEPT !.notes = Appended(@, what)])
  \/ \E i \in DOMAIN config.notes :
       Edit([config EXCEPT !.notes = Without(@, i)])
  \/ Edit([config EXCEPT !.other = ~@])

StorageChanges(x) ==
  /\ edits < MaxEdits
  /\ edits' = edits + 1
  /\ usable' = IF x \in usable THEN usable \ {x} ELSE usable \cup {x}
  /\ fresh' = [s \in Savers |-> fresh[s] \/ Wanted[s] \in usable']
  /\ UNCHANGED <<config, pc, seen, wrote>>

-----------------------------------------------------------------------------
Next ==
  \/ \E s \in Savers : CheckStorage(s)
  \/ \E s \in Savers : ReadConfig(s)
  \/ \E s \in Savers : Write(s)
  \/ \E s \in Savers : WriteTimesOut(s)
  \/ \E s \in Savers : Readback(s)
  \/ \E s \in Savers : Fail(s)
  \/ EditConfig
  \/ \E x \in Storages : StorageChanges(x)

Spec == Init /\ [][Next]_vars

-----------------------------------------------------------------------------
(* What it promises.                                                       *)

TypeOK ==
  /\ config \in Config
  /\ usable \subseteq Storages
  /\ edits \in Nat
  /\ pc \in [Savers -> {"storage", "config", "write", "readback", "saved", "failed"}]
  /\ seen \in [Savers -> Config]
  /\ wrote \subseteq Savers
  /\ fresh \in [Savers -> BOOLEAN]

\* The other lines of the notes, at their places, and the other option.
Rest(c) ==
  <<[i \in DOMAIN c.notes \ Markers(c.notes) |-> c.notes[i].is], c.other>>

Register == INSTANCE BackupTargetRegister WITH
  target <- Parse(config.notes), rest <- Rest(config)

\* The published target is an atomic register beside the other notes, however
\* savers and administrators interleave: a save sets it in one step, to a
\* value some saver wanted, and touches nothing else; it never overwrites a
\* malformed marker.
IsRegister == Register!Spec

Overridden(s) ==
  /\ s \in wrote
  /\ Parse(config.notes) = Wanted[s]
  /\ Parse(config'.notes) # Wanted[s]
  /\ edits' = edits

OverrideOf(t, s) ==
  /\ pc[t] = "write" /\ pc'[t] # "write"
  /\ Parse(seen[t].notes) = Wanted[s]

\* A target that was published is replaced only by an administrator or by a
\* save that had read it: of two saves at the same time one gives way.
OverridesKnowingly ==
  [][\A s \in Savers :
       Overridden(s) => \E t \in Savers : OverrideOf(t, s)]_vars

\* What is published was usable at some moment of the save that published it.
PublishedWasUsable ==
  \A s \in wrote : Wanted[s] = Unset \/ fresh[s]

\* build-cloud-templates.sh says of a failing `set': the location is not
\* saved.
NotSavedMeansNotSaved ==
  \A s \in Savers : pc[s] = "failed" => s \notin wrote

\* docs/INTERACTIVE-INSTALL.md: the other notes are kept.
OtherNotesKept ==
  [][edits' = edits => Rest(config') = Rest(config)]_vars
=============================================================================

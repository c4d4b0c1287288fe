-------------------------- MODULE ImagePreparation --------------------------
(***************************************************************************)
(* tools/prepare-image.py and, within the guest, tools/configure-qga.py:   *)
(* an updated, independent copy of the pinned image is made for one row.   *)
(* What the package manager does in the guest is left out; the lists of    *)
(* agent calls that a distribution allows or blocks are followed, because  *)
(* the boot check rests on them.                                           *)
(***************************************************************************)
EXTENDS FiniteSets

CONSTANTS
  Preparers,  \* processes preparing an image
  Calls,      \* calls a guest agent knows
  Required,   \* REQUIRED: calls the panel needs
  Guests,     \* upstream images: see Guest
  NoImage     \* no prepared file

(***************************************************************************)
(* `fit': a standalone qcow2 no larger than DISK_SIZE with one plain root  *)
(* partition and its UUID; `efi': it mounts an EFI System Partition;       *)
(* `ovmf': its row asks for OVMF; `known': configure-qga.py recognises the *)
(* values of the agent's options, which allow `allow' and block            *)
(* `block'; without an allow list an agent allows all its calls.  A list   *)
(* in `unseen' is written as the patterns of configure-qga.py do not match *)
(* it, with blanks after the commas, say: the program passes over it.      *)
(***************************************************************************)
Guest == [fit : BOOLEAN, efi : BOOLEAN, ovmf : BOOLEAN, known : BOOLEAN,
          allow : SUBSET Calls, block : SUBSET Calls,
          unseen : SUBSET {"allow", "block"}]

\* An allow list with nothing in it allows everything in QEMU, and nothing
\* but REQUIRED once edited; no distribution ships one.
ASSUME GuestAssumption ==
  /\ Guests \subseteq Guest
  /\ \A g \in Guests : g.allow # {}
  /\ Required \subseteq Calls

VARIABLES
  guest,      \* guest[p]: the upstream image of p's row, or NoImage
  ppc,        \* ppc[p]: where p is in prepare()
  image,      \* image[p]: the prepared file, or NoImage
  recorded    \* preparers whose .json report exists

prepVars == <<guest, ppc, image, recorded>>

PrepActive == {"inspect", "copy", "customise", "examine", "record"}
PrepEnded  == {"prepared", "refused", "killed"}

PrepInit ==
  /\ guest = [p \in Preparers |-> NoImage]
  /\ ppc = [p \in Preparers |-> "idle"]
  /\ image = [p \in Preparers |-> NoImage]
  /\ recorded = {}

PrepGoto(p, from, to) ==
  /\ ppc[p] = from
  /\ ppc' = [ppc EXCEPT ![p] = to]

-----------------------------------------------------------------------------
\* Calls an agent with these lists answers.
Enabled(lists) == lists.allow \ lists.block

\* Bug: only the block list is edited.
ConfiguredBlockOnly(lists, unseen) ==
  [lists EXCEPT !.block = IF "block" \in unseen THEN @ ELSE @ \ Required]

\* rpc_list over every list the patterns match in the agent's two
\* configuration files; the others stay, and nothing is said of it.
Configured(lists, unseen) ==
  [lists EXCEPT !.allow = IF "allow" \in unseen THEN @ ELSE @ \cup Required,
                !.block = IF "block" \in unseen THEN @ ELSE @ \ Required]

\* The engine calls prepare-image.py for a row.
StartPreparing(p) ==
  /\ PrepGoto(p, "idle", "inspect")
  /\ \E g \in Guests : guest' = [guest EXCEPT ![p] = g]
  /\ UNCHANGED <<image, recorded>>

\* Everything that is asked of the source before the target exists.
Inspect(p) ==
  /\ PrepGoto(p, "inspect", "copy")
  /\ guest[p].fit
  /\ guest[p].ovmf => guest[p].efi
  /\ UNCHANGED <<guest, image, recorded>>

\* qemu-img convert, or create and virt-resize, of what the source holds.
Copy(p, content) ==
  /\ PrepGoto(p, "copy", "customise")
  /\ image' = [image EXCEPT ![p] =
                 [source |-> content, allow |-> guest[p].allow,
                  block |-> guest[p].block]]
  /\ UNCHANGED <<guest, recorded>>

\* virt-customize, whose last part is configure-qga.py.
Customise(p) ==
  /\ PrepGoto(p, "customise", "examine")
  /\ guest[p].known
  /\ image' = [image EXCEPT ![p] = Configured(@, guest[p].unseen)]
  /\ UNCHANGED <<guest, recorded>>

\* Fallback loader, build report, package list, size, qemu-img check.
Examine(p) ==
  /\ PrepGoto(p, "examine", "record")
  /\ UNCHANGED <<guest, image, recorded>>

\* The hash and the .json report; the engine keeps the printed hash.
RecordHash(p) ==
  /\ PrepGoto(p, "record", "prepared")
  /\ recorded' = recorded \cup {p}
  /\ UNCHANGED <<guest, image>>

\* Any check raises, or a command fails or outlives its timeout: from the
\* copy on, the target and its report are removed before the exit.
PrepFails(p) ==
  /\ ppc[p] \in PrepActive
  /\ ppc' = [ppc EXCEPT ![p] = "refused"]
  /\ image' = [image EXCEPT ![p] = NoImage]
  /\ recorded' = recorded \ {p}
  /\ UNCHANGED guest

\* SIGTERM or SIGKILL: no handler runs.
PrepKilled(p) ==
  /\ ppc[p] \in PrepActive
  /\ ppc' = [ppc EXCEPT ![p] = "killed"]
  /\ UNCHANGED <<guest, image, recorded>>

PrepProgress(p, content) ==
  \/ Inspect(p) \/ Copy(p, content) \/ Customise(p) \/ Examine(p)
  \/ RecordHash(p) \/ PrepFails(p)

-----------------------------------------------------------------------------
\* Every variable has its type; what is copied is of type Source.
PrepTypeOK(Source) ==
  /\ guest \in [Preparers -> Guests \cup {NoImage}]
  /\ ppc \in [Preparers -> {"idle"} \cup PrepActive \cup PrepEnded]
  /\ image \in [Preparers -> {NoImage} \cup
                  [source : Source, allow : SUBSET Calls, block : SUBSET Calls]]
  /\ recorded \subseteq Preparers

\* A preparation that fails leaves nothing under the final name that a later
\* step could take for a prepared image; one that ends well leaves the image
\* and its report.
FailedLeavesNothing ==
  \A p \in Preparers :
    /\ ppc[p] = "refused" => image[p] = NoImage /\ p \notin recorded
    /\ ppc[p] = "prepared" => image[p] # NoImage /\ p \in recorded

=============================================================================

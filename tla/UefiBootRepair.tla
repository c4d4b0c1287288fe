--------------------------- MODULE UefiBootRepair ---------------------------
(***************************************************************************)
(* tools/repair-uefi-boot.py beside the template build engine.             *)
(*                                                                         *)
(* The tool gives the OVMF templates of earlier releases the boot order    *)
(* that new ones have.  It takes no lock: it inspects all of them, then    *)
(* edits one after the other, each edit carrying the digest it inspected.  *)
(* A run that failed half-way is simply started again.                     *)
(***************************************************************************)
EXTENDS TemplateEngine

CONSTANTS
  Repairers,  \* processes running the tool
  RepairNode, \* RepairNode[r]: the node r runs on
  Items,      \* the OVMF items of the catalog, as a sequence of VMIDs
  Apply,      \* Apply[r]: started with --apply
  MaxRepairs  \* bound on the number of runs of one process

ASSUME RepairAssumption ==
  /\ RepairNode \in [Repairers -> Nodes]
  /\ Apply \in [Repairers -> BOOLEAN]
  /\ MaxRepairs \in Nat
  /\ Items \in Seq(Ovmf)
  /\ Len(Items) > 0
  /\ \A i, j \in 1..Len(Items) : Items[i] = Items[j] => i = j

VARIABLES
  rpc,        \* rpc[r]: where r is in main()
  rpos,       \* rpos[r]: the item the current loop works on
  before,     \* before[r][v]: the configuration kept in `pending', or None
  repairs,    \* repairs[r]: runs started
  \* history variables, read by no action
  touched,    \* touched[r]: VMIDs others changed since r last compared them
  mended      \* VMIDs some repair wrote and nobody changed since

repairVars == <<rpc, rpos, before, repairs, touched, mended>>
allVars    == <<vars, repairVars>>

RepairEnded == {"done", "refused", "failed"}

Item(r) == Items[rpos[r]]

Step(r, from, to) ==
  /\ rpc[r] = from
  /\ rpc' = [rpc EXCEPT ![r] = to]

\* Bug: the loop runs one item past the end, or stops one item short.
LastItemPast(r)  == rpos[r] > Len(Items)
LastItemShort(r) == rpos[r] + 1 >= Len(Items)

LastItem(r) == rpos[r] = Len(Items)

\* A `for' loop over the items: the next item, or what follows the loop.
NextItem(r, from, again, after) ==
  /\ rpos' = [rpos EXCEPT ![r] = IF LastItem(r) THEN 1 ELSE @ + 1]
  /\ Step(r, from, IF LastItem(r) THEN after ELSE again)

\* Bug: a template that already has the new boot order is refused.
ValidOnlyOld(v, n) == Managed(v, n) /\ vm[v].boot = "disk"

\* validate(): an unlocked project template without a boot order of its own.
Valid(v, n) == Managed(v, n) /\ vm[v].boot \in {"disk", "both"}

RepairInit ==
  /\ Init
  /\ rpc = [r \in Repairers |-> "idle"]
  /\ rpos = [r \in Repairers |-> 1]
  /\ before = [r \in Repairers |-> [v \in Vmids |-> None]]
  /\ repairs = [r \in Repairers |-> 0]
  /\ touched = [r \in Repairers |-> {}]
  /\ mended = {}

-----------------------------------------------------------------------------
\* A process begins or ends: it knows of no item.
Forget(r) ==
  /\ rpos' = [rpos EXCEPT ![r] = 1]
  /\ before' = [before EXCEPT ![r] = [v \in Vmids |-> None]]
  /\ touched' = [touched EXCEPT ![r] = {}]

\* The tool is started, for the first time or once more after a failure.
StartRepair(r) ==
  /\ rpc[r] \in {"idle"} \cup RepairEnded
  /\ repairs[r] < MaxRepairs
  /\ rpc' = [rpc EXCEPT ![r] = "preflight"]
  /\ repairs' = [repairs EXCEPT ![r] = @ + 1]
  /\ Forget(r)
  /\ UNCHANGED <<vars, mended>>

\* One item of the first loop, which changes nothing.
Preflight(r) ==
  /\ Valid(Item(r), RepairNode[r])
  /\ NextItem(r, "preflight", "preflight", "row")
  /\ before' = [before EXCEPT ![r][Item(r)] = vm[Item(r)]]
  /\ touched' = [touched EXCEPT ![r] = @ \ {Item(r)}]
  /\ UNCHANGED <<vars, repairs, mended>>

\* validate() raises in the first loop.
Refuse(r) ==
  /\ OnNode(Item(r), RepairNode[r])
  /\ ~Valid(Item(r), RepairNode[r])
  /\ Step(r, "preflight", "refused")
  /\ Forget(r)
  /\ UNCHANGED <<vars, repairs, mended>>

\* Nothing to change, or a dry run: the item is printed.
Skip(r) ==
  /\ NextItem(r, "row", "row", "done")
  /\ Apply[r] => before[r][Item(r)].boot = "both"
  /\ UNCHANGED <<vars, before, repairs, touched, mended>>

\* The second look at an item to change, digest included.
Reinspect(r) ==
  /\ Step(r, "row", "set")
  /\ Apply[r] /\ before[r][Item(r)].boot # "both"
  /\ Valid(Item(r), RepairNode[r])
  /\ vm[Item(r)] = before[r][Item(r)]
  /\ UNCHANGED <<vars, rpos, before, repairs, touched, mended>>

\* An edit of VMID v by the tool, as every builder sees it.
SetBoot(r) ==
  LET v == Item(r) IN
  /\ Step(r, "set", "readback")
  /\ OnNode(v, RepairNode[r])
  /\ vm' = [vm EXCEPT ![v].boot = "both"]
  /\ meddled' = [b \in Builders |-> meddled[b] \cup {v}]
  /\ touched' = [s \in Repairers |-> IF s = r THEN touched[r] \ {v}
                                              ELSE touched[s] \cup {v}]
  /\ mended' = mended \cup {v}
  /\ UNCHANGED <<inUse, births, ops, lock, pc, runVars, manifest, replaced,
                 excused, rpos, before, repairs>>

\* Bug: pvesh set without --digest.
SetAnyDigest(r) == SetBoot(r)

\* pvesh set --digest: PVE compares and writes under one lock.
Set(r) ==
  /\ vm[Item(r)] = before[r][Item(r)]
  /\ SetBoot(r)

\* The read-back shows the new boot order and no other difference.
Readback(r) ==
  /\ NextItem(r, "readback", "row", "done")
  /\ OnNode(Item(r), RepairNode[r])
  /\ vm[Item(r)] = [before[r][Item(r)] EXCEPT !.boot = "both"]
  /\ UNCHANGED <<vars, before, repairs, touched, mended>>

\* pvesh fails, validate() or a comparison raises in the second loop, or the
\* process is killed: nothing is undone.
RepairFails(r) ==
  /\ rpc[r] \in {"preflight", "row", "set", "readback"}
  /\ rpc' = [rpc EXCEPT ![r] = "failed"]
  /\ Forget(r)
  /\ UNCHANGED <<vars, repairs, mended>>

RepairStep(r) ==
  \/ StartRepair(r) \/ Preflight(r) \/ Refuse(r) \/ Skip(r) \/ Reinspect(r)
  \/ Set(r) \/ Readback(r) \/ RepairFails(r)

\* A step of the engine or of an operator.
ClusterStep ==
  /\ Next
  /\ touched' = [r \in Repairers |-> touched[r] \cup {v \in Vmids : vm'[v] # vm[v]}]
  /\ mended' = {v \in mended : vm'[v] = vm[v]}
  /\ UNCHANGED <<rpc, rpos, before, repairs>>

RepairNext == ClusterStep \/ \E r \in Repairers : RepairStep(r)

\* Nothing is assumed of the tool: it may stop anywhere.
RepairSpec == RepairInit /\ [][RepairNext]_allVars /\ Fairness

-----------------------------------------------------------------------------
(* What the tool promises.                                                 *)

RepairTypeOK ==
  /\ TypeOK
  /\ rpc \in [Repairers -> {"idle", "preflight", "row", "set", "readback"}
                             \cup RepairEnded]
  /\ rpos \in [Repairers -> 1..Len(Items)]
  /\ before \in [Repairers -> [Vmids -> Vm \cup {None}]]
  /\ repairs \in [Repairers -> 0..MaxRepairs]
  /\ touched \in [Repairers -> SUBSET Vmids]
  /\ mended \subseteq Vmids

\* A repair that ends well leaves every OVMF template with the new boot
\* order, except those somebody else changed behind its back (README: the
\* tool repairs templates of earlier releases).
RepairedWhenDone ==
  \A r \in Repairers :
    rpc[r] = "done" /\ Apply[r] =>
      \A i \in 1..Len(Items) :
        \/ Items[i] \in touched[r]
        \/ vm[Items[i]] # None /\ vm[Items[i]].boot = "both"

\* Whatever happens between the inspection and the edit, the edit hits the
\* very template that was inspected, unlocked and not half-built, and only
\* after all items passed; it changes the boot order and nothing else.
RepairOnlyInspected ==
  [][\A r \in Repairers, v \in Vmids :
       rpc[r] = "set" /\ rpc'[r] = "readback" /\ vm'[v] # vm[v] =>
         /\ Valid(v, RepairNode[r])
         /\ vm[v] = before[r][v]
         /\ vm'[v] = [vm[v] EXCEPT !.boot = "both"]
         /\ \A i \in 1..Len(Items) : before[r][Items[i]] # None]_allVars

\* A run that stopped between two items can be repeated: what an earlier run
\* repaired, and nobody changed since, never makes a later one refuse.
RepairCanBeRepeated ==
  [][\A r \in Repairers :
       rpc[r] = "preflight" /\ rpc'[r] = "refused"
         => Item(r) \notin mended]_allVars

=============================================================================

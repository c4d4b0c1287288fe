----------------------- MODULE UefiBootRepair_proofs -----------------------
(***************************************************************************)
(* Proofs about UefiBootRepair: any number of engines, repairs, nodes and  *)
(* items, and any number of runs of each repair.                           *)
(*                                                                         *)
(* To the engines an edit of the tool is a step of somebody else, so their *)
(* invariant holds beside it; the tool's own invariant says how what it    *)
(* remembers, what others changed and what it mended are related.          *)
(***************************************************************************)
EXTENDS UefiBootRepair, TemplateEngine_proofs

Working == {"row", "set", "readback"}

\* A configuration that validate() accepts on node n.
ValidVm(c, n) ==
  /\ c # None /\ c.node = n /\ c.template /\ ~c.lock
  /\ c.name = "catalog" /\ c.tag = "project" /\ c.boot \in {"disk", "both"}

\* v carries the new boot order.
Fixed(v) == vm[v] # None /\ vm[v].boot = "both"

\* The items the first loop of r has passed, and those the second has.
Inspected(r) ==
  {Items[i] : i \in 1..(IF rpc[r] = "preflight" THEN rpos[r] - 1 ELSE Len(Items))}
Finished(r) ==
  {Items[i] : i \in 1..(IF rpc[r] \in Working THEN rpos[r] - 1 ELSE Len(Items))}

\* What r remembers of the items it has inspected is what they are, unless
\* others changed them or r has mended them.
RememberedOf(r) ==
  rpc[r] \in {"preflight"} \cup Working =>
    \A v \in Inspected(r) :
      /\ before[r][v] # None
      /\ \/ v \in touched[r]
         \/ vm[v] = before[r][v]
         \/ rpc[r] \in Working /\ Fixed(v)

\* What the second loop has passed carries the new boot order.
FinishedOf(r) ==
  rpc[r] \in Working \cup {"done"} /\ Apply[r] =>
    \A v \in Finished(r) : v \in touched[r] \/ Fixed(v)

\* What is about to be edited passed validate().
AcceptedOf(r) == rpc[r] = "set" => ValidVm(before[r][Item(r)], RepairNode[r])

RepairOf(r) == RememberedOf(r) /\ FinishedOf(r) /\ AcceptedOf(r)

\* What was mended, and nobody changed since, passes validate() where it is.
MendedIsValid == \A v \in mended : vm[v] # None /\ ValidVm(vm[v], vm[v].node)

RepairInv ==
  /\ IInv /\ RepairTypeOK
  /\ \A r \in Repairers : RepairOf(r)
  /\ MendedIsValid

LEMMA ValidMeansValidVm ==
  ASSUME NEW v, NEW n
  PROVE  Valid(v, n) <=> ValidVm(vm[v], n)
BY DEF Valid, ValidVm, Managed, OnNode

\* The item at hand is a VMID.
LEMMA ItemType ==
  ASSUME RepairTypeOK, NEW r \in Repairers
  PROVE  /\ Item(r) \in Vmids /\ Len(Items) \in Nat /\ Len(Items) > 0
         /\ rpos[r] \in 1..Len(Items)
         /\ \A i \in 1..Len(Items) : Items[i] \in Vmids
         /\ ~LastItem(r) => rpos[r] + 1 \in 1..Len(Items)
<1>1. /\ Items \in Seq(Ovmf) /\ Len(Items) > 0 /\ Len(Items) \in Nat
      /\ rpos[r] \in 1..Len(Items)
  BY RepairAssumption DEF RepairTypeOK
<1>2. \A i \in 1..Len(Items) : Items[i] \in Vmids
  BY <1>1, FirmwareAssumption
<1> QED
  BY <1>1, <1>2 DEF Item, LastItem

-----------------------------------------------------------------------------
(* Types.                                                                  *)

LEMMA NextItemType ==
  ASSUME RepairTypeOK, NEW r \in Repairers, NEW from, NEW again, NEW after,
         NextItem(r, from, again, after)
  PROVE  /\ rpc[r] = from
         /\ rpos' \in [Repairers -> 1..Len(Items)]
         /\ \A s \in Repairers \ {r} : rpos'[s] = rpos[s] /\ rpc'[s] = rpc[s]
         /\ LastItem(r) => rpc'[r] = after /\ rpos'[r] = 1
         /\ ~LastItem(r) => rpc'[r] = again /\ rpos'[r] = rpos[r] + 1
         /\ rpc' = [rpc EXCEPT ![r] = IF LastItem(r) THEN after ELSE again]
<1>1. /\ rpos[r] \in 1..Len(Items) /\ Len(Items) \in Nat /\ Len(Items) > 0
      /\ ~LastItem(r) => rpos[r] + 1 \in 1..Len(Items)
  BY ItemType
<1> QED
  BY <1>1 DEF NextItem, Step, RepairTypeOK

LEMMA SetBootType ==
  ASSUME RepairTypeOK, NEW r \in Repairers, SetBoot(r)
  PROVE  /\ TypeOK'
         /\ vm' = [vm EXCEPT ![Item(r)] = [vm[Item(r)] EXCEPT !.boot = "both"]]
         /\ vm[Item(r)] \in Vm
<1>1. Item(r) \in Vmids /\ TypeOK
  BY ItemType DEF RepairTypeOK
<1>2. vm[Item(r)] \in Vm
  BY <1>1 DEF SetBoot, OnNode, TypeOK
<1>3. [vm[Item(r)] EXCEPT !.boot = "both"] \in Vm
  BY <1>2 DEF Vm, BootOrders
<1>4. vm' = [vm EXCEPT ![Item(r)] = [vm[Item(r)] EXCEPT !.boot = "both"]]
  BY DEF SetBoot
<1>5. /\ vm' \in [Vmids -> Vm \cup {None}]
      /\ meddled' \in [Builders -> SUBSET Vmids]
  BY <1>1, <1>3, <1>4 DEF SetBoot, TypeOK
<1>6. UNCHANGED <<inUse, births, ops, lock, pc, runVars, manifest, replaced, excused>>
  BY DEF SetBoot
<1> QED
  BY <1>1, <1>2, <1>4, <1>5, <1>6 DEF TypeOK, runVars

\* To the engines an edit of the tool is a step of somebody else.
LEMMA SetBootIsForeign ==
  ASSUME RepairTypeOK, NEW r \in Repairers, SetBoot(r)
  PROVE  ForeignStep
<1>1. /\ vm' = [vm EXCEPT ![Item(r)] = [vm[Item(r)] EXCEPT !.boot = "both"]]
      /\ vm[Item(r)] \in Vm /\ Item(r) \in Vmids /\ TypeOK
  BY SetBootType, ItemType DEF RepairTypeOK
<1>2. /\ UNCHANGED <<inUse, lock, pc, runVars, manifest, replaced, excused>>
      /\ meddled' = [b \in Builders |-> meddled[b] \cup {Item(r)}]
      /\ vm[Item(r)] # None
  BY DEF SetBoot, OnNode
<1>3. /\ \A w \in Vmids \ {Item(r)} : vm'[w] = vm[w]
      /\ vm'[Item(r)] = [vm[Item(r)] EXCEPT !.boot = "both"]
  BY <1>1 DEF TypeOK
<1>4. /\ vm'[Item(r)].maker = vm[Item(r)].maker
      /\ vm'[Item(r)].node = vm[Item(r)].node
      /\ vm'[Item(r)].configured = vm[Item(r)].configured
      /\ vm'[Item(r)].template = vm[Item(r)].template
      /\ vm'[Item(r)].tag = vm[Item(r)].tag
      /\ vm'[Item(r)].name = vm[Item(r)].name
  BY <1>1, <1>3 DEF Vm
<1> QED
  BY <1>1, <1>2, <1>3, <1>4 DEF ForeignStep

LEMMA RepairTypes ==
  ASSUME RepairTypeOK, NEW r \in Repairers, RepairStep(r)
  PROVE  RepairTypeOK'
<1> USE DEF RepairTypeOK, RepairEnded, Step, Forget
<1>0. /\ Item(r) \in Vmids /\ 1 \in 1..Len(Items) /\ TypeOK
      /\ (UNCHANGED vars => TypeOK')
      /\ vm[Item(r)] \in Vm \cup {None}
  BY ItemType DEF TypeOK, vars, pveVars, runVars, historyVars
<1>1. CASE StartRepair(r)
  <2>1. repairs' \in [Repairers -> 0..MaxRepairs]
    BY <1>1, RepairAssumption DEF StartRepair
  <2> QED
    BY <1>0, <1>1, <2>1 DEF StartRepair
<1>2. CASE Preflight(r)
  <2>1. /\ rpos' \in [Repairers -> 1..Len(Items)]
        /\ rpc' = [rpc EXCEPT ![r] = IF LastItem(r) THEN "row" ELSE "preflight"]
    BY <1>2, NextItemType DEF Preflight
  <2> QED
    BY <1>0, <1>2, <2>1 DEF Preflight
<1>3. CASE Refuse(r)
  BY <1>0, <1>3 DEF Refuse
<1>4. CASE Skip(r)
  <2>1. /\ rpos' \in [Repairers -> 1..Len(Items)]
        /\ rpc' = [rpc EXCEPT ![r] = IF LastItem(r) THEN "done" ELSE "row"]
    BY <1>4, NextItemType DEF Skip
  <2> QED
    BY <1>0, <1>4, <2>1 DEF Skip
<1>5. CASE Reinspect(r)
  BY <1>0, <1>5 DEF Reinspect
<1>6. CASE Set(r)
  BY <1>0, <1>6, SetBootType DEF Set, SetBoot
<1>7. CASE Readback(r)
  <2>1. /\ rpos' \in [Repairers -> 1..Len(Items)]
        /\ rpc' = [rpc EXCEPT ![r] = IF LastItem(r) THEN "done" ELSE "row"]
    BY <1>7, NextItemType DEF Readback
  <2> QED
    BY <1>0, <1>7, <2>1 DEF Readback
<1>8. CASE RepairFails(r)
  BY <1>0, <1>8 DEF RepairFails
<1> QED
  BY <1>1, <1>2, <1>3, <1>4, <1>5, <1>6, <1>7, <1>8 DEF RepairStep

-----------------------------------------------------------------------------
(* What a repair remembers.                                                *)

\* A step of anybody else leaves s in peace: what changes is noted.
LEMMA OthersAreNoted ==
  ASSUME RepairTypeOK, NEW s \in Repairers, RepairOf(s),
         rpc'[s] = rpc[s], rpos'[s] = rpos[s], before'[s] = before[s],
         touched[s] \subseteq touched'[s],
         \A v \in Vmids : vm'[v] = vm[v] \/ v \in touched'[s]
  PROVE  RepairOf(s)'
<1>1. /\ Inspected(s)' = Inspected(s) /\ Finished(s)' = Finished(s)
      /\ Item(s)' = Item(s)
      /\ Inspected(s) \subseteq Vmids /\ Finished(s) \subseteq Vmids
  BY ItemType DEF Inspected, Finished, Item
<1>2. RememberedOf(s)'
  BY <1>1 DEF RepairOf, RememberedOf, Fixed
<1>3. FinishedOf(s)'
  BY <1>1 DEF RepairOf, FinishedOf, Fixed
<1>4. AcceptedOf(s)'
  BY <1>1 DEF RepairOf, AcceptedOf, ValidVm
<1> QED
  BY <1>2, <1>3, <1>4 DEF RepairOf

\* What a loop over the items has passed.
LEMMA LoopStep ==
  ASSUME RepairTypeOK, NEW r \in Repairers
  PROVE  /\ LastItem(r) => {Items[i] : i \in 1..Len(Items)}
                             = {Items[i] : i \in 1..(rpos[r] - 1)} \cup {Item(r)}
         /\ {Items[i] : i \in 1..((rpos[r] + 1) - 1)}
                             = {Items[i] : i \in 1..(rpos[r] - 1)} \cup {Item(r)}
         /\ {Items[i] : i \in 1..(1 - 1)} = {}
         /\ {Items[i] : i \in 1..(rpos[r] - 1)} \subseteq {Items[i] : i \in 1..Len(Items)}
<1>1. rpos[r] \in 1..Len(Items) /\ Len(Items) \in Nat
  BY ItemType
<1>2. /\ LastItem(r) => 1..Len(Items) = 1..(rpos[r] - 1) \cup {rpos[r]}
      /\ 1..((rpos[r] + 1) - 1) = 1..(rpos[r] - 1) \cup {rpos[r]}
      /\ 1..(1 - 1) = {}
      /\ 1..(rpos[r] - 1) \subseteq 1..Len(Items)
  BY <1>1 DEF LastItem
<1> QED
  BY <1>1, <1>2 DEF Item

LEMMA OwnRepair ==
  ASSUME RepairTypeOK, NEW r \in Repairers, RepairOf(r), RepairStep(r)
  PROVE  RepairOf(r)'
<1> DEFINE Passed == {Items[i] : i \in 1..(rpos[r] - 1)}
           All == {Items[i] : i \in 1..Len(Items)}
<1>0. /\ Item(r) \in Vmids /\ All \subseteq Vmids /\ Passed \subseteq All /\ Item(r) \in All
      /\ LastItem(r) => All = Passed \cup {Item(r)}
  <2>1. Item(r) \in Vmids /\ rpos[r] \in 1..Len(Items) /\ All \subseteq Vmids
    BY ItemType
  <2>2. Item(r) \in All
    BY <2>1 DEF Item
  <2>3. Passed \subseteq All /\ (LastItem(r) => All = Passed \cup {Item(r)})
    BY LoopStep
  <2> QED
    BY <2>1, <2>2, <2>3
<1>1. CASE StartRepair(r)
  <2>1. rpc'[r] = "preflight" /\ rpos'[r] = 1
    BY <1>1 DEF StartRepair, Forget, RepairTypeOK
  <2>2. Inspected(r)' = {}
    BY <2>1, LoopStep DEF Inspected
  <2> QED
    BY <2>1, <2>2 DEF RepairOf, RememberedOf, FinishedOf, AcceptedOf, Working
<1>2. CASE Preflight(r)
  <2>1. /\ rpc[r] = "preflight" /\ rpc'[r] \in {"preflight", "row"} /\ vm' = vm
        /\ Inspected(r) = Passed
        /\ before'[r] = [before[r] EXCEPT ![Item(r)] = vm[Item(r)]]
        /\ touched'[r] = touched[r] \ {Item(r)}
        /\ before[r] \in [Vmids -> Vm \cup {None}] /\ vm[Item(r)] # None
    <3>1. rpc[r] = "preflight" /\ rpc'[r] \in {"preflight", "row"}
      BY <1>2, NextItemType DEF Preflight
    <3>2. vm' = vm /\ vm[Item(r)] # None
      BY <1>2 DEF Preflight, Valid, Managed, OnNode, vars, pveVars
    <3>3. /\ before'[r] = [before[r] EXCEPT ![Item(r)] = vm[Item(r)]]
          /\ touched'[r] = touched[r] \ {Item(r)}
          /\ before[r] \in [Vmids -> Vm \cup {None}]
      BY <1>2 DEF Preflight, RepairTypeOK
    <3> QED
      BY <3>1, <3>2, <3>3 DEF Inspected
  <2>2. /\ Inspected(r)' = Passed \cup {Item(r)}
        /\ rpc'[r] = "row" => Finished(r)' = {}
    <3>1. CASE LastItem(r)
      <4>1. rpc'[r] = "row" /\ rpos'[r] = 1
        BY <1>2, <3>1, NextItemType DEF Preflight
      <4> QED
        BY <4>1, <3>1, <1>0, LoopStep DEF Inspected, Finished, Working
    <3>2. CASE ~LastItem(r)
      <4>1. rpc'[r] = "preflight" /\ rpos'[r] = rpos[r] + 1
        BY <1>2, <3>2, NextItemType DEF Preflight
      <4> QED
        BY <4>1, LoopStep DEF Inspected
    <3> QED
      BY <3>1, <3>2
  <2>3. RememberedOf(r)'
    <3> SUFFICES ASSUME NEW v \in Passed \cup {Item(r)}
                 PROVE  /\ before'[r][v] # None
                        /\ v \in touched'[r] \/ vm'[v] = before'[r][v]
      BY <2>2 DEF RememberedOf
    <3>1. CASE v = Item(r)
      BY <3>1, <2>1, <1>0
    <3>2. CASE v # Item(r)
      BY <3>2, <2>1, <1>0 DEF RepairOf, RememberedOf, Working
    <3> QED
      BY <3>1, <3>2
  <2> QED
    BY <2>1, <2>2, <2>3 DEF RepairOf, FinishedOf, AcceptedOf, Working
<1>3. CASE Refuse(r) \/ RepairFails(r)
  <2>1. rpc'[r] \in {"refused", "failed"}
    BY <1>3 DEF Refuse, RepairFails, Step, RepairTypeOK
  <2> QED
    BY <2>1 DEF RepairOf, RememberedOf, FinishedOf, AcceptedOf, Working
<1>4. CASE Skip(r) \/ Readback(r)
  <2>1. /\ rpc[r] \in Working /\ rpc'[r] \in {"row", "done"} /\ vm' = vm
        /\ before' = before /\ touched' = touched
        /\ Inspected(r) = All /\ Finished(r) = Passed /\ Inspected(r)' = All
    <3>1. rpc[r] \in {"row", "readback"} /\ rpc'[r] \in {"row", "done"}
      BY <1>4, NextItemType DEF Skip, Readback
    <3>2. vm' = vm /\ before' = before /\ touched' = touched
      BY <1>4 DEF Skip, Readback, vars, pveVars
    <3> QED
      BY <3>1, <3>2 DEF Inspected, Finished, Working
  <2>2. Finished(r)' = Passed \cup {Item(r)}
    <3>1. CASE LastItem(r)
      <4>1. rpc'[r] = "done"
        BY <1>4, <3>1, NextItemType DEF Skip, Readback
      <4> QED
        BY <4>1, <3>1, <1>0 DEF Finished, Working
    <3>2. CASE ~LastItem(r)
      <4>1. rpc'[r] = "row" /\ rpos'[r] = rpos[r] + 1
        BY <1>4, <3>2, NextItemType DEF Skip, Readback
      <4> QED
        BY <4>1, LoopStep DEF Finished, Working
    <3> QED
      BY <3>1, <3>2
  <2>3. RememberedOf(r)'
    BY <2>1 DEF RepairOf, RememberedOf, Working, Fixed
  <2>4. Apply[r] => Item(r) \in touched[r] \/ Fixed(Item(r))
    <3>1. CASE Skip(r)
      BY <3>1, <2>1, <1>0 DEF Skip, RepairOf, RememberedOf, Fixed
    <3>2. CASE Readback(r)
      <4>1. /\ before[r][Item(r)] \in Vm \cup {None} /\ before[r][Item(r)] # None
            /\ vm[Item(r)] = [before[r][Item(r)] EXCEPT !.boot = "both"]
            /\ vm[Item(r)] # None
        BY <3>2, <2>1, <1>0 DEF Readback, OnNode, RepairOf, RememberedOf, RepairTypeOK
      <4> QED
        BY <4>1 DEF Fixed, Vm
    <3> QED
      BY <1>4, <3>1, <3>2
  <2>5. FinishedOf(r)'
    BY <2>1, <2>2, <2>4 DEF RepairOf, FinishedOf, Fixed
  <2> QED
    BY <2>1, <2>3, <2>5 DEF RepairOf, AcceptedOf
<1>5. CASE Reinspect(r)
  <2>1. /\ rpc[r] = "row" /\ rpc'[r] = "set" /\ UNCHANGED <<rpos, vm, before, touched>>
        /\ ValidVm(before[r][Item(r)], RepairNode[r])
    BY <1>5, ValidMeansValidVm DEF Reinspect, Step, RepairTypeOK, vars, pveVars
  <2>2. /\ Inspected(r)' = Inspected(r) /\ Finished(r)' = Finished(r) /\ Item(r)' = Item(r)
    BY <2>1 DEF Inspected, Finished, Item, Working
  <2>3. AcceptedOf(r)'
    BY <2>1, <2>2 DEF AcceptedOf, ValidVm
  <2> QED
    BY <2>1, <2>2, <2>3 DEF RepairOf, RememberedOf, FinishedOf, Fixed, Working
<1>6. CASE Set(r)
  <2>1. /\ rpc[r] = "set" /\ rpc'[r] = "readback" /\ UNCHANGED <<rpos, before>>
        /\ touched'[r] = touched[r] \ {Item(r)}
    BY <1>6 DEF Set, SetBoot, Step, RepairTypeOK
  <2>2. /\ vm' = [vm EXCEPT ![Item(r)] = [vm[Item(r)] EXCEPT !.boot = "both"]]
        /\ vm[Item(r)] \in Vm /\ TypeOK'
    BY <1>6, SetBootType DEF Set
  <2>3. Fixed(Item(r))' /\ \A v \in Vmids \ {Item(r)} : vm'[v] = vm[v]
    <3>1. vm'[Item(r)] = [vm[Item(r)] EXCEPT !.boot = "both"]
      BY <2>2, <1>0 DEF RepairTypeOK, TypeOK
    <3>2. vm'[Item(r)] \in Vm /\ vm'[Item(r)].boot = "both"
      BY <3>1, <2>2 DEF Vm, BootOrders
    <3>3. Item(r)' = Item(r)
      BY <2>1 DEF Item
    <3> QED
      BY <3>2, <3>3, <2>2, <1>0, NoneAssumption DEF Fixed, RepairTypeOK, TypeOK
  <2>4. /\ Inspected(r)' = Inspected(r) /\ Finished(r)' = Finished(r) /\ Item(r)' = Item(r)
        /\ Inspected(r) = All /\ Finished(r) = Passed
    BY <2>1 DEF Inspected, Finished, Item, Working
  <2>5. RememberedOf(r)'
    BY <2>1, <2>3, <2>4, <1>0 DEF RepairOf, RememberedOf, Fixed, Working
  <2>6. FinishedOf(r)'
    BY <2>1, <2>3, <2>4, <1>0 DEF RepairOf, FinishedOf, Fixed, Working
  <2> QED
    BY <2>1, <2>5, <2>6 DEF RepairOf, AcceptedOf
<1> QED
  BY <1>1, <1>2, <1>3, <1>4, <1>5, <1>6 DEF RepairStep

\* A step of one repair, as another one sees it.
LEMMA OtherRepairs ==
  ASSUME RepairTypeOK, NEW r \in Repairers, RepairStep(r), NEW s \in Repairers \ {r}
  PROVE  /\ rpc'[s] = rpc[s] /\ rpos'[s] = rpos[s] /\ before'[s] = before[s]
         /\ touched[s] \subseteq touched'[s]
         /\ \A v \in Vmids : vm'[v] = vm[v] \/ v \in touched'[s]
<1>1. CASE Set(r)
  <2>1. /\ vm' = [vm EXCEPT ![Item(r)] = [vm[Item(r)] EXCEPT !.boot = "both"]]
        /\ touched'[s] = touched[s] \cup {Item(r)}
        /\ UNCHANGED <<rpos, before>> /\ rpc'[s] = rpc[s]
    BY <1>1 DEF Set, SetBoot, Step, RepairTypeOK
  <2> QED
    BY <2>1 DEF RepairTypeOK, TypeOK
<1>2. CASE Preflight(r) \/ Skip(r) \/ Readback(r)
  <2>1. rpc'[s] = rpc[s] /\ rpos'[s] = rpos[s]
    BY <1>2, NextItemType DEF Preflight, Skip, Readback
  <2>2. vm' = vm /\ before'[s] = before[s] /\ touched'[s] = touched[s]
    BY <1>2 DEF Preflight, Skip, Readback, RepairTypeOK, vars, pveVars
  <2> QED
    BY <2>1, <2>2
<1>3. CASE StartRepair(r) \/ Refuse(r) \/ Reinspect(r) \/ RepairFails(r)
  BY <1>3 DEF StartRepair, Refuse, Reinspect, RepairFails, Step, Forget, RepairTypeOK,
     vars, pveVars
<1> QED
  BY <1>1, <1>2, <1>3 DEF RepairStep

-----------------------------------------------------------------------------
(* The invariant.                                                          *)

LEMMA RepairInitially == RepairInit => RepairInv
<1> SUFFICES ASSUME RepairInit PROVE RepairInv
  OBVIOUS
<1>1. IInv
  BY InitType, InitRun DEF RepairInit, IInv
<1>2. RepairTypeOK
  BY <1>1, RepairAssumption DEF RepairInit, RepairTypeOK, IInv
<1>3. \A r \in Repairers : RepairOf(r)
  BY DEF RepairInit, RepairOf, RememberedOf, FinishedOf, AcceptedOf, Working
<1> QED
  BY <1>1, <1>2, <1>3 DEF RepairInit, RepairInv, MendedIsValid

\* The engines and operators beside the repairs.
LEMMA ClusterKeeps == RepairInv /\ ClusterStep => RepairInv'
<1> SUFFICES ASSUME RepairInv, ClusterStep PROVE RepairInv'
  OBVIOUS
<1>1. IInv' /\ TypeOK'
  BY NextInvariant DEF RepairInv, ClusterStep, IInv
<1>2. RepairTypeOK'
  BY <1>1 DEF RepairInv, RepairTypeOK, ClusterStep
<1>3. ASSUME NEW r \in Repairers PROVE RepairOf(r)'
  <2>1. RepairTypeOK /\ RepairOf(r) /\ UNCHANGED <<rpc, rpos, before>>
    BY DEF RepairInv, ClusterStep
  <2>2. touched'[r] = touched[r] \cup {v \in Vmids : vm'[v] # vm[v]}
    BY DEF ClusterStep
  <2> QED
    BY <2>1, <2>2, OthersAreNoted
<1>4. MendedIsValid'
  BY DEF RepairInv, ClusterStep, MendedIsValid, ValidVm
<1> QED
  BY <1>1, <1>2, <1>3, <1>4 DEF RepairInv

LEMMA RepairKeeps ==
  ASSUME RepairInv, NEW r \in Repairers, RepairStep(r)
  PROVE  RepairInv'
<1>0. RepairTypeOK /\ IInv /\ RepairOf(r) /\ Item(r) \in Vmids
  BY ItemType DEF RepairInv
<1>1. RepairTypeOK'
  BY <1>0, RepairTypes
<1>2. ASSUME NEW s \in Repairers PROVE RepairOf(s)'
  <2>1. CASE s = r
    BY <2>1, <1>0, OwnRepair
  <2>2. CASE s # r
    BY <2>2, <1>0, OtherRepairs, OthersAreNoted DEF RepairInv
  <2> QED
    BY <2>1, <2>2
<1>3. CASE Set(r)
  <2>1. IInv'
    BY <1>0, <1>1, <1>3, SetBootIsForeign, ForeignStepInvariant DEF Set, RepairTypeOK
  <2>2. /\ vm' = [vm EXCEPT ![Item(r)] = [vm[Item(r)] EXCEPT !.boot = "both"]]
        /\ vm[Item(r)] \in Vm /\ vm[Item(r)] = before[r][Item(r)] /\ rpc[r] = "set"
        /\ mended' = mended \cup {Item(r)}
    BY <1>0, <1>3, SetBootType DEF Set, SetBoot, Step
  <2>3. ValidVm(vm[Item(r)], RepairNode[r])
    BY <2>2, <1>0 DEF RepairOf, AcceptedOf
  <2>4. vm'[Item(r)] \in Vm /\ ValidVm(vm'[Item(r)], vm'[Item(r)].node)
    <3>1. vm'[Item(r)] = [vm[Item(r)] EXCEPT !.boot = "both"]
      BY <2>2, <1>0 DEF RepairTypeOK, TypeOK
    <3>2. vm'[Item(r)] \in Vm
      BY <3>1, <2>2 DEF Vm, BootOrders
    <3> QED
      BY <3>1, <3>2, <2>2, <2>3, NoneAssumption DEF ValidVm, Vm
  <2>5. MendedIsValid'
    <3> SUFFICES ASSUME NEW v \in mended'
                 PROVE  vm'[v] # None /\ ValidVm(vm'[v], vm'[v].node)
      BY DEF MendedIsValid, ValidVm
    <3>1. CASE v = Item(r)
      BY <3>1, <2>4, NoneAssumption
    <3>2. CASE v # Item(r)
      <4>1. v \in mended /\ vm'[v] = vm[v]
        BY <3>2, <2>2, <1>0 DEF RepairTypeOK, TypeOK
      <4> QED
        BY <4>1 DEF RepairInv, MendedIsValid
    <3> QED
      BY <3>1, <3>2
  <2> QED
    BY <2>1, <2>5, <1>1, <1>2 DEF RepairInv
<1>4. CASE ~Set(r)
  <2>1. UNCHANGED <<vars, mended>>
    BY <1>4 DEF RepairStep, StartRepair, Preflight, Refuse, Skip, Reinspect, Readback, RepairFails
  <2>2. IInv'
    BY <2>1, <1>0, NextInvariant
  <2>3. MendedIsValid'
    BY <2>1 DEF RepairInv, MendedIsValid, ValidVm, vars, pveVars
  <2> QED
    BY <2>2, <2>3, <1>1, <1>2 DEF RepairInv
<1> QED
  BY <1>3, <1>4

LEMMA RepairInvariantStep == RepairInv /\ [RepairNext]_allVars => RepairInv'
<1> SUFFICES ASSUME RepairInv, [RepairNext]_allVars PROVE RepairInv'
  OBVIOUS
<1>1. CASE RepairNext
  BY <1>1, ClusterKeeps, RepairKeeps DEF RepairNext
<1>2. CASE UNCHANGED allVars
  <2>1. IInv'
    BY <1>2, NextInvariant DEF RepairInv, allVars
  <2>2. RepairTypeOK'
    BY <1>2, <2>1 DEF RepairInv, RepairTypeOK, IInv, allVars, repairVars
  <2>3. \A r \in Repairers : RepairOf(r)'
    BY <1>2, OthersAreNoted DEF RepairInv, allVars, repairVars, vars, pveVars
  <2>4. MendedIsValid'
    BY <1>2 DEF RepairInv, MendedIsValid, ValidVm, allVars, repairVars, vars, pveVars
  <2> QED
    BY <2>1, <2>2, <2>3, <2>4 DEF RepairInv
<1> QED
  BY <1>1, <1>2

\* What the engines keep, what each repair remembers and what is mended stay
\* in step, however engines, operators and repairs interleave.
THEOREM RepairInvariant == RepairSpec => []RepairInv
BY RepairInitially, RepairInvariantStep, PTL DEF RepairSpec

-----------------------------------------------------------------------------
(* What follows from it.                                                   *)

\* Every variable of the tool keeps its type, beside the engine's.
THEOREM RepairTypesCorrect == RepairSpec => []RepairTypeOK
<1>1. RepairInv => RepairTypeOK
  BY DEF RepairInv
<1> QED
  BY <1>1, RepairInvariant, PTL

\* The engines' promises hold beside any number of repairs, which take no
\* lock: an edit never costs a live engine what it has created, nor makes a
\* half-built VM look complete.
THEOREM EnginesBesideRepairs ==
  RepairSpec => [](ReadyBeforeReplace /\ CreatedStillThere /\ SuccessMeansBuilt
                     /\ NoLeftover /\ ProjectTagMeansComplete)
<1>1. IInv => /\ ReadyBeforeReplace /\ CreatedStillThere /\ SuccessMeansBuilt
              /\ NoLeftover /\ ProjectTagMeansComplete
  <2>1. IInv => ReadyBeforeReplace /\ CreatedStillThere
    BY DEF IInv, RunInv, PreparedOf, ReadyBeforeReplace, KeptOf, CreatedStillThere
  <2>2. IInv => SuccessMeansBuilt
    BY DEF IInv, RunInv, CreatedOf, KeptOf, DoneOf, WholeOf, SuccessMeansBuilt
  <2>3. IInv => NoLeftover /\ ProjectTagMeansComplete
    BY DEF IInv, RunInv, LeftoverOf, Leftover, NoLeftover
  <2> QED
    BY <2>1, <2>2, <2>3
<1>2. RepairInv => IInv
  BY DEF RepairInv
<1> QED
  BY <1>1, <1>2, RepairInvariant, PTL

\* A repair that ends well leaves every OVMF template with the new boot order,
\* except those others changed behind its back.
THEOREM RepairsAreComplete == RepairSpec => []RepairedWhenDone
<1>1. RepairInv => RepairedWhenDone
  <2> SUFFICES ASSUME RepairInv, NEW r \in Repairers, rpc[r] = "done", Apply[r],
                      NEW i \in 1..Len(Items)
               PROVE  Items[i] \in touched[r] \/ Fixed(Items[i])
    BY DEF RepairedWhenDone, Fixed
  <2>1. FinishedOf(r)
    BY DEF RepairInv, RepairOf
  <2>2. Items[i] \in Finished(r)
    BY DEF Finished, Working
  <2> QED
    BY <2>1, <2>2 DEF FinishedOf, Working
<1> QED
  BY <1>1, RepairInvariant, PTL

\* An edit is Set.
LEMMA EditIsSet ==
  ASSUME RepairTypeOK, [RepairNext]_allVars, NEW r \in Repairers,
         rpc[r] = "set", rpc'[r] = "readback"
  PROVE  Set(r)
<1>1. rpc' # rpc
  OBVIOUS
<1>2. PICK s \in Repairers : RepairStep(s)
  BY <1>1 DEF RepairNext, ClusterStep, allVars, repairVars
<1>3. s = r
  BY <1>2, OtherRepairs
<1> QED
  BY <1>2, <1>3 DEF RepairStep, StartRepair, Preflight, Refuse, Skip, Reinspect, Readback,
     RepairFails, NextItem, Step, RepairEnded, RepairTypeOK

\* The edit hits the very template that was inspected and accepted, after all
\* items were inspected, and changes nothing but the boot order.
THEOREM EditsAreInspected == RepairSpec => RepairOnlyInspected
<1> DEFINE EditOf(r, v) ==
      rpc[r] = "set" /\ rpc'[r] = "readback" /\ vm'[v] # vm[v] =>
        /\ Valid(v, RepairNode[r])
        /\ vm[v] = before[r][v]
        /\ vm'[v] = [vm[v] EXCEPT !.boot = "both"]
        /\ \A i \in 1..Len(Items) : before[r][Items[i]] # None
<1>1. ASSUME RepairInv, [RepairNext]_allVars, NEW r \in Repairers, NEW v \in Vmids,
             rpc[r] = "set", rpc'[r] = "readback", vm'[v] # vm[v]
      PROVE  /\ Valid(v, RepairNode[r])
             /\ vm[v] = before[r][v]
             /\ vm'[v] = [vm[v] EXCEPT !.boot = "both"]
             /\ \A i \in 1..Len(Items) : before[r][Items[i]] # None
  <2>1. RepairTypeOK /\ RepairOf(r) /\ Item(r) \in Vmids
    BY <1>1, ItemType DEF RepairInv
  <2>2. Set(r)
    BY <1>1, <2>1, EditIsSet
  <2>3. /\ vm' = [vm EXCEPT ![Item(r)] = [vm[Item(r)] EXCEPT !.boot = "both"]]
        /\ vm[Item(r)] = before[r][Item(r)]
    BY <2>1, <2>2, SetBootType DEF Set
  <2>4. v = Item(r) /\ vm'[v] = [vm[v] EXCEPT !.boot = "both"]
    BY <1>1, <2>1, <2>3 DEF RepairTypeOK, TypeOK
  <2>5. Valid(v, RepairNode[r])
    BY <1>1, <2>1, <2>3, <2>4, ValidMeansValidVm DEF RepairOf, AcceptedOf
  <2>6. ASSUME NEW i \in 1..Len(Items) PROVE before[r][Items[i]] # None
    <3>1. Items[i] \in Inspected(r)
      BY <1>1 DEF Inspected
    <3> QED
      BY <3>1, <1>1, <2>1 DEF RepairOf, RememberedOf, Working
  <2> QED
    BY <2>3, <2>4, <2>5, <2>6
<1>2. RepairInv /\ [RepairNext]_allVars
        => [\A r \in Repairers, v \in Vmids : EditOf(r, v)]_allVars
  BY <1>1
<1> QED
  BY <1>2, RepairInvariant, PTL DEF RepairSpec, RepairOnlyInspected

\* A run that stopped half-way can be repeated: what it mended is not refused.
THEOREM RepairsAreRepeatable == RepairSpec => RepairCanBeRepeated
<1>1. ASSUME RepairInv, [RepairNext]_allVars, NEW r \in Repairers,
             rpc[r] = "preflight", rpc'[r] = "refused"
      PROVE  Item(r) \notin mended
  <2>1. RepairTypeOK
    BY <1>1 DEF RepairInv
  <2>2. PICK s \in Repairers : RepairStep(s)
    BY <1>1 DEF RepairNext, ClusterStep, allVars, repairVars
  <2>3. s = r
    BY <1>1, <2>1, <2>2, OtherRepairs
  <2>4. CASE Refuse(r)
    <3>1. OnNode(Item(r), RepairNode[r]) /\ ~Valid(Item(r), RepairNode[r])
      BY <2>4 DEF Refuse
    <3> QED
      BY <3>1, <1>1, ValidMeansValidVm DEF RepairInv, MendedIsValid, OnNode
  <2>5. CASE ~Refuse(r)
    BY <2>1, <2>2, <2>3, <2>5, <1>1 DEF RepairStep, StartRepair, Preflight, Skip, Reinspect,
       Set, SetBoot, Readback, RepairFails, NextItem, Step, RepairEnded, RepairTypeOK
  <2> QED
    BY <2>4, <2>5
<1>2. RepairInv /\ [RepairNext]_allVars
        => [\A r \in Repairers :
              rpc[r] = "preflight" /\ rpc'[r] = "refused" => Item(r) \notin mended]_allVars
  BY <1>1
<1> QED
  BY <1>2, RepairInvariant, PTL DEF RepairSpec, RepairCanBeRepeated

\* Beside the repairs, too, the engines destroy only checked old templates and
\* their own leftovers; the tool itself destroys nothing.
THEOREM DestroySafetyBesideRepairs == RepairSpec => DestroyOnlyCheckedOrOwn
<1>1. ASSUME RepairInv, [RepairNext]_allVars, NEW v \in Vmids, Destroyed(v)
      PROVE  Justified(v)
  <2>1. RepairTypeOK /\ IInv
    BY <1>1 DEF RepairInv
  <2>2. CASE [Next]_vars
    BY <1>1, <2>1, <2>2, DestroyStep
  <2>3. CASE \E r \in Repairers : Set(r)
    <3>1. PICK r \in Repairers : Set(r)
      BY <2>3
    <3>2. /\ vm' = [vm EXCEPT ![Item(r)] = [vm[Item(r)] EXCEPT !.boot = "both"]]
          /\ vm[Item(r)] \in Vm
      BY <2>1, <3>1, SetBootType DEF Set
    <3>3. [vm[Item(r)] EXCEPT !.boot = "both"] \in Vm
      BY <3>2 DEF Vm, BootOrders
    <3>4. vm'[v] # None
      BY <3>2, <3>3, <1>1, <2>1, NoneAssumption DEF Destroyed, RepairTypeOK, TypeOK
    <3> QED
      BY <3>4, <1>1 DEF Destroyed
  <2>4. [Next]_vars \/ \E r \in Repairers : Set(r)
    BY <1>1 DEF RepairNext, ClusterStep, RepairStep, StartRepair, Preflight, Refuse, Skip,
       Reinspect, Readback, RepairFails, allVars
  <2> QED
    BY <2>2, <2>3, <2>4
<1>2. RepairInv /\ [RepairNext]_allVars
        => [\A v \in Vmids : Destroyed(v) => Justified(v)]_vars
  BY <1>1
<1> QED
  BY <1>2, RepairInvariant, PTL DEF RepairSpec, DestroyOnlyCheckedOrOwn, Destroyed, Justified

=============================================================================

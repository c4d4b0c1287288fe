----------------------- MODULE TemplateEngine_proofs ------------------------
(***************************************************************************)
(* Proofs about TemplateEngine, for any number of builders, nodes, VMIDs   *)
(* and Operator steps.                                                     *)
(***************************************************************************)
EXTENDS TemplateEngine, TLAPS

-----------------------------------------------------------------------------
(* The inductive invariant.                                                *)

Building  == {"configure", "convert", "finalise", "record"}
Replacing == {"recheck", "clones", "destroy", "create", "claim"} \cup Building
Closing   == {"verify", "backup", "manifest", "entries", "report"}

\* The rows a loop has already dealt with.
Before(b) == {Selection[b][i] : i \in 1..(pos[b] - 1)}

\* A live run holds the flock of its node.
LockOf(b) == pc[b] \in Live => lock[Home[b]] = b

\* prepare_images has gone through the rows before the replacing loop starts.
PreparedOf(b) ==
  /\ prepared[b] \subseteq Rows(b)
  /\ pc[b] = "prepare" => Before(b) \subseteq prepared[b]
  /\ pc[b] \in Replacing \cup Closing => prepared[b] = Rows(b)
  /\ replaced[b] \cup created[b] # {} => prepared[b] = Rows(b)

\* check_existing_vmids has come to its end, and no row is current.
StartOf(b) == pc[b] = "download" => pos[b] = 1

\* CREATED_VMIDS holds the rows the replacing loop has passed.
CreatedOf(b) ==
  /\ pc[b] \in {"idle", "inventory", "check", "download", "prepare"} =>
       created[b] = {} /\ replaced[b] = {}
  /\ pc[b] \in Replacing => created[b] = Before(b)
  /\ pc[b] \in Closing \/ ok[b] => created[b] = Rows(b)
  /\ current[b] \notin created[b]

\* CURRENT_VMID is the row being built.
CurrentOf(b) ==
  /\ current[b] \in {None, Row(b)}
  /\ pc[b] \in Building => current[b] = Row(b)
  /\ pc[b] \in {"idle"} \cup (Running \ Building) => current[b] = None

\* Between the second reading of the configuration and qm destroy.
WindowOf(b) ==
  pc[b] \in {"clones", "destroy"} /\ Row(b) \notin meddled[b] =>
    /\ Managed(Row(b), Home[b]) /\ vm[Row(b)] = checked[b][Row(b)]
    /\ pc[b] = "destroy" => Row(b) \notin inUse

\* The VM behind the current row, unless somebody meddled with it.
BuildingOf(b) ==
  pc[b] \in {"claim"} \cup Building /\ Row(b) \notin meddled[b] =>
    /\ OnNode(Row(b), Home[b])
    /\ vm[Row(b)].maker = b
    /\ pc[b] \in {"convert", "finalise", "record"} => vm[Row(b)].configured
    /\ pc[b] \in {"finalise", "record"} => vm[Row(b)].template
    /\ pc[b] = "record" => vm[Row(b)].tag = "project"

\* The VM behind the current row, whatever happened to it.
StageOf(b) ==
  pc[b] \in {"convert", "finalise", "record"} /\ OnNode(Row(b), Home[b])
    /\ vm[Row(b)].maker \in Builders =>
    /\ vm[Row(b)].configured
    /\ pc[b] \in {"finalise", "record"} => vm[Row(b)].template

KeptOf(b) ==
  pc[b] \in Live => \A v \in created[b] \ meddled[b] : CompleteBy(v, b)

LostOf(b) == pc[b] \in Live => replaced[b] \subseteq created[b] \cup {Row(b)}

\* The manifest in the cache directory of b is the one b has begun or written,
\* as far as runs on its own node are concerned.
BegunOf(b) == manifest[CacheDir[b]].writers = {b} \/ ForeignEntries(b)
WholeOf(b) == manifest[CacheDir[b]] = [writers |-> {b}, whole |-> TRUE] \/ ForeignEntries(b)

\* Towards the end: the manifest is begun, then whole, and success comes last.
DoneOf(b) ==
  /\ pc[b] = "entries" => BegunOf(b)
  /\ pc[b] = "report" => WholeOf(b)
  /\ ok[b] => pc[b] \in Exiting \cup Ended
  /\ ok[b] /\ pc[b] \in Live => WholeOf(b)

\* An incomplete VM that on_exit of b would recognise.
Leftover(v, b) ==
  /\ vm[v] # None
  /\ vm[v].maker = b /\ vm[v].name = "catalog" /\ vm[v].tag = "build"

LeftoverOf(b) ==
  \A v \in Vmids : Leftover(v, b) =>
    /\ vm[v].node = Home[b]
    /\ pc[b] # "idle"
    /\ pc[b] \in Running =>
         v = Row(b) /\ pc[b] \in {"claim", "configure", "convert", "finalise"}
    /\ pc[b] \in {"exit", "cleanup"} /\ b \notin excused => current[b] = v
    /\ pc[b] \in {"leave", "succeeded", "failed"} /\ Cleanup[b] => b \in excused

\* What on_exit is about to destroy.
CleanupOf(b) ==
  /\ pc[b] \in {"exit", "cleanup"} /\ current[b] \notin meddled[b] \cup {None} =>
       OnNode(current[b], Home[b]) /\ vm[current[b]].maker = b
  /\ pc[b] = "cleanup" => current[b] # None
  /\ pc[b] = "cleanup" /\ current[b] \notin meddled[b] =>
       vm[current[b]].tag = "build"

RunInv(b) ==
  /\ LockOf(b) /\ PreparedOf(b) /\ StartOf(b) /\ CreatedOf(b) /\ CurrentOf(b)
  /\ WindowOf(b) /\ BuildingOf(b) /\ StageOf(b) /\ KeptOf(b) /\ LostOf(b)
  /\ DoneOf(b) /\ LeftoverOf(b) /\ CleanupOf(b)

IInv ==
  /\ TypeOK
  /\ \A b \in Builders : RunInv(b)
  /\ ProjectTagMeansComplete

-----------------------------------------------------------------------------
(* Rows and loops.                                                         *)

\* The current row is one of the selected rows, and a VMID.
LEMMA RowType ==
  ASSUME TypeOK, NEW b \in Builders
  PROVE  /\ Row(b) \in Rows(b)
         /\ Row(b) \in Vmids
         /\ Rows(b) \subseteq Vmids
  BY SelectionAssumption DEF TypeOK, Row, Rows

\* No row is selected twice, so the current one has not been dealt with.
LEMMA RowIsNew ==
  ASSUME TypeOK, NEW b \in Builders
  PROVE  Row(b) \notin Before(b)
<1>1. /\ pos[b] \in 1..Len(Selection[b])
      /\ Len(Selection[b]) \in Nat
      /\ \A i, j \in 1..Len(Selection[b]) :
           Selection[b][i] = Selection[b][j] => i = j
  BY SelectionAssumption DEF TypeOK
<1>2. ASSUME NEW i \in 1..(pos[b] - 1)
      PROVE  Selection[b][i] # Selection[b][pos[b]]
  BY <1>1
<1>3. QED
  BY <1>2 DEF Row, Before

LEMMA FirstRow ==
  ASSUME NEW b \in Builders, pos[b] = 1
  PROVE  Before(b) = {}
  BY DEF Before

\* The last row completes the selection.
LEMMA LastRowCompletes ==
  ASSUME TypeOK, NEW b \in Builders, LastRow(b)
  PROVE  Before(b) \cup {Row(b)} = Rows(b)
  BY SelectionAssumption DEF TypeOK, Row, Rows, Before, LastRow

\* What NextRow does to the position and to the rows dealt with.
LEMMA NextRowStep ==
  ASSUME TypeOK, NEW b \in Builders, NEW from, NEW again, NEW after,
         NextRow(b, from, again, after)
  PROVE  /\ pos' \in [Builders -> Nat]
         /\ pos'[b] \in 1..Len(Selection[b])
         /\ \A c \in Builders \ {b} : pos'[c] = pos[c]
         /\ LastRow(b) => pos'[b] = 1 /\ pc'[b] = after /\ Before(b)' = {}
         /\ ~LastRow(b) => /\ pc'[b] = again
                           /\ Before(b)' = Before(b) \cup {Row(b)}
<1>1. /\ pos[b] \in Nat /\ Selection[b] \in Seq(Vmids)
      /\ Len(Selection[b]) \in Nat /\ pos[b] \in 1..Len(Selection[b])
      /\ pos \in [Builders -> Nat] /\ pc \in [Builders -> {"idle"} \cup Live \cup Ended]
  BY SelectionAssumption DEF TypeOK
<1>2. CASE LastRow(b)
  <2>1. pos' = [pos EXCEPT ![b] = 1] /\ pc' = [pc EXCEPT ![b] = after]
    BY <1>2 DEF NextRow, Goto
  <2>2. QED
    BY <2>1, <1>1, <1>2 DEF Before
<1>3. CASE ~LastRow(b)
  <2>1. pos' = [pos EXCEPT ![b] = pos[b] + 1] /\ pc' = [pc EXCEPT ![b] = again]
    BY <1>3 DEF NextRow, Goto
  <2>2. pos'[b] = pos[b] + 1 /\ pos[b] # Len(Selection[b])
    BY <2>1, <1>1, <1>3 DEF LastRow
  <2>3. 1..(pos[b] + 1 - 1) = 1..(pos[b] - 1) \cup {pos[b]}
    BY <1>1
  <2>4. Before(b)' = Before(b) \cup {Row(b)}
    BY <2>2, <2>3, SMTT(30) DEF Before, Row
  <2>5. QED
    BY <2>1, <2>2, <2>4, <1>1, <1>3
<1>4. QED
  BY <1>2, <1>3

-----------------------------------------------------------------------------
(* Type correctness.                                                       *)

\* Initially every VMID is free or holds a template of an earlier run.
LEMMA InitType == Init => TypeOK
<1> SUFFICES ASSUME Init PROVE TypeOK
  OBVIOUS
<1>1. \A n \in Nodes : OldTemplate(n) \in Vm
  BY DEF OldTemplate, Vm, BootOrders
<1>2. vm \in [Vmids -> Vm \cup {None}]
  BY <1>1 DEF Init
<1>3. \A b \in Builders : pos[b] \in 1..Len(Selection[b])
  <2> SUFFICES ASSUME NEW b \in Builders PROVE pos[b] \in 1..Len(Selection[b])
    OBVIOUS
  <2>1. Selection[b] \in Seq(Vmids) /\ Len(Selection[b]) > 0
    BY SelectionAssumption
  <2>2. Len(Selection[b]) \in Nat
    BY <2>1
  <2>3. pos[b] = 1
    BY DEF Init
  <2>4. QED
    BY <2>1, <2>2, <2>3
<1>4. QED
  BY <1>2, <1>3 DEF Init, TypeOK, Manifest, Live, Running, Exiting, Ended

\* The configuration qm create writes.
LEMMA NewVmType ==
  ASSUME TypeOK, NEW v \in Vmids, NEW n \in Nodes,
         NEW maker \in Builders \cup {Operator}
  PROVE  /\ NewVm(v, n, maker) \in Vm
         /\ NewVm(v, n, maker) # None
         /\ NewVm(v, n, maker).node = n
         /\ NewVm(v, n, maker).maker = maker
         /\ NewVm(v, n, maker).tag = "build"
         /\ NewVm(v, n, maker).name = "catalog"
<1>1. births[v] + 1 \in Nat
  BY DEF TypeOK
<1>2. NewVm(v, n, maker) \in Vm
  BY <1>1 DEF NewVm, Vm, BootOrders
<1>3. QED
  BY <1>2, NoneAssumption DEF NewVm

\* Every step of a run keeps the types.
LEMMA LaunchType ==
  ASSUME TypeOK, NEW b \in Builders, Launch(b)
  PROVE  TypeOK'
<1> USE DEF Goto, TypeOK, Live, Running, Exiting, Ended, pveVars, runVars, historyVars
<1>1. Home[b] \in Nodes
  BY HomeAssumption
<1>2. CASE AcquireLock(b)
  BY <1>1, <1>2 DEF AcquireLock
<1>3. CASE LockBusy(b) \/ PreflightFails(b)
  BY <1>3 DEF LockBusy, PreflightFails
<1>4. QED
  BY <1>2, <1>3 DEF Launch

\* The manifest of a cache directory is changed by runs that enter themselves.
LEMMA ManifestStep ==
  ASSUME TypeOK, NEW c \in Builders, OpenManifest(c) \/ WriteEntry(c)
  PROVE  /\ manifest' \in [Dirs -> Manifest]
         /\ c \in manifest'[CacheDir[c]].writers
         /\ \A d \in Dirs \ {CacheDir[c]} : manifest'[d] = manifest[d]
         /\ OpenManifest(c) => manifest'[CacheDir[c]].writers = {c}
         /\ WriteEntry(c) =>
              LET writers == manifest[CacheDir[c]].writers \cup {c} IN
              manifest'[CacheDir[c]] =
                [writers |-> writers, whole |-> LastRow(c) /\ writers = {c}]
<1>1. CacheDir[c] \in Dirs /\ manifest \in [Dirs -> Manifest]
  BY DEF Dirs, TypeOK
<1>2. manifest[CacheDir[c]].writers \in SUBSET Builders
  BY <1>1 DEF Manifest
<1>3. PICK w \in BOOLEAN : w = (LastRow(c) /\ manifest[CacheDir[c]].writers \cup {c} = {c})
  OBVIOUS
<1>4. CASE OpenManifest(c)
  <2>1. manifest' = [manifest EXCEPT ![CacheDir[c]] = [writers |-> {c}, whole |-> FALSE]]
        /\ ~WriteEntry(c)
    BY <1>4 DEF OpenManifest, WriteEntry, NextRow, Goto
  <2> QED
    BY <2>1, <1>1 DEF Manifest
<1>5. CASE WriteEntry(c)
  <2>1. manifest' = [manifest EXCEPT ![CacheDir[c]] =
                       [writers |-> manifest[CacheDir[c]].writers \cup {c}, whole |-> w]]
        /\ ~OpenManifest(c)
    BY <1>3, <1>5 DEF OpenManifest, WriteEntry, NextRow, Goto
  <2> QED
    BY <2>1, <1>1, <1>2, <1>3 DEF Manifest
<1> QED
  BY <1>4, <1>5

LEMMA ProgressType ==
  ASSUME TypeOK, NEW b \in Builders, Progress(b)
  PROVE  TypeOK'
<1> USE DEF Goto, pveVars, runVars, historyVars, Live, Running, Exiting, Ended
<1>0. /\ Row(b) \in Vmids
      /\ Home[b] \in Nodes
  BY RowType, HomeAssumption
<1>1. CASE ReadInventory(b)
  BY <1>1 DEF ReadInventory, Located, TypeOK
<1>2. CASE CheckRow(b)
  <2>1. /\ pos' \in [Builders -> Nat]
        /\ \A c \in Builders : pos'[c] \in 1..Len(Selection[c])
    BY <1>2, NextRowStep DEF CheckRow, TypeOK
  <2>2. pc' \in [Builders -> {"idle"} \cup Live \cup Ended]
    BY <1>2 DEF CheckRow, NextRow, TypeOK
  <2>3. checked' \in [Builders -> [Vmids -> Vm \cup {None}]]
    <3>1. vm[Row(b)] \in Vm \cup {None} /\ checked \in [Builders -> [Vmids -> Vm \cup {None}]]
      BY <1>0 DEF TypeOK
    <3>2. checked' = checked \/ checked' = [checked EXCEPT ![b][Row(b)] = vm[Row(b)]]
      BY <1>2 DEF CheckRow
    <3>3. QED
      BY <1>0, <3>1, <3>2
  <2>4. QED
    BY <1>2, <2>1, <2>2, <2>3 DEF CheckRow, TypeOK
<1>3. CASE Download(b)
  BY <1>3 DEF Download, TypeOK
<1>4. CASE PrepareRow(b)
  <2>1. /\ pos' \in [Builders -> Nat]
        /\ \A c \in Builders : pos'[c] \in 1..Len(Selection[c])
    BY <1>4, NextRowStep DEF PrepareRow, TypeOK
  <2>2. pc' \in [Builders -> {"idle"} \cup Live \cup Ended]
    BY <1>4 DEF PrepareRow, NextRow, TypeOK
  <2>3. QED
    BY <1>0, <1>4, <2>1, <2>2 DEF PrepareRow, TypeOK
<1>5. CASE Recheck(b) \/ RecheckClones(b)
  <2>1. /\ \/ pc' = [pc EXCEPT ![b] = "clones"]
           \/ pc' = [pc EXCEPT ![b] = "create"]
           \/ pc' = [pc EXCEPT ![b] = "destroy"]
        /\ meddled' = meddled \/ meddled' = [meddled EXCEPT ![b] = @ \ {Row(b)}]
    BY <1>5 DEF Recheck, RecheckClones
  <2>2. UNCHANGED <<pveVars, ops, lock, runVars, manifest, replaced, excused>>
    BY <1>5 DEF Recheck, RecheckClones
  <2>3. pc' \in [Builders -> {"idle"} \cup Live \cup Ended]
    BY <2>1 DEF TypeOK
  <2>4. meddled' \in [Builders -> SUBSET Vmids]
    <3>1. meddled \in [Builders -> SUBSET Vmids] /\ meddled[b] \ {Row(b)} \in SUBSET Vmids
      BY DEF TypeOK
    <3>2. QED
      BY <2>1, <3>1
  <2>5. QED
    BY <2>2, <2>3, <2>4 DEF TypeOK
<1>6. CASE DestroyOld(b)
  BY <1>0, <1>6 DEF DestroyOld, TypeOK
<1>7. CASE CreateVm(b)
  <2>1. NewVm(Row(b), Home[b], b) \in Vm
    BY <1>0, NewVmType
  <2>2. QED
    BY <1>0, <1>7, <2>1 DEF CreateVm, TypeOK
<1>8. CASE Claim(b)
  BY <1>0, <1>8 DEF Claim, TypeOK
<1>9. CASE Configure(b) \/ Convert(b) \/ Finalise(b)
  <2>1. vm[Row(b)] \in Vm
    BY <1>0, <1>9 DEF Configure, Convert, Finalise, QmEdit, OnNode, TypeOK
  <2>2. /\ [vm[Row(b)] EXCEPT !.configured = TRUE,
                               !.boot = BootOrder(Row(b))] \in Vm
        /\ [vm[Row(b)] EXCEPT !.template = TRUE] \in Vm
        /\ [vm[Row(b)] EXCEPT !.tag = "project"] \in Vm
    BY <2>1 DEF Vm, BootOrder, BootOrders
  <2>3. vm' \in [Vmids -> Vm \cup {None}]
    <3>1. PICK config \in Vm : vm' = [vm EXCEPT ![Row(b)] = config]
      BY <1>9, <2>2 DEF Configure, Convert, Finalise, QmEdit
    <3>2. vm \in [Vmids -> Vm \cup {None}]
      BY DEF TypeOK
    <3>3. QED
      BY <3>1, <3>2
  <2>4. /\ \/ pc' = [pc EXCEPT ![b] = "convert"]
           \/ pc' = [pc EXCEPT ![b] = "finalise"]
           \/ pc' = [pc EXCEPT ![b] = "record"]
        /\ UNCHANGED <<inUse, births, ops, lock, runVars, manifest, historyVars>>
    BY <1>9 DEF Configure, Convert, Finalise, QmEdit
  <2>5. QED
    BY <2>3, <2>4 DEF TypeOK
<1>10. CASE Record(b)
  <2>1. /\ pos' \in [Builders -> Nat]
        /\ \A c \in Builders : pos'[c] \in 1..Len(Selection[c])
    BY <1>10, NextRowStep DEF Record, TypeOK
  <2>2. pc' \in [Builders -> {"idle"} \cup Live \cup Ended]
    BY <1>10 DEF Record, NextRow, TypeOK
  <2>3. QED
    BY <1>0, <1>10, <2>1, <2>2 DEF Record, TypeOK
<1>11. CASE VerifyRow(b)
  <2>1. /\ pos' \in [Builders -> Nat]
        /\ \A c \in Builders : pos'[c] \in 1..Len(Selection[c])
    BY <1>11, NextRowStep DEF VerifyRow, TypeOK
  <2>2. pc' \in [Builders -> {"idle"} \cup Live \cup Ended]
    BY <1>11 DEF VerifyRow, NextRow, TypeOK
  <2>3. QED
    BY <1>11, <2>1, <2>2 DEF VerifyRow, TypeOK
<1>12. CASE Backup(b)
  BY <1>12 DEF Backup, TypeOK
<1>13. CASE OpenManifest(b) \/ WriteEntry(b)
  <2>1. manifest' \in [Dirs -> Manifest]
    BY <1>13, ManifestStep
  <2>2. /\ pos' \in [Builders -> Nat]
        /\ \A c \in Builders : pos'[c] \in 1..Len(Selection[c])
    BY <1>13, NextRowStep DEF OpenManifest, WriteEntry, TypeOK
  <2>3. pc' \in [Builders -> {"idle"} \cup Live \cup Ended]
    BY <1>13 DEF OpenManifest, WriteEntry, NextRow, TypeOK
  <2>4. QED
    BY <1>13, <2>1, <2>2, <2>3 DEF OpenManifest, WriteEntry, TypeOK
<1>14. CASE Report(b)
  BY <1>14 DEF Report, TypeOK
<1>15. QED
  BY <1>1, <1>2, <1>3, <1>4, <1>5, <1>6, <1>7, <1>8, <1>9, <1>10, <1>11, <1>12,
     <1>13, <1>14 DEF Progress

LEMMA FailureType ==
  ASSUME TypeOK, NEW b \in Builders,
         Fail(b) \/ Signal(b) \/ Crash(b) \/ OnExit(b)
  PROVE  TypeOK'
<1> USE DEF Goto, pveVars, runVars, historyVars, Live, Running, Exiting, Ended, TypeOK
<1>1. CASE Fail(b) \/ Signal(b) \/ Crash(b)
  BY <1>1, HomeAssumption DEF Fail, Signal, Crash
<1>2. CASE InspectOnExit(b) \/ CleanupVm(b) \/ CleanupFails(b) \/ Leave(b)
  BY <1>2, HomeAssumption DEF InspectOnExit, CleanupVm, CleanupFails, Leave
<1>3. QED
  BY <1>1, <1>2 DEF OnExit

LEMMA OpStepType ==
  ASSUME TypeOK, OpStep
  PROVE  TypeOK'
<1> USE DEF Meddle, runVars, TypeOK
<1>1. CASE \E v \in Vmids, n \in Nodes : OpCreate(v, n)
  <2>1. PICK v \in Vmids, n \in Nodes : OpCreate(v, n)
    BY <1>1
  <2>2. PICK template \in BOOLEAN, tag \in {"project", "none"} :
          vm' = [vm EXCEPT ![v] =
                   [NewVm(v, n, Operator) EXCEPT !.tag = tag, !.template = template,
                                                 !.configured = TRUE,
                                                 !.boot = "disk"]]
    BY <2>1 DEF OpCreate
  <2>3. [NewVm(v, n, Operator) EXCEPT !.tag = tag, !.template = template,
                                      !.configured = TRUE,
                                      !.boot = "disk"] \in Vm
    <3>1. births[v] + 1 \in Nat
      OBVIOUS
    <3>2. QED
      BY <3>1 DEF NewVm, Vm, BootOrders
  <2>4. vm' \in [Vmids -> Vm \cup {None}]
    BY <2>2, <2>3
  <2>5. QED
    BY <2>1, <2>4 DEF OpCreate
<1>2. CASE \E v \in Vmids : OpEdit(v)
  <2>1. PICK v \in Vmids : OpEdit(v)
    BY <1>2
  <2>2. vm[v] \in Vm
    BY <2>1 DEF OpEdit
  <2>3. vm' \in [Vmids -> Vm \cup {None}]
    <3>1. /\ [vm[v] EXCEPT !.name = "foreign"] \in Vm
          /\ [vm[v] EXCEPT !.tag = "none"] \in Vm
          /\ [vm[v] EXCEPT !.lock = ~@] \in Vm
          /\ \A o \in BootOrders : [vm[v] EXCEPT !.boot = o] \in Vm
      BY <2>2 DEF Vm, BootOrders
    <3>2. \/ vm' = [vm EXCEPT ![v] = [vm[v] EXCEPT !.name = "foreign"]]
          \/ vm' = [vm EXCEPT ![v] = [vm[v] EXCEPT !.tag = "none"]]
          \/ vm' = [vm EXCEPT ![v] = [vm[v] EXCEPT !.lock = ~@]]
          \/ \E o \in BootOrders :
               vm' = [vm EXCEPT ![v] = [vm[v] EXCEPT !.boot = o]]
      BY <2>1 DEF OpEdit
    <3>3. QED
      BY <3>1, <3>2
  <2>4. QED
    BY <2>1, <2>3 DEF OpEdit
<1>3. CASE \E v \in Vmids : OpDestroy(v)
  BY <1>3 DEF OpDestroy
<1>4. CASE \E v \in Vmids : OpClone(v)
  <2>1. PICK v \in Vmids : OpClone(v)
    BY <1>4
  <2>2. inUse' \subseteq Vmids
    BY <2>1 DEF OpClone
  <2>3. QED
    BY <2>1, <2>2 DEF OpClone
<1>5. QED
  BY <1>1, <1>2, <1>3, <1>4 DEF OpStep

LEMMA NextType == TypeOK /\ [Next]_vars => TypeOK'
<1> SUFFICES ASSUME TypeOK, [Next]_vars PROVE TypeOK'
  OBVIOUS
<1>1. CASE \E b \in Builders : Launch(b)
  BY <1>1, LaunchType
<1>2. CASE \E b \in Builders : Progress(b)
  BY <1>2, ProgressType
<1>3. CASE \E b \in Builders : Fail(b) \/ Signal(b) \/ Crash(b) \/ OnExit(b)
  BY <1>3, FailureType
<1>4. CASE OpStep
  BY <1>4, OpStepType
<1>5. CASE UNCHANGED vars
  BY <1>5 DEF vars, pveVars, runVars, historyVars, TypeOK
<1>6. QED
  BY <1>1, <1>2, <1>3, <1>4, <1>5 DEF Next

\* Every variable keeps the type its declaration gives it.
THEOREM TypeCorrect == Spec => []TypeOK
<1>1. QED
  BY InitType, NextType, PTL DEF Spec

-----------------------------------------------------------------------------
(* What a step of one run leaves alone.                                    *)

StepOf(c) ==
  Launch(c) \/ Progress(c) \/ Fail(c) \/ Signal(c) \/ Crash(c) \/ OnExit(c)

\* What only builder b itself writes.
SameRun(b) ==
  /\ pc'[b] = pc[b] /\ pos'[b] = pos[b] /\ checked'[b] = checked[b]
  /\ prepared'[b] = prepared[b] /\ current'[b] = current[b]
  /\ created'[b] = created[b] /\ ok'[b] = ok[b] /\ replaced'[b] = replaced[b]
  /\ meddled'[b] = meddled[b] /\ (b \in excused' <=> b \in excused)

\* A run writes no other run's variables.
LEMMA OtherRunsSame ==
  ASSUME TypeOK, NEW b \in Builders, NEW c \in Builders, b # c, StepOf(c)
  PROVE  SameRun(b)
<1> USE DEF SameRun, TypeOK, Goto, pveVars, runVars, historyVars
<1>1. CASE Launch(c)
  BY <1>1 DEF Launch, AcquireLock, LockBusy, PreflightFails
<1>2. CASE ReadInventory(c) \/ Download(c) \/ Recheck(c) \/ RecheckClones(c) \/ DestroyOld(c)
           \/ CreateVm(c) \/ Claim(c)
  BY <1>2 DEF ReadInventory, Download, Recheck, RecheckClones, DestroyOld, CreateVm, Claim
<1>3. CASE CheckRow(c) \/ PrepareRow(c) \/ Record(c) \/ VerifyRow(c) \/ WriteEntry(c)
  BY <1>3 DEF CheckRow, PrepareRow, Record, VerifyRow, WriteEntry, NextRow
<1>4. CASE Configure(c) \/ Convert(c) \/ Finalise(c)
  BY <1>4 DEF Configure, Convert, Finalise, QmEdit
<1>5. CASE Backup(c) \/ OpenManifest(c) \/ Report(c)
  BY <1>5 DEF Backup, OpenManifest, Report
<1>6. CASE Fail(c) \/ Signal(c) \/ Crash(c)
  BY <1>6 DEF Fail, Signal, Crash
<1>7. CASE OnExit(c)
  BY <1>7 DEF OnExit, InspectOnExit, CleanupVm, CleanupFails, Leave
<1>8. QED
  BY <1>1, <1>2, <1>3, <1>4, <1>5, <1>6, <1>7 DEF StepOf, Progress

\* The three kinds of qm edits, field by field.
LEMMA QmEdits ==
  ASSUME TypeOK, NEW c \in Builders, Configure(c) \/ Convert(c) \/ Finalise(c)
  PROVE  LET r == vm[Row(c)]
             s == vm'[Row(c)] IN
         /\ \A v \in Vmids \ {Row(c)} : vm'[v] = vm[v]
         /\ r # None /\ s # None /\ r.node = Home[c] /\ s.node = Home[c]
         /\ s.maker = r.maker /\ s.name = r.name
         /\ s.configured = (r.configured \/ Configure(c))
         /\ s.template = (r.template \/ Convert(c))
         /\ s.tag = IF Finalise(c) THEN "project" ELSE r.tag
<1>1. Row(c) \in Vmids
  BY RowType
<1>2. vm[Row(c)] \in Vm /\ vm[Row(c)] # None /\ vm[Row(c)].node = Home[c]
  BY <1>1 DEF Configure, Convert, Finalise, QmEdit, OnNode, TypeOK
<1>3. /\ [vm[Row(c)] EXCEPT !.configured = TRUE,
                            !.boot = BootOrder(Row(c))] \in Vm
      /\ [vm[Row(c)] EXCEPT !.template = TRUE] \in Vm
      /\ [vm[Row(c)] EXCEPT !.tag = "project"] \in Vm
  BY <1>2 DEF Vm, BootOrder, BootOrders
<1>4. CASE Configure(c)
  <2>1. vm' = [vm EXCEPT ![Row(c)] =
                 [vm[Row(c)] EXCEPT !.configured = TRUE,
                                    !.boot = BootOrder(Row(c))]]
        /\ ~Convert(c) /\ ~Finalise(c)
    BY <1>4 DEF Configure, Convert, Finalise, QmEdit, Goto, TypeOK
  <2>2. QED
    BY <2>1, <1>1, <1>2, <1>3, <1>4, NoneAssumption DEF Vm, TypeOK
<1>5. CASE Convert(c)
  <2>1. vm' = [vm EXCEPT ![Row(c)] = [vm[Row(c)] EXCEPT !.template = TRUE]]
        /\ ~Configure(c) /\ ~Finalise(c)
    BY <1>5 DEF Configure, Convert, Finalise, QmEdit, Goto, TypeOK
  <2>2. QED
    BY <2>1, <1>1, <1>2, <1>3, <1>5, NoneAssumption DEF Vm, TypeOK
<1>6. CASE Finalise(c)
  <2>1. vm' = [vm EXCEPT ![Row(c)] = [vm[Row(c)] EXCEPT !.tag = "project"]]
        /\ ~Configure(c) /\ ~Convert(c)
    BY <1>6 DEF Configure, Convert, Finalise, QmEdit, Goto, TypeOK
  <2>2. QED
    BY <2>1, <1>1, <1>2, <1>3, <1>6, NoneAssumption DEF Vm, TypeOK
<1>7. QED
  BY <1>4, <1>5, <1>6

\* A run changes VMs and a flock on its own node only, and the manifest of its
\* cache directory only by entering itself there.
LEMMA OwnNodeOnly ==
  ASSUME TypeOK, NEW c \in Builders, StepOf(c)
  PROVE  /\ inUse' \subseteq inUse
         /\ \A v \in Vmids :
              \/ vm'[v] = vm[v]
              \/ /\ pc[c] \in Live
                 /\ vm[v] # None => vm[v].node = Home[c]
                 /\ vm'[v] # None => vm'[v].node = Home[c]
         /\ \A n \in Nodes \ {Home[c]} : lock'[n] = lock[n]
         /\ \A d \in Dirs :
              \/ manifest'[d] = manifest[d]
              \/ pc[c] \in Live /\ c \in manifest'[d].writers
<1>1. Row(c) \in Vmids /\ Home[c] \in Nodes
  BY RowType, HomeAssumption
<1>2. CASE CreateVm(c)
  <2>1. /\ vm' = [vm EXCEPT ![Row(c)] = NewVm(Row(c), Home[c], c)]
        /\ vm[Row(c)] = None /\ pc[c] \in Live
        /\ inUse' = inUse /\ lock' = lock /\ manifest' = manifest
    BY <1>2 DEF CreateVm, Goto, Live, Running, runVars
  <2>2. NewVm(Row(c), Home[c], c).node = Home[c]
    BY <1>1, NewVmType
  <2>3. QED
    BY <2>1, <2>2, <1>1 DEF TypeOK
<1>3. CASE Configure(c) \/ Convert(c) \/ Finalise(c)
  <2>1. pc[c] \in Live /\ inUse' = inUse /\ lock' = lock /\ manifest' = manifest
    BY <1>3 DEF Configure, Convert, Finalise, QmEdit, Goto, Live, Running
  <2>2. QED
    BY <2>1, <1>3, QmEdits
<1>4. CASE DestroyOld(c)
  BY <1>4, <1>1 DEF DestroyOld, OnNode, Goto, Live, Running, TypeOK, runVars
<1>5. CASE CleanupVm(c)
  BY <1>5, <1>1 DEF CleanupVm, OnNode, Goto, Live, Exiting, TypeOK, runVars
<1>6. CASE Launch(c) \/ Crash(c) \/ Leave(c)
  BY <1>6, <1>1 DEF Launch, AcquireLock, LockBusy, PreflightFails, Crash, Leave, pveVars, TypeOK
<1>6a. CASE OpenManifest(c) \/ WriteEntry(c)
  <2>1. /\ vm' = vm /\ inUse' = inUse /\ lock' = lock /\ pc[c] \in Live
    BY <1>6a DEF OpenManifest, WriteEntry, NextRow, Goto, Live, Running, pveVars
  <2> QED
    BY <2>1, <1>6a, ManifestStep
<1>7. CASE ReadInventory(c) \/ CheckRow(c) \/ Download(c) \/ PrepareRow(c)
           \/ Recheck(c) \/ RecheckClones(c) \/ Claim(c) \/ Record(c) \/ VerifyRow(c) \/ Backup(c)
           \/ Report(c) \/ Fail(c) \/ Signal(c) \/ InspectOnExit(c) \/ CleanupFails(c)
  BY <1>7 DEF ReadInventory, CheckRow, Download, PrepareRow, Recheck, RecheckClones, Claim, Record,
     VerifyRow, Backup, Report, Fail, Signal, InspectOnExit, CleanupFails, pveVars
<1>8. QED
  BY <1>2, <1>3, <1>4, <1>5, <1>6, <1>6a, <1>7 DEF StepOf, Progress, OnExit

\* A run turns no VM into an incomplete one of another run.
LEMMA NoForeignLeftover ==
  ASSUME TypeOK, NEW b \in Builders, NEW c \in Builders, b # c, StepOf(c),
         NEW v \in Vmids, Leftover(v, b)'
  PROVE  Leftover(v, b) /\ vm'[v].node = vm[v].node
<1>1. Row(c) \in Vmids /\ Home[c] \in Nodes
  BY RowType, HomeAssumption
<1>2. CASE CreateVm(c)
  <2>1. vm' = [vm EXCEPT ![Row(c)] = NewVm(Row(c), Home[c], c)]
    BY <1>2 DEF CreateVm
  <2>2. NewVm(Row(c), Home[c], c).maker = c
    BY <1>1, NewVmType
  <2>3. QED
    BY <2>1, <2>2, <1>1 DEF TypeOK, Leftover
<1>3. CASE Configure(c) \/ Convert(c) \/ Finalise(c)
  BY <1>3, QmEdits DEF Leftover
<1>4. CASE DestroyOld(c)
  BY <1>4, <1>1 DEF DestroyOld, TypeOK, Leftover
<1>5. CASE CleanupVm(c)
  BY <1>5, <1>1 DEF CleanupVm, TypeOK, Leftover
<1>6. CASE vm' = vm
  BY <1>6 DEF Leftover
<1>7. CASE Launch(c) \/ Crash(c) \/ Leave(c) \/ OpenManifest(c) \/ WriteEntry(c)
  BY <1>7, <1>6 DEF Launch, AcquireLock, LockBusy, PreflightFails, Crash, Leave, OpenManifest, WriteEntry,
     pveVars
<1>8. CASE ReadInventory(c) \/ CheckRow(c) \/ Download(c) \/ PrepareRow(c)
           \/ Recheck(c) \/ RecheckClones(c) \/ Claim(c) \/ Record(c) \/ VerifyRow(c) \/ Backup(c)
           \/ Report(c) \/ Fail(c) \/ Signal(c) \/ InspectOnExit(c) \/ CleanupFails(c)
  BY <1>6, <1>8 DEF ReadInventory, CheckRow, Download, PrepareRow, Recheck, RecheckClones, Claim,
     Record, VerifyRow, Backup, Report, Fail, Signal, InspectOnExit, CleanupFails,
     pveVars
<1>9. QED
  BY <1>2, <1>3, <1>4, <1>5, <1>7, <1>8 DEF StepOf, Progress, OnExit

-----------------------------------------------------------------------------
(* The invariant of a run while somebody else takes a step.                *)

\* Two live runs are on different nodes; so is a run that gets its flock.
LEMMA DifferentNodes ==
  ASSUME TypeOK, NEW b \in Builders, NEW c \in Builders, b # c,
         LockOf(b), LockOf(c), pc[b] \in Live, pc[c] \in Live \/ AcquireLock(c)
  PROVE  Home[b] # Home[c]
  BY OtherAssumption DEF LockOf, AcquireLock

\* A live run keeps its flock and, on its node, everything as it is, while
\* another run takes a step.
LEMMA OtherStepFrame ==
  ASSUME TypeOK, NEW b \in Builders, NEW c \in Builders, b # c, StepOf(c),
         LockOf(b), LockOf(c), pc[b] \in Live
  PROVE  /\ lock'[Home[b]] = b
         /\ \/ manifest'[CacheDir[b]] = manifest[CacheDir[b]]
            \/ ForeignEntries(b)'
         /\ \A v \in Vmids : OnNode(v, Home[b]) \/ OnNode(v, Home[b])' => vm'[v] = vm[v]
<1>1. lock[Home[b]] = b /\ Home[b] \in Nodes /\ CacheDir[b] \in Dirs
  BY HomeAssumption DEF LockOf, Dirs
<1>2. CASE pc[c] \in Live \/ AcquireLock(c)
  BY <1>1, <1>2, DifferentNodes, OwnNodeOnly DEF OnNode, ForeignEntries
<1>3. CASE pc[c] \notin Live /\ ~AcquireLock(c)
  <2>1. LockBusy(c) \/ PreflightFails(c)
    BY <1>3 DEF StepOf, Launch, Progress, OnExit, Fail, Signal, Crash, Live, Goto,
       Running, Exiting, ReadInventory, CheckRow, Download, PrepareRow, Recheck, RecheckClones,
       DestroyOld, CreateVm, Claim, Configure, Convert, Finalise, Record, VerifyRow,
       Backup, OpenManifest, WriteEntry, Report, InspectOnExit, CleanupVm, CleanupFails, Leave,
       NextRow
  <2>2. QED
    BY <2>1, <1>1 DEF LockBusy, PreflightFails, pveVars
<1>4. QED
  BY <1>2, <1>3

LEMMA OtherStep ==
  ASSUME TypeOK, NEW b \in Builders, NEW c \in Builders, b # c, StepOf(c),
         RunInv(b), RunInv(c)
  PROVE  RunInv(b)'
<1>1. SameRun(b)
  BY OtherRunsSame
<1>2. /\ Row(b)' = Row(b) /\ Before(b)' = Before(b) /\ Rows(b)' = Rows(b)
      /\ Row(b) \in Vmids /\ Home[b] \in Nodes
  BY <1>1, RowType, HomeAssumption DEF SameRun, Row, Before, Rows
<1>3. PreparedOf(b)' /\ StartOf(b)' /\ CreatedOf(b)' /\ CurrentOf(b)'
  BY <1>1, <1>2 DEF RunInv, SameRun, PreparedOf, StartOf, CreatedOf, CurrentOf
<1>4. LeftoverOf(b)'
  <2> SUFFICES ASSUME NEW v \in Vmids, Leftover(v, b)'
               PROVE  /\ vm'[v].node = Home[b]
                      /\ pc'[b] # "idle"
                      /\ pc'[b] \in Running =>
                           /\ v = Row(b)'
                           /\ pc'[b] \in {"claim", "configure", "convert", "finalise"}
                      /\ pc'[b] \in {"exit", "cleanup"} /\ b \notin excused' =>
                           current'[b] = v
                      /\ pc'[b] \in {"leave", "succeeded", "failed"} /\ Cleanup[b] =>
                           b \in excused'
    BY DEF LeftoverOf
  <2>1. Leftover(v, b) /\ vm'[v].node = vm[v].node
    BY NoForeignLeftover
  <2>2. QED
    BY <2>1, <1>1, <1>2 DEF RunInv, LeftoverOf, SameRun
<1>5. CASE pc[b] \in Live
  <2>1. /\ lock'[Home[b]] = b
        /\ manifest'[CacheDir[b]] = manifest[CacheDir[b]] \/ ForeignEntries(b)'
        /\ \A v \in Vmids : OnNode(v, Home[b]) \/ OnNode(v, Home[b])' => vm'[v] = vm[v]
        /\ inUse' \subseteq inUse
    BY <1>5, OtherStepFrame, OwnNodeOnly DEF RunInv
  <2>2. LockOf(b)' /\ LostOf(b)'
    BY <2>1, <1>1, <1>2, <1>5 DEF RunInv, LockOf, LostOf, SameRun
  <2>2a. DoneOf(b)'
    BY <2>1, <1>1, <1>5 DEF RunInv, DoneOf, BegunOf, WholeOf, ForeignEntries, SameRun
  <2>3. WindowOf(b)'
    BY <2>1, <1>1, <1>2 DEF RunInv, WindowOf, SameRun, Managed, Replaceable, OnNode
  <2>4. BuildingOf(b)' /\ StageOf(b)'
    BY <2>1, <1>1, <1>2 DEF RunInv, BuildingOf, StageOf, SameRun, OnNode
  <2>5. KeptOf(b)'
    BY <2>1, <1>1, <1>5 DEF RunInv, KeptOf, CompleteBy, SameRun, OnNode, TypeOK
  <2>6. CleanupOf(b)'
    <3>1. current[b] \in Vmids \cup {None}
      BY DEF TypeOK
    <3>2. QED
      BY <2>1, <1>1, <3>1 DEF RunInv, CleanupOf, SameRun, OnNode
  <2>7. QED
    BY <1>3, <1>4, <2>2, <2>2a, <2>3, <2>4, <2>5, <2>6 DEF RunInv
<1>6. CASE pc[b] \notin Live
  BY <1>1, <1>2, <1>3, <1>4, <1>6 DEF RunInv, LockOf, WindowOf, BuildingOf, StageOf,
     KeptOf, LostOf, DoneOf, CleanupOf, SameRun, Live, Running, Exiting, Building
<1>7. QED
  BY <1>5, <1>6

-----------------------------------------------------------------------------
(* The invariant of a run while the Operator takes a step.                 *)

\* A step of somebody else concerns one VMID, which every run notes; it never
\* makes a VM look like the work of a builder.
ForeignStep ==
  /\ UNCHANGED <<lock, pc, runVars, manifest, replaced, excused>>
  /\ \E v \in Vmids :
       /\ meddled' = [b \in Builders |-> meddled[b] \cup {v}]
       /\ \A w \in Vmids \ {v} :
            vm'[w] = vm[w] /\ (w \in inUse' <=> w \in inUse)
       /\ vm'[v] # None /\ vm'[v].maker \in Builders =>
            /\ vm[v] # None
            /\ vm'[v].maker = vm[v].maker
            /\ vm'[v].node = vm[v].node
            /\ vm'[v].configured = vm[v].configured
            /\ vm'[v].template = vm[v].template
            /\ vm'[v].tag \in {vm[v].tag, "none"}
            /\ vm'[v].name \in {vm[v].name, "foreign"}

\* The Operator's steps are such steps.
LEMMA OpStepFrame ==
  ASSUME TypeOK, OpStep
  PROVE  ForeignStep
<1> USE DEF ForeignStep
<1>1. PICK v \in Vmids :
        (\E n \in Nodes : OpCreate(v, n)) \/ OpEdit(v) \/ OpDestroy(v) \/ OpClone(v)
  BY DEF OpStep
<1>2. /\ UNCHANGED <<lock, pc, runVars, manifest, replaced, excused>>
      /\ meddled' = [b \in Builders |-> meddled[b] \cup {v}]
  BY <1>1 DEF OpCreate, OpEdit, OpDestroy, OpClone, Meddle
<1>3. CASE \E n \in Nodes : OpCreate(v, n)
  <2>1. PICK n \in Nodes : OpCreate(v, n)
    BY <1>3
  <2>2. PICK template \in BOOLEAN, tag \in {"project", "none"} :
          vm' = [vm EXCEPT ![v] =
                   [NewVm(v, n, Operator) EXCEPT !.tag = tag, !.template = template,
                                                 !.configured = TRUE,
                                                 !.boot = "disk"]]
    BY <2>1 DEF OpCreate
  <2>3. [NewVm(v, n, Operator) EXCEPT !.tag = tag, !.template = template,
                                      !.configured = TRUE,
                                      !.boot = "disk"].maker = Operator
    BY DEF NewVm
  <2>4. vm'[v].maker = Operator /\ \A w \in Vmids \ {v} : vm'[w] = vm[w]
    BY <2>2, <2>3 DEF TypeOK
  <2>5. inUse' = inUse
    BY <2>1 DEF OpCreate
  <2>6. QED
    BY <1>2, <2>4, <2>5, OtherAssumption
<1>4. CASE OpEdit(v)
  <2>1. vm[v] \in Vm /\ vm[v] # None /\ inUse' = inUse
    BY <1>4 DEF OpEdit, TypeOK
  <2>2. \/ vm' = [vm EXCEPT ![v] = [vm[v] EXCEPT !.name = "foreign"]]
        \/ vm' = [vm EXCEPT ![v] = [vm[v] EXCEPT !.tag = "none"]]
        \/ vm' = [vm EXCEPT ![v] = [vm[v] EXCEPT !.lock = ~@]]
        \/ \E o \in BootOrders :
               vm' = [vm EXCEPT ![v] = [vm[v] EXCEPT !.boot = o]]
    BY <1>4 DEF OpEdit
  <2>3. /\ \A w \in Vmids \ {v} : vm'[w] = vm[w]
        /\ vm'[v].maker = vm[v].maker
        /\ vm'[v].node = vm[v].node
        /\ vm'[v].configured = vm[v].configured
        /\ vm'[v].template = vm[v].template
        /\ vm'[v].tag \in {vm[v].tag, "none"}
        /\ vm'[v].name \in {vm[v].name, "foreign"}
    BY <2>1, <2>2 DEF Vm, TypeOK
  <2>4. QED
    BY <1>2, <2>1, <2>3
<1>5. CASE OpDestroy(v)
  BY <1>2, <1>5 DEF OpDestroy, TypeOK
<1>6. CASE OpClone(v)
  BY <1>2, <1>6 DEF OpClone, TypeOK
<1>7. QED
  BY <1>1, <1>3, <1>4, <1>5, <1>6

LEMMA ForeignStepRun ==
  ASSUME TypeOK, ForeignStep, NEW b \in Builders, RunInv(b)
  PROVE  RunInv(b)'
<1>1. UNCHANGED <<lock, pc, runVars, manifest, replaced, excused>>
  BY DEF ForeignStep
<1>2. PICK v \in Vmids :
        /\ meddled' = [x \in Builders |-> meddled[x] \cup {v}]
        /\ \A w \in Vmids \ {v} :
             vm'[w] = vm[w] /\ (w \in inUse' <=> w \in inUse)
        /\ vm'[v] # None /\ vm'[v].maker \in Builders =>
             /\ vm[v] # None
             /\ vm'[v].maker = vm[v].maker
             /\ vm'[v].node = vm[v].node
             /\ vm'[v].configured = vm[v].configured
             /\ vm'[v].template = vm[v].template
             /\ vm'[v].tag \in {vm[v].tag, "none"}
             /\ vm'[v].name \in {vm[v].name, "foreign"}
  BY DEF ForeignStep
<1>3. /\ Row(b)' = Row(b) /\ Before(b)' = Before(b) /\ Rows(b)' = Rows(b)
      /\ Row(b) \in Vmids
  BY <1>1, RowType DEF runVars, Row, Before, Rows
<1>4. /\ meddled'[b] = meddled[b] \cup {v}
      /\ \A w \in Vmids : w \notin meddled'[b] => vm'[w] = vm[w] /\ (w \in inUse' <=> w \in inUse)
  BY <1>2
<1>5. /\ LockOf(b)' /\ PreparedOf(b)' /\ StartOf(b)' /\ CreatedOf(b)'
      /\ CurrentOf(b)' /\ LostOf(b)' /\ DoneOf(b)'
  BY <1>1, <1>3 DEF RunInv, LockOf, PreparedOf, StartOf, CreatedOf, CurrentOf, LostOf,
     DoneOf, BegunOf, WholeOf, ForeignEntries, runVars
<1>6. WindowOf(b)' /\ BuildingOf(b)'
  BY <1>1, <1>3, <1>4 DEF RunInv, WindowOf, BuildingOf, Managed, Replaceable, OnNode, runVars
<1>7. KeptOf(b)'
  BY <1>1, <1>4 DEF RunInv, KeptOf, CompleteBy, OnNode, runVars, TypeOK
<1>8. CleanupOf(b)'
  <2>1. current[b] \in Vmids \cup {None}
    BY DEF TypeOK
  <2>2. QED
    BY <1>1, <1>4, <2>1 DEF RunInv, CleanupOf, OnNode, runVars
<1>9. StageOf(b)'
  BY <1>1, <1>2, <1>3 DEF RunInv, StageOf, OnNode, runVars
<1>10. LeftoverOf(b)'
  BY <1>1, <1>2, <1>3 DEF RunInv, LeftoverOf, Leftover, runVars
<1>11. QED
  BY <1>5, <1>6, <1>7, <1>8, <1>9, <1>10 DEF RunInv

LEMMA ForeignStepInvariant ==
  ASSUME IInv, TypeOK', ForeignStep
  PROVE  IInv'
<1>1. \A b \in Builders : RunInv(b)'
  BY ForeignStepRun DEF IInv
<1>2. ProjectTagMeansComplete'
  BY DEF IInv, ForeignStep, ProjectTagMeansComplete
<1>3. QED
  BY <1>1, <1>2 DEF IInv

-----------------------------------------------------------------------------
(* The invariant of a run while it takes a step itself.                    *)

\* Up to the end of prepare_images a run changes no VM.
LEMMA StartStep ==
  ASSUME TypeOK, NEW b \in Builders, RunInv(b),
         Launch(b) \/ ReadInventory(b) \/ CheckRow(b) \/ Download(b) \/ PrepareRow(b)
  PROVE  RunInv(b)'
<1> USE DEF Goto, Live, Running, Exiting, Ended, Replacing, Building, Closing
<1>1. /\ pc[b] \in {"idle", "inventory", "check", "download", "prepare"}
      /\ pc'[b] \in {"failed", "inventory", "check", "download", "prepare", "recheck"}
      /\ UNCHANGED <<pveVars, manifest, historyVars, current, created, ok>>
      /\ Row(b) \in Vmids /\ Row(b) \in Rows(b) /\ Rows(b)' = Rows(b)
      /\ Home[b] \in Nodes
  BY RowType, HomeAssumption DEF Launch, AcquireLock, LockBusy, PreflightFails, ReadInventory, CheckRow,
     Download, PrepareRow, NextRow, TypeOK, Rows, runVars
<1>2. created[b] = {} /\ replaced[b] = {} /\ current[b] = None /\ ~ok[b]
  BY <1>1 DEF RunInv, CreatedOf, CurrentOf, DoneOf
<1>3. \A v \in Vmids : ~Leftover(v, b)
  BY <1>1 DEF RunInv, LeftoverOf
<1>4. LockOf(b)'
  <2>1. CASE Launch(b)
    BY <2>1, <1>1 DEF LockOf, Launch, AcquireLock, LockBusy, PreflightFails, TypeOK
  <2>2. CASE ReadInventory(b) \/ CheckRow(b) \/ Download(b) \/ PrepareRow(b)
    BY <2>2, <1>1 DEF RunInv, LockOf, ReadInventory, CheckRow, Download, PrepareRow, NextRow
  <2>3. QED
    BY <2>1, <2>2
<1>5. PreparedOf(b)' /\ StartOf(b)' /\ CreatedOf(b)'
  <2>1. CASE Launch(b) \/ ReadInventory(b)
    BY <2>1, <1>1, <1>2 DEF RunInv, PreparedOf, StartOf, CreatedOf, Launch, AcquireLock,
       LockBusy, PreflightFails, ReadInventory, TypeOK, runVars, historyVars
  <2>2. CASE CheckRow(b)
    BY <2>2, <1>1, <1>2, NextRowStep DEF RunInv, PreparedOf, StartOf, CreatedOf, CheckRow,
       historyVars
  <2>3. CASE Download(b)
    BY <2>3, <1>1, <1>2, FirstRow DEF RunInv, PreparedOf, StartOf, CreatedOf, Download,
       TypeOK, runVars, historyVars, Before
  <2>4. CASE PrepareRow(b)
    <3>1. pc[b] = "prepare" /\ prepared'[b] = prepared[b] \cup {Row(b)}
      BY <2>4 DEF PrepareRow, NextRow, TypeOK
    <3>2. CASE LastRow(b)
      BY <3>1, <3>2, <2>4, <1>1, <1>2, NextRowStep, LastRowCompletes
         DEF RunInv, PreparedOf, StartOf, CreatedOf, PrepareRow, historyVars
    <3>3. CASE ~LastRow(b)
      BY <3>1, <3>3, <2>4, <1>1, <1>2, NextRowStep
         DEF RunInv, PreparedOf, StartOf, CreatedOf, PrepareRow, historyVars
    <3>4. QED
      BY <3>2, <3>3
  <2>5. QED
    BY <2>1, <2>2, <2>3, <2>4
<1>6. CurrentOf(b)' /\ KeptOf(b)' /\ LostOf(b)' /\ DoneOf(b)'
  BY <1>1, <1>2 DEF CurrentOf, KeptOf, LostOf, DoneOf, historyVars
<1>7. WindowOf(b)' /\ BuildingOf(b)' /\ StageOf(b)' /\ CleanupOf(b)'
  BY <1>1 DEF WindowOf, BuildingOf, StageOf, CleanupOf
<1>8. LeftoverOf(b)'
  BY <1>1, <1>3 DEF LeftoverOf, Leftover, pveVars
<1>9. QED
  BY <1>4, <1>5, <1>6, <1>7, <1>8 DEF RunInv

\* The second check, qm destroy, qm create and the assignment of CURRENT_VMID.
LEMMA ReplaceStep ==
  ASSUME TypeOK, NEW b \in Builders, RunInv(b),
         Recheck(b) \/ RecheckClones(b) \/ DestroyOld(b) \/ CreateVm(b) \/ Claim(b)
  PROVE  RunInv(b)'
<1> USE DEF Goto, Live, Running, Exiting, Ended, Replacing, Building, Closing
<1>1. /\ pc[b] \in {"recheck", "clones", "destroy", "create", "claim"}
      /\ pc'[b] \in {"clones", "destroy", "create", "claim", "configure"}
      /\ UNCHANGED <<lock, manifest, excused, pos, prepared, checked, created, ok>>
      /\ Row(b)' = Row(b) /\ Before(b)' = Before(b) /\ Rows(b)' = Rows(b)
      /\ Row(b) \in Vmids /\ Row(b) \in Rows(b) /\ Row(b) # None
      /\ Home[b] \in Nodes
  BY RowType, HomeAssumption, OtherAssumption DEF Recheck, RecheckClones, DestroyOld, CreateVm, Claim,
     TypeOK, Row, Rows, Before, runVars, historyVars
<1>2. /\ created[b] = Before(b) /\ current[b] = None /\ ~ok[b]
      /\ prepared[b] = Rows(b) /\ Row(b) \notin created[b]
  BY <1>1, RowIsNew DEF RunInv, CreatedOf, CurrentOf, DoneOf, PreparedOf
<1>3. /\ replaced'[b] \subseteq replaced[b] \cup {Row(b)}
      /\ \A v \in Vmids \ {Row(b)} :
           /\ vm'[v] = vm[v]
           /\ v \in meddled'[b] <=> v \in meddled[b]
  BY <1>1 DEF Recheck, RecheckClones, DestroyOld, CreateVm, Claim, TypeOK, historyVars, pveVars
<1>4. LockOf(b)' /\ PreparedOf(b)' /\ StartOf(b)' /\ DoneOf(b)' /\ LostOf(b)'
  BY <1>1, <1>2, <1>3 DEF RunInv, LockOf, PreparedOf, StartOf, DoneOf, LostOf
<1>5. CreatedOf(b)' /\ CurrentOf(b)'
  <2>1. CASE Claim(b)
    BY <2>1, <1>1, <1>2 DEF CreatedOf, CurrentOf, Claim, TypeOK
  <2>2. CASE current'[b] = current[b] /\ pc'[b] # "configure"
    BY <2>2, <1>1, <1>2 DEF RunInv, CreatedOf, CurrentOf
  <2>3. QED
    BY <2>1, <2>2, <1>1 DEF Recheck, RecheckClones, DestroyOld, CreateVm, TypeOK, runVars
<1>6. KeptOf(b)'
  <2>1. pc[b] \in Live /\ created[b] \subseteq Vmids \ {Row(b)}
    BY <1>1, <1>2 DEF TypeOK
  <2>2. ASSUME NEW v \in created[b], v \notin meddled'[b]
        PROVE  CompleteBy(v, b)'
    <3>1. CompleteBy(v, b) /\ vm'[v] = vm[v]
      BY <1>3, <2>1, <2>2 DEF RunInv, KeptOf
    <3>2. QED
      BY <3>1 DEF CompleteBy, OnNode
  <2>3. QED
    BY <1>1, <2>2 DEF KeptOf
<1>7. WindowOf(b)'
  <2>1. CASE Recheck(b)
    BY <2>1, <1>1 DEF WindowOf, Recheck, TypeOK, pveVars, Managed, OnNode
  <2>2. CASE RecheckClones(b)
    BY <2>2, <1>1 DEF RunInv, WindowOf, RecheckClones, TypeOK, pveVars, historyVars,
       Managed, OnNode
  <2>3. CASE DestroyOld(b) \/ CreateVm(b) \/ Claim(b)
    BY <2>3, <1>1 DEF WindowOf, DestroyOld, CreateVm, Claim, TypeOK
  <2>4. QED
    BY <2>1, <2>2, <2>3
<1>8. BuildingOf(b)' /\ StageOf(b)' /\ CleanupOf(b)'
  <2>1. CASE Recheck(b) \/ RecheckClones(b) \/ DestroyOld(b)
    BY <2>1, <1>1 DEF BuildingOf, StageOf, CleanupOf, Recheck, RecheckClones, DestroyOld, TypeOK
  <2>2. CASE CreateVm(b)
    <3>1. vm'[Row(b)] = NewVm(Row(b), Home[b], b)
      BY <2>2, <1>1 DEF CreateVm, TypeOK
    <3>2. vm'[Row(b)] # None /\ vm'[Row(b)].node = Home[b] /\ vm'[Row(b)].maker = b
      BY <3>1, <1>1, NewVmType
    <3>3. QED
      BY <3>2, <2>2, <1>1 DEF BuildingOf, StageOf, CleanupOf, CreateVm, OnNode, TypeOK
  <2>3. CASE Claim(b)
    BY <2>3, <1>1 DEF RunInv, BuildingOf, StageOf, CleanupOf, Claim, OnNode, TypeOK,
       pveVars, historyVars
  <2>4. QED
    BY <2>1, <2>2, <2>3
<1>9. LeftoverOf(b)'
  <2>1. CASE Recheck(b) \/ RecheckClones(b) \/ DestroyOld(b)
    <3>1. \A v \in Vmids : ~Leftover(v, b)
      BY <2>1, <1>1 DEF RunInv, LeftoverOf, Recheck, RecheckClones, DestroyOld
    <3>2. \A v \in Vmids : ~Leftover(v, b)'
      BY <2>1, <3>1, <1>1 DEF Leftover, Recheck, RecheckClones, DestroyOld, TypeOK, pveVars
    <3>3. QED
      BY <3>2 DEF LeftoverOf
  <2>2. CASE CreateVm(b)
    <3>1. vm'[Row(b)] = NewVm(Row(b), Home[b], b) /\ pc[b] = "create" /\ pc'[b] = "claim"
      BY <2>2, <1>1 DEF CreateVm, TypeOK
    <3>2. vm'[Row(b)].node = Home[b]
      BY <3>1, <1>1, NewVmType
    <3>3. \A v \in Vmids \ {Row(b)} : ~Leftover(v, b)'
      BY <3>1, <1>3 DEF RunInv, LeftoverOf, Leftover
    <3>4. QED
      BY <3>1, <3>2, <3>3, <1>1 DEF LeftoverOf
  <2>3. CASE Claim(b)
    BY <2>3, <1>1 DEF RunInv, LeftoverOf, Leftover, Claim, TypeOK, pveVars
  <2>4. QED
    BY <2>1, <2>2, <2>3
<1>10. QED
  BY <1>4, <1>5, <1>6, <1>7, <1>8, <1>9 DEF RunInv

\* The qm commands that edit the VM of the current row.
LEMMA EditStep ==
  ASSUME TypeOK, NEW b \in Builders, RunInv(b),
         Configure(b) \/ Convert(b) \/ Finalise(b)
  PROVE  RunInv(b)'
<1> USE DEF Goto, Live, Running, Exiting, Ended, Replacing, Building, Closing
<1>1. /\ \/ pc[b] = "configure" /\ pc'[b] = "convert" /\ Configure(b)
         \/ pc[b] = "convert" /\ pc'[b] = "finalise" /\ Convert(b)
         \/ pc[b] = "finalise" /\ pc'[b] = "record" /\ Finalise(b)
      /\ UNCHANGED <<lock, manifest, historyVars, inUse, runVars>>
      /\ Row(b)' = Row(b) /\ Before(b)' = Before(b) /\ Rows(b)' = Rows(b)
      /\ Row(b) \in Vmids /\ Home[b] \in Nodes
  BY RowType, HomeAssumption DEF Configure, Convert, Finalise, QmEdit, TypeOK, Row, Rows,
     Before, runVars
<1>2. created[b] = Before(b) /\ Row(b) \notin created[b]
  BY <1>1, RowIsNew DEF RunInv, CreatedOf
<1>3. /\ \A v \in Vmids \ {Row(b)} : vm'[v] = vm[v]
      /\ vm[Row(b)] # None /\ vm'[Row(b)] # None
      /\ vm[Row(b)].node = Home[b] /\ vm'[Row(b)].node = Home[b]
      /\ vm'[Row(b)].maker = vm[Row(b)].maker /\ vm'[Row(b)].name = vm[Row(b)].name
      /\ vm'[Row(b)].configured = (vm[Row(b)].configured \/ Configure(b))
      /\ vm'[Row(b)].template = (vm[Row(b)].template \/ Convert(b))
      /\ vm'[Row(b)].tag = IF Finalise(b) THEN "project" ELSE vm[Row(b)].tag
  BY QmEdits
<1>4. LockOf(b)' /\ PreparedOf(b)' /\ StartOf(b)' /\ DoneOf(b)' /\ LostOf(b)'
      /\ CreatedOf(b)' /\ CurrentOf(b)'
  BY <1>1 DEF RunInv, LockOf, PreparedOf, StartOf, DoneOf, LostOf, CreatedOf, CurrentOf,
     runVars, historyVars
<1>5. KeptOf(b)'
  <2>1. /\ \A v \in created[b] : v \in Vmids /\ vm'[v] = vm[v]
        /\ created'[b] = created[b] /\ meddled'[b] = meddled[b] /\ pc[b] \in Live
    BY <1>1, <1>2, <1>3 DEF TypeOK, runVars, historyVars
  <2>2. QED
    BY <2>1 DEF RunInv, KeptOf, CompleteBy, OnNode
<1>6. WindowOf(b)' /\ CleanupOf(b)'
  BY <1>1 DEF WindowOf, CleanupOf
<1>7. BuildingOf(b)' /\ StageOf(b)'
  BY <1>1, <1>3 DEF RunInv, BuildingOf, StageOf, OnNode, historyVars
<1>8. LeftoverOf(b)'
  BY <1>1, <1>3 DEF RunInv, LeftoverOf, Leftover
<1>9. QED
  BY <1>4, <1>5, <1>6, <1>7, <1>8 DEF RunInv

\* The end of create_template: the row joins the created ones.
LEMMA RecordStep ==
  ASSUME TypeOK, NEW b \in Builders, RunInv(b), Record(b)
  PROVE  RunInv(b)'
<1> USE DEF Goto, Live, Running, Exiting, Ended, Replacing, Building, Closing
<1>1. /\ pc[b] = "record" /\ pc'[b] \in {"recheck", "verify"}
      /\ UNCHANGED <<pveVars, lock, manifest, historyVars, prepared, checked, ok>>
      /\ created'[b] = created[b] \cup {Row(b)} /\ current'[b] = None
      /\ Row(b) \in Vmids /\ Row(b) \in Rows(b) /\ Rows(b)' = Rows(b)
      /\ None \notin Vmids /\ created[b] \subseteq Vmids
  BY RowType, OtherAssumption DEF Record, NextRow, TypeOK, Rows
<1>2. created[b] = Before(b) /\ prepared[b] = Rows(b) /\ ~ok[b]
  BY <1>1 DEF RunInv, CreatedOf, PreparedOf, DoneOf
<1>3. \/ pc'[b] = "recheck" /\ created'[b] = Before(b)'
      \/ pc'[b] = "verify" /\ created'[b] = Rows(b)
  <2>1. NextRow(b, "record", "recheck", "verify")
    BY DEF Record
  <2>2. /\ LastRow(b) => pc'[b] = "verify"
        /\ ~LastRow(b) => pc'[b] = "recheck" /\ Before(b)' = Before(b) \cup {Row(b)}
    BY ONLY TypeOK, b \in Builders, <2>1, NextRowStep
  <2>3. LastRow(b) => Before(b) \cup {Row(b)} = Rows(b)
    BY ONLY TypeOK, b \in Builders, LastRowCompletes
  <2>4. QED
    BY <2>2, <2>3, <1>1, <1>2
<1>4. LockOf(b)' /\ PreparedOf(b)' /\ StartOf(b)' /\ DoneOf(b)' /\ LostOf(b)'
  BY <1>1, <1>2 DEF RunInv, LockOf, PreparedOf, StartOf, DoneOf, LostOf, historyVars
<1>5. CreatedOf(b)' /\ CurrentOf(b)'
  BY <1>1, <1>2, <1>3 DEF CreatedOf, CurrentOf
<1>6. KeptOf(b)'
  <2>1. Row(b) \notin meddled[b] => CompleteBy(Row(b), b)
    BY <1>1 DEF RunInv, BuildingOf, CompleteBy
  <2>2. \A v \in created'[b] \ meddled[b] : CompleteBy(v, b)
    BY <2>1, <1>1 DEF RunInv, KeptOf
  <2>3. QED
    BY <2>2, <1>1 DEF KeptOf, CompleteBy, OnNode, pveVars, historyVars
<1>7. WindowOf(b)' /\ BuildingOf(b)' /\ StageOf(b)' /\ CleanupOf(b)'
  BY <1>1 DEF WindowOf, BuildingOf, StageOf, CleanupOf
<1>8. LeftoverOf(b)'
  BY <1>1 DEF RunInv, LeftoverOf, Leftover, pveVars
<1>9. QED
  BY <1>4, <1>5, <1>6, <1>7, <1>8 DEF RunInv

\* Verification, backup, manifest and report change no VM.
LEMMA CloseStep ==
  ASSUME TypeOK, NEW b \in Builders, RunInv(b),
         VerifyRow(b) \/ Backup(b) \/ OpenManifest(b) \/ WriteEntry(b) \/ Report(b)
  PROVE  RunInv(b)'
<1> USE DEF Goto, Live, Running, Exiting, Ended, Replacing, Building, Closing
<1>1. /\ pc[b] \in Closing /\ pc'[b] \in Closing \cup {"exit"}
      /\ UNCHANGED <<pveVars, lock, historyVars, prepared, checked, created, current>>
      /\ Row(b)' \in Vmids /\ Row(b) \in Rows(b) /\ Rows(b)' = Rows(b)
  <2>1. TypeOK'
    BY ProgressType DEF Progress
  <2>2. Row(b)' \in Vmids
    BY <2>1, SelectionAssumption DEF TypeOK, Row
  <2>3. QED
    BY <2>2, RowType DEF VerifyRow, Backup, OpenManifest, WriteEntry, Report, NextRow, TypeOK, Rows,
       runVars
<1>2. created[b] = Rows(b) /\ prepared[b] = Rows(b) /\ current[b] = None /\ ~ok[b]
  BY <1>1 DEF RunInv, CreatedOf, CurrentOf, DoneOf, PreparedOf
<1>3. DoneOf(b)'
  <2>1. CASE VerifyRow(b) \/ Backup(b)
    BY <2>1, <1>2 DEF DoneOf, VerifyRow, Backup, NextRow, TypeOK, runVars
  <2>2. CASE OpenManifest(b)
    <3>1. pc'[b] = "entries" /\ ok' = ok
      BY <2>2 DEF OpenManifest, TypeOK, runVars
    <3> QED
      BY <2>2, <3>1, <1>2, ManifestStep DEF DoneOf, BegunOf
  <2>3. CASE WriteEntry(b)
    <3>1. /\ pc[b] = "entries" /\ ok' = ok
          /\ pc'[b] = IF LastRow(b) THEN "report" ELSE "entries"
      BY <2>3 DEF WriteEntry, NextRow, TypeOK
    <3>2. BegunOf(b)
      BY <3>1 DEF RunInv, DoneOf
    <3>3. manifest'[CacheDir[b]] =
            [writers |-> manifest[CacheDir[b]].writers \cup {b},
             whole |-> LastRow(b) /\ manifest[CacheDir[b]].writers \cup {b} = {b}]
      BY <2>3, ManifestStep
    <3>4. CASE ForeignEntries(b)
      <4>1. ForeignEntries(b)'
        BY <3>3, <3>4 DEF ForeignEntries
      <4> QED
        BY <4>1, <3>1, <1>2 DEF DoneOf, BegunOf, WholeOf
    <3>5. CASE manifest[CacheDir[b]].writers = {b}
      <4>1. manifest'[CacheDir[b]] = [writers |-> {b}, whole |-> LastRow(b)]
        <5>1. manifest[CacheDir[b]].writers \cup {b} = {b}
          BY <3>5
        <5>2. LastRow(b) \in BOOLEAN
          BY DEF LastRow
        <5> QED
          BY <3>3, <5>1, <5>2
      <4>2. CASE LastRow(b)
        BY <4>1, <4>2, <3>1, <1>2 DEF DoneOf, WholeOf
      <4>3. CASE ~LastRow(b)
        BY <4>1, <4>3, <3>1, <1>2 DEF DoneOf, BegunOf
      <4> QED
        BY <4>2, <4>3
    <3> QED
      BY <3>2, <3>4, <3>5 DEF BegunOf
  <2>4. CASE Report(b)
    <3>1. pc[b] = "report" /\ pc'[b] = "exit" /\ manifest' = manifest
      BY <2>4 DEF Report, TypeOK
    <3> QED
      BY <3>1 DEF RunInv, DoneOf, WholeOf, ForeignEntries
  <2> QED
    BY <2>1, <2>2, <2>3, <2>4
<1>4. LockOf(b)' /\ PreparedOf(b)' /\ StartOf(b)' /\ LostOf(b)' /\ CreatedOf(b)'
      /\ CurrentOf(b)'
  BY <1>1, <1>2 DEF RunInv, LockOf, PreparedOf, StartOf, LostOf, CreatedOf, CurrentOf,
     historyVars
<1>5. KeptOf(b)'
  BY <1>1 DEF RunInv, KeptOf, CompleteBy, OnNode, pveVars, historyVars
<1>6. WindowOf(b)' /\ BuildingOf(b)' /\ StageOf(b)' /\ CleanupOf(b)'
  BY <1>1, <1>2 DEF WindowOf, BuildingOf, StageOf, CleanupOf
<1>7. LeftoverOf(b)'
  BY <1>1 DEF RunInv, LeftoverOf, Leftover, pveVars
<1>8. QED
  BY <1>3, <1>4, <1>5, <1>6, <1>7 DEF RunInv

\* A failing command, a signal, or the loss of the process.
LEMMA FailStep ==
  ASSUME TypeOK, NEW b \in Builders, RunInv(b),
         Fail(b) \/ Signal(b) \/ Crash(b)
  PROVE  RunInv(b)'
<1> USE DEF Live, Running, Exiting, Ended, Replacing, Building, Closing
<1>1. /\ pc[b] \in Live /\ pc'[b] \in {"exit", "crashed"}
      /\ pc'[b] = "exit" => pc[b] \in Running /\ lock' = lock
      /\ pc'[b] = "exit" => pc[b] \notin {"claim", "record"} \/ b \in excused'
      /\ UNCHANGED <<pveVars, runVars, manifest, replaced, meddled>>
      /\ Row(b)' = Row(b) /\ Before(b)' = Before(b) /\ Rows(b)' = Rows(b)
      /\ Row(b) \in Vmids
  BY RowType DEF Fail, Signal, Crash, TypeOK, Row, Rows, Before, runVars, historyVars
<1>2. LockOf(b)' /\ PreparedOf(b)' /\ StartOf(b)' /\ CreatedOf(b)' /\ CurrentOf(b)'
      /\ DoneOf(b)' /\ LostOf(b)'
  BY <1>1 DEF RunInv, LockOf, PreparedOf, StartOf, CreatedOf, CurrentOf, DoneOf, WholeOf,
     ForeignEntries, LostOf, runVars
<1>3. KeptOf(b)'
  BY <1>1 DEF RunInv, KeptOf, CompleteBy, OnNode, pveVars, runVars
<1>4. WindowOf(b)' /\ BuildingOf(b)' /\ StageOf(b)'
  BY <1>1 DEF WindowOf, BuildingOf, StageOf
<1>5. CleanupOf(b)'
  <2>1. pc[b] \in Running /\ current[b] # None => pc[b] \in Building /\ current[b] = Row(b)
    BY DEF RunInv, CurrentOf
  <2>2. QED
    BY <1>1, <2>1 DEF RunInv, BuildingOf, CleanupOf, OnNode, pveVars, runVars
<1>6. LeftoverOf(b)'
  <2> SUFFICES ASSUME NEW v \in Vmids, Leftover(v, b)'
               PROVE  /\ vm'[v].node = Home[b]
                      /\ pc'[b] = "exit" /\ b \notin excused' => current'[b] = v
    BY <1>1 DEF LeftoverOf
  <2>1. Leftover(v, b) /\ vm' = vm /\ current' = current
    BY <1>1 DEF Leftover, pveVars, runVars
  <2>2. pc[b] \in Running => v = Row(b) /\ pc[b] \in {"claim", "configure", "convert", "finalise"}
    BY <2>1 DEF RunInv, LeftoverOf
  <2>3. QED
    BY <1>1, <2>1, <2>2 DEF RunInv, LeftoverOf, CurrentOf
<1>7. QED
  BY <1>2, <1>3, <1>4, <1>5, <1>6 DEF RunInv

\* on_exit.
LEMMA ExitStep ==
  ASSUME TypeOK, NEW b \in Builders, RunInv(b), OnExit(b)
  PROVE  RunInv(b)'
<1> USE DEF Goto, Live, Running, Exiting, Ended, Replacing, Building, Closing
<1>1. /\ pc[b] \in Exiting /\ pc'[b] \in {"cleanup", "leave", "succeeded", "failed"}
      /\ UNCHANGED <<runVars, manifest, replaced, meddled>>
      /\ pc'[b] \in Exiting => lock' = lock
      /\ Row(b)' = Row(b) /\ Before(b)' = Before(b) /\ Rows(b)' = Rows(b)
      /\ current[b] \in Vmids \cup {None}
  BY DEF OnExit, InspectOnExit, CleanupVm, CleanupFails, Leave, TypeOK, Row, Rows, Before,
     runVars, historyVars
<1>2. LockOf(b)' /\ PreparedOf(b)' /\ StartOf(b)' /\ CreatedOf(b)' /\ CurrentOf(b)'
      /\ DoneOf(b)' /\ LostOf(b)'
  BY <1>1 DEF RunInv, LockOf, PreparedOf, StartOf, CreatedOf, CurrentOf, DoneOf, WholeOf,
     ForeignEntries, LostOf, runVars
<1>3. WindowOf(b)' /\ BuildingOf(b)' /\ StageOf(b)'
  BY <1>1 DEF WindowOf, BuildingOf, StageOf
<1>4. CASE CleanupVm(b)
  <2>1. /\ pc[b] = "cleanup" /\ pc'[b] = "leave" /\ excused' = excused
        /\ current[b] \in Vmids /\ vm'[current[b]] = None
        /\ \A v \in Vmids \ {current[b]} : vm'[v] = vm[v]
    BY <1>4, <1>1 DEF RunInv, CleanupOf, CleanupVm, TypeOK, historyVars
  <2>2. KeptOf(b)'
    <3>1. /\ \A v \in created[b] : v \in Vmids /\ vm'[v] = vm[v]
          /\ created'[b] = created[b] /\ meddled'[b] = meddled[b]
      BY <2>1, <1>1 DEF RunInv, CreatedOf, TypeOK, runVars
    <3>2. QED
      BY <3>1, <1>1 DEF RunInv, KeptOf, CompleteBy, OnNode
  <2>3. CleanupOf(b)'
    BY <2>1 DEF CleanupOf
  <2>4. LeftoverOf(b)'
    BY <2>1, <1>1 DEF RunInv, LeftoverOf, Leftover
  <2>5. QED
    BY <1>2, <1>3, <2>2, <2>3, <2>4 DEF RunInv
<1>5. CASE InspectOnExit(b) \/ CleanupFails(b) \/ Leave(b)
  <2>1. vm' = vm
    BY <1>5 DEF InspectOnExit, CleanupFails, Leave, pveVars
  <2>2. KeptOf(b)'
    BY <2>1, <1>1 DEF RunInv, KeptOf, CompleteBy, OnNode, runVars
  <2>3. CleanupOf(b)' /\ LeftoverOf(b)'
    <3>1. CASE InspectOnExit(b)
      <4>1. pc[b] = "exit" /\ pc'[b] = (IF Incomplete(b) THEN "cleanup" ELSE "leave")
            /\ excused' = excused
        BY <3>1 DEF InspectOnExit, TypeOK, historyVars
      <4>2. CleanupOf(b)'
        BY <4>1, <2>1, <1>1 DEF RunInv, CleanupOf, Incomplete, OnNode, runVars
      <4>3. LeftoverOf(b)'
        BY OtherAssumption, <4>1, <2>1, <1>1 DEF RunInv, LeftoverOf, Leftover, Incomplete, OnNode,
           runVars
      <4>4. QED
        BY <4>2, <4>3
    <3>2. CASE CleanupFails(b)
      BY <3>2, <2>1, <1>1 DEF RunInv, CleanupOf, LeftoverOf, Leftover, CleanupFails, TypeOK,
         runVars
    <3>3. CASE Leave(b)
      BY <3>3, <2>1, <1>1 DEF RunInv, CleanupOf, LeftoverOf, Leftover, Leave, TypeOK,
         runVars, historyVars
    <3>4. QED
      BY <1>5, <3>1, <3>2, <3>3
  <2>4. QED
    BY <1>2, <1>3, <2>2, <2>3 DEF RunInv
<1>6. QED
  BY <1>4, <1>5 DEF OnExit

LEMMA OwnStep ==
  ASSUME TypeOK, NEW b \in Builders, RunInv(b), StepOf(b)
  PROVE  RunInv(b)'
  BY StartStep, ReplaceStep, EditStep, RecordStep, CloseStep, FailStep, ExitStep
     DEF StepOf, Progress

-----------------------------------------------------------------------------
(* The invariant.                                                          *)

\* Initially nothing runs and nothing is built.
LEMMA InitRun ==
  ASSUME Init
  PROVE  /\ \A b \in Builders : RunInv(b)
         /\ ProjectTagMeansComplete
<1>1. TypeOK
  BY InitType
<1>2. \A v \in Vmids : vm[v] # None => vm[v].maker = Operator
  BY DEF Init, OldTemplate
<1>3. ProjectTagMeansComplete
  BY <1>2, OtherAssumption DEF ProjectTagMeansComplete
<1>4. ASSUME NEW b \in Builders PROVE RunInv(b)
  <2>1. /\ pc[b] = "idle" /\ current[b] = None /\ created[b] = {} /\ replaced[b] = {}
        /\ prepared[b] = {} /\ ok[b] = FALSE
    BY DEF Init
  <2>2. \A v \in Vmids : ~Leftover(v, b)
    BY <1>2, OtherAssumption DEF Leftover
  <2>3. QED
    BY <2>1, <2>2 DEF RunInv, LockOf, PreparedOf, StartOf, CreatedOf, CurrentOf, WindowOf,
       BuildingOf, StageOf, KeptOf, LostOf, DoneOf, LeftoverOf, CleanupOf, Live, Running,
       Exiting, Ended, Replacing, Building, Closing
<1>5. QED
  BY <1>3, <1>4

\* A run tags only what is complete.
LEMMA TagStep ==
  ASSUME TypeOK, NEW c \in Builders, RunInv(c), StepOf(c), ProjectTagMeansComplete
  PROVE  ProjectTagMeansComplete'
<1>1. Row(c) \in Vmids /\ Home[c] \in Nodes
  BY RowType, HomeAssumption
<1>2. CASE CreateVm(c)
  <2>1. vm' = [vm EXCEPT ![Row(c)] = NewVm(Row(c), Home[c], c)]
    BY <1>2 DEF CreateVm
  <2>2. NewVm(Row(c), Home[c], c).tag = "build"
    BY <1>1, NewVmType
  <2>3. QED
    BY <2>1, <2>2, <1>1 DEF TypeOK, ProjectTagMeansComplete
<1>3. CASE Configure(c) \/ Convert(c) \/ Finalise(c)
  <2> SUFFICES ASSUME vm'[Row(c)].tag = "project", vm'[Row(c)].maker \in Builders
               PROVE  vm'[Row(c)].template /\ vm'[Row(c)].configured
    BY <1>3, QmEdits DEF ProjectTagMeansComplete
  <2>1. /\ vm[Row(c)] # None /\ vm[Row(c)].maker \in Builders
        /\ OnNode(Row(c), Home[c])
        /\ vm'[Row(c)].configured = (vm[Row(c)].configured \/ Configure(c))
        /\ vm'[Row(c)].template = (vm[Row(c)].template \/ Convert(c))
        /\ vm'[Row(c)].tag = IF Finalise(c) THEN "project" ELSE vm[Row(c)].tag
    BY <1>3, QmEdits DEF OnNode
  <2>2. vm[Row(c)].template /\ vm[Row(c)].configured
    <3>1. CASE Finalise(c)
      BY <3>1, <2>1 DEF RunInv, StageOf, Finalise, Goto
    <3>2. CASE ~Finalise(c)
      BY <3>2, <2>1, <1>1 DEF ProjectTagMeansComplete
    <3>3. QED
      BY <3>1, <3>2
  <2>3. QED
    BY <2>1, <2>2
<1>4. CASE DestroyOld(c)
  BY <1>4, <1>1 DEF DestroyOld, TypeOK, ProjectTagMeansComplete
<1>5. CASE CleanupVm(c)
  BY <1>5 DEF CleanupVm, OnNode, TypeOK, ProjectTagMeansComplete
<1>6. CASE vm' = vm
  BY <1>6 DEF ProjectTagMeansComplete
<1>7. CASE Launch(c) \/ Crash(c) \/ Leave(c) \/ OpenManifest(c) \/ WriteEntry(c)
  BY <1>7, <1>6 DEF Launch, AcquireLock, LockBusy, PreflightFails, Crash, Leave, OpenManifest, WriteEntry, pveVars
<1>8. CASE ReadInventory(c) \/ CheckRow(c) \/ Download(c) \/ PrepareRow(c)
           \/ Recheck(c) \/ RecheckClones(c) \/ Claim(c) \/ Record(c) \/ VerifyRow(c) \/ Backup(c)
           \/ Report(c) \/ Fail(c) \/ Signal(c) \/ InspectOnExit(c) \/ CleanupFails(c)
  BY <1>8, <1>6 DEF ReadInventory, CheckRow, Download, PrepareRow, Recheck, RecheckClones, Claim,
     Record, VerifyRow, Backup, Report, Fail, Signal, InspectOnExit, CleanupFails, pveVars
<1>9. QED
  BY <1>2, <1>3, <1>4, <1>5, <1>7, <1>8 DEF StepOf, Progress, OnExit

\* The invariant is inductive.
LEMMA NextInvariant == IInv /\ [Next]_vars => IInv'
<1> SUFFICES ASSUME IInv, [Next]_vars PROVE IInv'
  OBVIOUS
<1> USE DEF IInv
<1>1. TypeOK'
  BY NextType
<1>2. CASE \E c \in Builders : StepOf(c)
  <2>1. PICK c \in Builders : StepOf(c)
    BY <1>2
  <2>2. \A b \in Builders : RunInv(b)'
    BY <2>1, OwnStep, OtherStep
  <2>3. ProjectTagMeansComplete'
    BY <2>1, TagStep
  <2>4. QED
    BY <1>1, <2>2, <2>3
<1>3. CASE OpStep
  BY <1>1, <1>3, OpStepFrame, ForeignStepInvariant
<1>4. CASE UNCHANGED vars
  <2>1. \A b \in Builders : RunInv(b)'
    BY <1>4 DEF vars, pveVars, runVars, historyVars, RunInv, LockOf, PreparedOf, StartOf,
       CreatedOf, CurrentOf, WindowOf, BuildingOf, StageOf, KeptOf, LostOf, DoneOf, BegunOf,
       WholeOf, ForeignEntries, LeftoverOf, Leftover, CleanupOf, CompleteBy, Managed, Replaceable, OnNode, Row, Rows, Before
  <2>2. ProjectTagMeansComplete'
    BY <1>4 DEF vars, pveVars, ProjectTagMeansComplete
  <2>3. QED
    BY <1>1, <2>1, <2>2
<1>5. QED
  BY <1>2, <1>3, <1>4 DEF Next, StepOf

\* Every reachable state satisfies the inductive invariant.
THEOREM Invariant == Spec => []IInv
<1>1. Init => IInv
  BY InitType, InitRun DEF IInv
<1>2. QED
  BY <1>1, NextInvariant, PTL DEF Spec

-----------------------------------------------------------------------------
(* What the engine promises, for any number of builders and nodes.         *)

\* No VMID is replaced or created before all images are ready.
THEOREM Readiness == Spec => []ReadyBeforeReplace
<1>1. IInv => ReadyBeforeReplace
  BY DEF IInv, RunInv, PreparedOf, ReadyBeforeReplace
<1>2. QED
  BY <1>1, Invariant, PTL

\* A failing run has lost at most the one template it was rebuilding.
THEOREM LossBound == Spec => []AtMostOneLost
<1>1. ASSUME IInv, NEW b \in Builders, pc[b] \in Live,
             NEW v \in replaced[b] \ meddled[b], vm[v] = None \/ vm[v].tag # "project"
      PROVE  v = Row(b)
  <2>1. ~CompleteBy(v, b)
    BY <1>1 DEF CompleteBy, OnNode
  <2>2. QED
    BY <1>1, <2>1 DEF IInv, RunInv, KeptOf, LostOf
<1>2. IInv => AtMostOneLost
  BY <1>1 DEF AtMostOneLost
<1>3. QED
  BY <1>2, Invariant, PTL

\* No crash or failing command leaves a half-built VM with the project tag.
THEOREM TagSoundness == Spec => []ProjectTagMeansComplete
<1>1. IInv => ProjectTagMeansComplete
  BY DEF IInv
<1>2. QED
  BY <1>1, Invariant, PTL

\* No engine touches what another live run has created, on any node.
THEOREM Isolation == Spec => []CreatedStillThere
<1>1. IInv => CreatedStillThere
  BY DEF IInv, RunInv, KeptOf, CreatedStillThere
<1>2. QED
  BY <1>1, Invariant, PTL

\* A run that returns success has built its whole selection, and its manifest
\* is whole and its own unless another node's run wrote to the same file.
THEOREM SuccessSoundness == Spec => []SuccessMeansBuilt
<1>1. IInv => SuccessMeansBuilt
  BY DEF IInv, RunInv, CreatedOf, KeptOf, DoneOf, WholeOf, SuccessMeansBuilt
<1>2. QED
  BY <1>1, Invariant, PTL

\* on_exit removes the incomplete VM of a run that fails by itself.
THEOREM CleanupComplete == Spec => []NoLeftover
<1>1. IInv => NoLeftover
  BY DEF IInv, RunInv, LeftoverOf, Leftover, NoLeftover
<1>2. QED
  BY <1>1, Invariant, PTL

\* What DestroyOnlyCheckedOrOwn says of one step and one VMID.
Destroyed(v) == vm[v] # None /\ vm'[v] = None /\ ops' = ops

Justified(v) ==
  \E b \in Builders :
    /\ lock[vm[v].node] = b
    /\ v \in Rows(b)
    /\ \/ v \in meddled[b]
       \/ vm[v].maker = b /\ vm[v].tag = "build"
       \/ /\ vm[v] = checked[b][v]
          /\ Replaceable(v, Home[b])
          /\ prepared[b] = Rows(b)

LEMMA DestroyStep ==
  IInv /\ [Next]_vars => \A v \in Vmids : Destroyed(v) => Justified(v)
<1> USE DEF Destroyed, Justified
<1>1. ASSUME IInv, [Next]_vars, NEW v \in Vmids, Destroyed(v)
      PROVE  Justified(v)
  <2> USE <1>1 DEF IInv
  <2>1. CASE OpStep
    <3>1. ops' = ops + 1 /\ ops \in Nat
      BY <2>1 DEF OpStep, OpCreate, OpEdit, OpDestroy, OpClone, Meddle, TypeOK
    <3>2. QED
      BY <3>1
  <2>2. CASE \E b \in Builders : DestroyOld(b)
    <3>1. PICK b \in Builders : DestroyOld(b)
      BY <2>2
    <3>2. v = Row(b) /\ OnNode(v, Home[b]) /\ pc[b] = "destroy"
      BY <3>1 DEF DestroyOld, Goto, TypeOK
    <3>3. lock[vm[v].node] = b /\ prepared[b] = Rows(b)
      BY <3>2 DEF OnNode, RunInv, LockOf, PreparedOf, Live, Running, Replacing
    <3>4. v \in meddled[b] \/ (vm[v] = checked[b][v] /\ Replaceable(v, Home[b]))
      BY <3>2 DEF RunInv, WindowOf, Replaceable
    <3>5. QED
      BY <3>2, <3>3, <3>4, RowType
  <2>3. CASE \E b \in Builders : CleanupVm(b)
    <3>1. PICK b \in Builders : CleanupVm(b)
      BY <2>3
    <3>2. v = current[b] /\ OnNode(v, Home[b]) /\ pc[b] = "cleanup"
      BY <3>1 DEF CleanupVm, Goto, TypeOK, OnNode
    <3>3. lock[vm[v].node] = b /\ v = Row(b)
      BY <3>2, OtherAssumption DEF OnNode, RunInv, LockOf, CurrentOf, Live, Exiting
    <3>4. v \in meddled[b] \/ (vm[v].maker = b /\ vm[v].tag = "build")
      BY <3>2, OtherAssumption DEF RunInv, CleanupOf
    <3>5. QED
      BY <3>3, <3>4, RowType
  <2>4. CASE \E b \in Builders : StepOf(b) /\ ~DestroyOld(b) /\ ~CleanupVm(b)
    <3>1. PICK b \in Builders : StepOf(b) /\ ~DestroyOld(b) /\ ~CleanupVm(b)
      BY <2>4
    <3>2. CASE CreateVm(b)
      <4>1. vm' = [vm EXCEPT ![Row(b)] = NewVm(Row(b), Home[b], b)]
        BY <3>2 DEF CreateVm
      <4>2. NewVm(Row(b), Home[b], b) # None
        BY RowType, HomeAssumption, NewVmType
      <4>3. QED
        BY <4>1, <4>2 DEF TypeOK
    <3>3. CASE Configure(b) \/ Convert(b) \/ Finalise(b)
      BY <3>3, QmEdits
    <3>4. CASE vm' = vm
      BY <3>4
    <3>5. CASE Launch(b) \/ Crash(b) \/ Leave(b) \/ OpenManifest(b) \/ WriteEntry(b)
      BY <3>5, <3>4 DEF Launch, AcquireLock, LockBusy, PreflightFails, Crash, Leave, OpenManifest, WriteEntry, pveVars
    <3>6. CASE ReadInventory(b) \/ CheckRow(b) \/ Download(b) \/ PrepareRow(b)
               \/ Recheck(b) \/ RecheckClones(b) \/ Claim(b) \/ Record(b) \/ VerifyRow(b) \/ Backup(b)
               \/ Report(b) \/ Fail(b) \/ Signal(b) \/ InspectOnExit(b) \/ CleanupFails(b)
      BY <3>6, <3>4 DEF ReadInventory, CheckRow, Download, PrepareRow, Recheck, RecheckClones, Claim,
         Record, VerifyRow, Backup, Report, Fail, Signal, InspectOnExit, CleanupFails, pveVars
    <3>7. QED
      BY <3>1, <3>2, <3>3, <3>5, <3>6 DEF StepOf, Progress, OnExit
  <2>5. CASE UNCHANGED vars
    BY <2>5 DEF vars, pveVars
  <2>6. QED
    BY <2>1, <2>2, <2>3, <2>4, <2>5 DEF Next, StepOf
<1>2. QED
  BY <1>1

\* The engines destroy only checked old templates and their own leftovers.
THEOREM DestroySafety == Spec => DestroyOnlyCheckedOrOwn
<1>1. IInv /\ [Next]_vars => [\A v \in Vmids : Destroyed(v) => Justified(v)]_vars
  BY DestroyStep
<1>2. QED
  BY <1>1, Invariant, PTL DEF Spec, DestroyOnlyCheckedOrOwn, Destroyed, Justified

-----------------------------------------------------------------------------
(* What a run leaves behind when it has ended.                             *)

\* b works on the VM of its current row, or on_exit may destroy it.
Holding(b) ==
  \/ pc[b] \in {"claim"} \cup Building
  \/ pc[b] \in {"exit", "cleanup"} /\ current[b] # None

\* The VM that b holds was made by no other run: whoever else builds on this
\* node had the flock before b, and b created its VM after it got the flock.
HeldOf(b) ==
  Holding(b) /\ OnNode(Row(b), Home[b]) /\ vm[Row(b)].maker \in Builders =>
    vm[Row(b)].maker = b

\* VMIDs in which somebody else may have something by now.
TakenFrom(b) == meddled[b] \cup UNION {replaced[c] : c \in Builders}

\* What a successful run built stands, also when the run is over.
StandingOf(b) ==
  pc[b] = "succeeded" => \A v \in Rows(b) \ TakenFrom(b) : CompleteBy(v, b)

EndInv == IInv /\ \A b \in Builders : HeldOf(b) /\ StandingOf(b)

\* Somebody else's step gives no run a VM of another one.
LEMMA ForeignStepHeld ==
  ASSUME TypeOK, ForeignStep, NEW b \in Builders, HeldOf(b)
  PROVE  HeldOf(b)'
<1>1. UNCHANGED <<pc, runVars>> /\ Row(b)' = Row(b) /\ Row(b) \in Vmids
  BY RowType DEF ForeignStep, runVars, Row
<1>2. \/ vm'[Row(b)] = vm[Row(b)]
      \/ vm'[Row(b)] # None /\ vm'[Row(b)].maker \in Builders =>
           /\ vm[Row(b)] # None
           /\ vm'[Row(b)].maker = vm[Row(b)].maker
           /\ vm'[Row(b)].node = vm[Row(b)].node
  BY <1>1 DEF ForeignStep
<1>3. QED
  BY <1>1, <1>2 DEF HeldOf, Holding, OnNode, runVars

\* Another run's step changes nothing on the node of a live run.
LEMMA OtherStepHeld ==
  ASSUME TypeOK, NEW b \in Builders, NEW c \in Builders, b # c, StepOf(c),
         RunInv(b), RunInv(c), HeldOf(b)
  PROVE  HeldOf(b)'
<1>1. SameRun(b) /\ Row(b) \in Vmids
  BY OtherRunsSame, RowType
<1>2. Row(b)' = Row(b) /\ (Holding(b)' <=> Holding(b))
  BY <1>1 DEF SameRun, Row, Holding
<1>3. Holding(b) => pc[b] \in Live
  BY DEF Holding, Building, Live, Running, Exiting
<1>4. Holding(b) /\ vm'[Row(b)] # None /\ vm'[Row(b)].node = Home[b] => vm'[Row(b)] = vm[Row(b)]
  BY <1>1, <1>3, OtherStepFrame DEF RunInv, OnNode
<1>5. QED
  BY <1>2, <1>4 DEF HeldOf, OnNode

\* What a run holds, it created itself.
LEMMA OwnStepHeld ==
  ASSUME TypeOK, NEW b \in Builders, StepOf(b), RunInv(b), HeldOf(b)
  PROVE  HeldOf(b)'
<1> USE DEF Goto, Live, Running, Exiting, Ended, Building
<1>1. Row(b) \in Vmids /\ Home[b] \in Nodes
  BY RowType, HomeAssumption
<1>2. CASE CreateVm(b)
  <2>1. vm' = [vm EXCEPT ![Row(b)] = NewVm(Row(b), Home[b], b)] /\ pos' = pos
    BY <1>2 DEF CreateVm, runVars
  <2>2. NewVm(Row(b), Home[b], b).maker = b
    BY <1>1, NewVmType
  <2>3. QED
    BY <2>1, <2>2, <1>1 DEF HeldOf, Row, TypeOK
<1>3. CASE Configure(b) \/ Convert(b) \/ Finalise(b)
  <2>1. Holding(b) /\ OnNode(Row(b), Home[b]) /\ pos' = pos
    BY <1>3 DEF Configure, Convert, Finalise, QmEdit, Holding, runVars
  <2>2. vm'[Row(b)].maker = vm[Row(b)].maker
    BY <1>3, QmEdits
  <2>3. QED
    BY <2>1, <2>2 DEF HeldOf, Row
<1>4. CASE Claim(b)
  BY <1>4 DEF Claim, HeldOf, Holding, Row, OnNode, pveVars, TypeOK
<1>5. CASE Fail(b) \/ Signal(b)
  <2>1. current[b] # None => pc[b] \in Building
    BY <1>5 DEF Fail, Signal, RunInv, CurrentOf
  <2>2. QED
    BY <1>5, <2>1 DEF Fail, Signal, HeldOf, Holding, Row, OnNode, pveVars, runVars, TypeOK
<1>6. CASE InspectOnExit(b) \/ CleanupFails(b) \/ CleanupVm(b) \/ Leave(b)
  BY <1>6 DEF InspectOnExit, CleanupFails, CleanupVm, Leave, HeldOf, Holding, Row, OnNode,
     pveVars, runVars, TypeOK
<1>7. CASE Report(b)
  <2>1. current'[b] = None
    BY <1>7 DEF Report, RunInv, CurrentOf
  <2>2. QED
    BY <1>7, <2>1 DEF Report, HeldOf, Holding, TypeOK
<1>8. CASE Crash(b) \/ Launch(b)
  BY <1>8 DEF Crash, Launch, AcquireLock, LockBusy, PreflightFails, HeldOf, Holding, TypeOK
<1>9. CASE ReadInventory(b) \/ CheckRow(b) \/ Download(b) \/ PrepareRow(b) \/ Recheck(b)
           \/ RecheckClones(b) \/ DestroyOld(b) \/ Record(b) \/ VerifyRow(b) \/ Backup(b)
           \/ OpenManifest(b) \/ WriteEntry(b)
  <2>1. ~Holding(b)'
    BY <1>9 DEF ReadInventory, CheckRow, Download, PrepareRow, Recheck, RecheckClones,
       DestroyOld, Record, VerifyRow, Backup, OpenManifest, WriteEntry, NextRow,
       Holding, TypeOK
  <2>2. QED
    BY <2>1 DEF HeldOf
<1>10. QED
  BY <1>2, <1>3, <1>4, <1>5, <1>6, <1>7, <1>8, <1>9 DEF StepOf, Progress, OnExit

\* A run that has ended takes no step.
LEMMA EndedIsOver ==
  ASSUME NEW b \in Builders, pc[b] \in Ended
  PROVE  ~StepOf(b)
BY DEF StepOf, Launch, AcquireLock, LockBusy, PreflightFails, Progress, ReadInventory, CheckRow,
   Download, PrepareRow, Recheck, RecheckClones, DestroyOld, CreateVm, Claim, Configure, Convert,
   Finalise, Record, VerifyRow, Backup, OpenManifest, WriteEntry, Report, Fail, Signal, Crash,
   OnExit, InspectOnExit, CleanupVm, CleanupFails, Leave, NextRow, Goto, Live, Running, Exiting,
   Ended

\* A run's step completes or spoils no template of another run, other than by
\* replacing it.
LEMMA OtherStepComplete ==
  ASSUME TypeOK, NEW b \in Builders, NEW c \in Builders, b # c, StepOf(c),
         RunInv(c), HeldOf(c), NEW v \in Vmids, v \notin replaced'[c]
  PROVE  CompleteBy(v, b)' <=> CompleteBy(v, b)
<1> USE DEF CompleteBy, OnNode
<1>1. Row(c) \in Vmids /\ Home[c] \in Nodes
  BY RowType, HomeAssumption
<1>2. CASE vm'[v] = vm[v]
  BY <1>2
<1>3. CASE CreateVm(c)
  <2>1. /\ vm[Row(c)] = None
        /\ vm' = [vm EXCEPT ![Row(c)] = NewVm(Row(c), Home[c], c)]
    BY <1>3 DEF CreateVm
  <2>2. NewVm(Row(c), Home[c], c).maker = c
    BY <1>1, NewVmType
  <2>3. QED
    BY <2>1, <2>2, <1>1 DEF TypeOK
<1>4. CASE Configure(c) \/ Convert(c) \/ Finalise(c)
  <2>1. Holding(c) /\ vm[Row(c)] # None /\ vm[Row(c)].node = Home[c]
    BY <1>4 DEF Configure, Convert, Finalise, QmEdit, Goto, Holding, Building
  <2>2. vm[Row(c)].maker # b /\ vm'[Row(c)].maker = vm[Row(c)].maker
    BY <2>1, <1>4, QmEdits DEF HeldOf
  <2>3. QED
    BY <2>2, <1>4, QmEdits
<1>5. CASE DestroyOld(c)
  BY <1>1, <1>5 DEF DestroyOld, TypeOK
<1>6. CASE CleanupVm(c)
  <2>1. /\ current[c] # None /\ pc[c] = "cleanup" /\ current[c] = Row(c)
        /\ vm[Row(c)] # None /\ vm[Row(c)].node = Home[c]
    BY <1>6 DEF CleanupVm, Goto, RunInv, CurrentOf, CleanupOf
  <2>2. vm[Row(c)].maker # b
    BY <2>1 DEF HeldOf, Holding
  <2>3. vm' = [vm EXCEPT ![Row(c)] = None]
    BY <1>6, <2>1 DEF CleanupVm
  <2>4. QED
    BY <1>1, <2>2, <2>3 DEF TypeOK
<1>7. CASE ~(CreateVm(c) \/ Configure(c) \/ Convert(c) \/ Finalise(c) \/ DestroyOld(c)
              \/ CleanupVm(c))
  <2>1. vm' = vm
    BY <1>7 DEF StepOf, Launch, AcquireLock, LockBusy, PreflightFails, Progress, ReadInventory,
       CheckRow, Download, PrepareRow, Recheck, RecheckClones, Claim, Record, VerifyRow, Backup,
       OpenManifest, WriteEntry, Report, Fail, Signal, Crash, OnExit, InspectOnExit,
       CleanupFails, Leave, pveVars
  <2>2. QED
    BY <1>2, <2>1
<1>8. QED
  BY <1>3, <1>4, <1>5, <1>6, <1>7

\* `replaced' only grows.
LEMMA ReplacedGrows ==
  ASSUME TypeOK, NEW c \in Builders, StepOf(c)
  PROVE  \A d \in Builders : replaced[d] \subseteq replaced'[d]
<1> USE DEF pveVars, runVars, historyVars, TypeOK
<1>1. CASE DestroyOld(c)
  BY <1>1 DEF DestroyOld
<1>2. CASE ~DestroyOld(c)
  BY <1>2 DEF StepOf, Launch, AcquireLock, LockBusy, PreflightFails, Progress, ReadInventory,
     CheckRow, Download, PrepareRow, Recheck, RecheckClones, CreateVm, Claim, Configure,
     Convert, Finalise, QmEdit, Record, VerifyRow, Backup, OpenManifest, WriteEntry, Report,
     Fail, Signal, Crash, OnExit, InspectOnExit, CleanupVm, CleanupFails, Leave
<1>3. QED
  BY <1>1, <1>2

\* Once a run has ended it stays so, and whether a VM is a complete template of
\* that run changes only by a step that is seen as somebody else's.
LEMMA EndedStays ==
  ASSUME EndInv, [Next]_vars, NEW b \in Builders, pc[b] \in Ended
  PROVE  /\ pc'[b] = pc[b]
         /\ TakenFrom(b) \subseteq TakenFrom(b)'
         /\ \A v \in Vmids : v \notin TakenFrom(b)' => (CompleteBy(v, b)' <=> CompleteBy(v, b))
<1>1. TypeOK /\ \A c \in Builders : RunInv(c) /\ HeldOf(c)
  BY DEF EndInv, IInv
<1>2. ASSUME NEW c \in Builders, StepOf(c)
      PROVE  /\ pc'[b] = pc[b]
             /\ TakenFrom(b) \subseteq TakenFrom(b)'
             /\ \A v \in Vmids : v \notin TakenFrom(b)' =>
                                   (CompleteBy(v, b)' <=> CompleteBy(v, b))
  <2>1. b # c
    BY <1>2, EndedIsOver
  <2>2. pc'[b] = pc[b] /\ meddled'[b] = meddled[b]
    BY <1>1, <1>2, <2>1, OtherRunsSame DEF SameRun
  <2>3. \A d \in Builders : replaced[d] \subseteq replaced'[d]
    BY <1>1, <1>2, ReplacedGrows
  <2>4. \A v \in Vmids : v \notin TakenFrom(b)' => v \notin replaced'[c]
    BY DEF TakenFrom
  <2>5. QED
    BY <1>1, <1>2, <2>1, <2>2, <2>3, <2>4, OtherStepComplete DEF TakenFrom
<1>3. CASE OpStep
  <2>1. ForeignStep
    BY <1>1, <1>3, OpStepFrame
  <2>2. UNCHANGED <<pc, replaced>>
    BY <2>1 DEF ForeignStep
  <2>3. PICK v \in Vmids : /\ meddled' = [c \in Builders |-> meddled[c] \cup {v}]
                           /\ \A w \in Vmids \ {v} : vm'[w] = vm[w]
    BY <2>1 DEF ForeignStep
  <2>4. QED
    BY <2>2, <2>3 DEF TakenFrom, CompleteBy, OnNode
<1>4. CASE UNCHANGED vars
  BY <1>4 DEF vars, pveVars, historyVars, TakenFrom, CompleteBy, OnNode
<1>5. QED
  BY <1>2, <1>3, <1>4 DEF Next, StepOf

\* What a run built stands when it returns, and until others take it.
LEMMA StandingStep ==
  ASSUME EndInv, [Next]_vars, NEW b \in Builders
  PROVE  StandingOf(b)'
<1> SUFFICES ASSUME pc'[b] = "succeeded", NEW v \in Rows(b) \ TakenFrom(b)'
             PROVE  CompleteBy(v, b)'
  BY DEF StandingOf, Rows
<1>1. TypeOK /\ RunInv(b) /\ StandingOf(b) /\ v \in Vmids
  BY RowType DEF EndInv, IInv
<1>2. CASE pc[b] \in Ended
  <2>1. pc[b] = "succeeded" /\ v \notin TakenFrom(b) /\ (CompleteBy(v, b)' <=> CompleteBy(v, b))
    BY <1>1, <1>2, EndedStays
  <2>2. QED
    BY <1>1, <2>1 DEF StandingOf
<1>3. CASE pc[b] \notin Ended
  <2>1. pc'[b] # pc[b]
    BY <1>3 DEF Ended
  <2>2. PICK c \in Builders : StepOf(c)
    <3>1. ~OpStep
      BY <1>1, <2>1, OpStepFrame DEF ForeignStep
    <3>2. ~UNCHANGED vars
      BY <2>1 DEF vars
    <3>3. QED
      BY <3>1, <3>2 DEF Next, StepOf
  <2>3. c = b
    BY <1>1, <2>1, <2>2, OtherRunsSame DEF SameRun
  <2>4. Leave(b)
    BY <1>1, <2>2, <2>3 DEF StepOf, Launch, AcquireLock, LockBusy, PreflightFails, Progress,
       ReadInventory, CheckRow, Download, PrepareRow, Recheck, RecheckClones, DestroyOld,
       CreateVm, Claim, Configure, Convert, Finalise, Record, VerifyRow, Backup, OpenManifest,
       WriteEntry, Report, Fail, Signal, Crash, OnExit, InspectOnExit, CleanupVm,
       CleanupFails, NextRow, Goto, TypeOK
  <2>5. pc[b] \in Live /\ ok[b] /\ UNCHANGED <<vm, meddled>>
    BY <1>1, <2>4 DEF Leave, Goto, Live, Exiting, pveVars, historyVars, TypeOK
  <2>6. v \in created[b] \ meddled[b]
    BY <1>1, <2>5 DEF RunInv, CreatedOf, TakenFrom
  <2>7. CompleteBy(v, b)
    BY <1>1, <2>5, <2>6 DEF RunInv, KeptOf
  <2>8. QED
    BY <2>5, <2>7 DEF CompleteBy, OnNode
<1>4. QED
  BY <1>2, <1>3

LEMMA EndInvariant == Spec => []EndInv
<1>1. Init => EndInv
  <2>1. Init => IInv
    BY InitType, InitRun DEF IInv
  <2>2. ASSUME Init, NEW b \in Builders
        PROVE  HeldOf(b) /\ StandingOf(b)
    BY <2>2 DEF Init, HeldOf, Holding, Building, StandingOf
  <2>3. QED
    BY <2>1, <2>2 DEF EndInv
<1>2. ASSUME EndInv, [Next]_vars
      PROVE  EndInv'
  <2>1. IInv' /\ TypeOK /\ \A b \in Builders : RunInv(b) /\ HeldOf(b)
    BY <1>2, NextInvariant DEF EndInv, IInv
  <2>2. ASSUME NEW b \in Builders
        PROVE  HeldOf(b)'
    <3>1. ASSUME NEW c \in Builders, StepOf(c)
          PROVE  HeldOf(b)'
      BY <2>1, <3>1, OtherStepHeld, OwnStepHeld
    <3>2. CASE OpStep
      BY <2>1, <3>2, OpStepFrame, ForeignStepHeld
    <3>3. CASE UNCHANGED vars
      BY <2>1, <3>3 DEF vars, pveVars, runVars, HeldOf, Holding, OnNode, Row
    <3>4. QED
      BY <1>2, <3>1, <3>2, <3>3 DEF Next, StepOf
  <2>3. \A b \in Builders : StandingOf(b)'
    BY <1>2, StandingStep
  <2>4. QED
    BY <2>1, <2>2, <2>3 DEF EndInv
<1>3. QED
  BY <1>1, <1>2, PTL DEF Spec

\* What a successful run built stands, though its lock is gone, until an
\* administrator or a run with --replace takes the VMID: no other run's
\* cleanup and no other run's row in progress ever touches it.
THEOREM SuccessLasts == Spec => [](\A b \in Builders : StandingOf(b))
<1>1. EndInv => \A b \in Builders : StandingOf(b)
  BY DEF EndInv
<1>2. QED
  BY <1>1, EndInvariant, PTL

-----------------------------------------------------------------------------
(* How long a run can be, and who has the flock: what EveryRunEnds and     *)
(* LockIsReleased rest on beside fairness.                                 *)

\* The steps create_template still takes for the current row.
RowStepsLeft(state) ==
  CASE state = "recheck"   -> 8 [] state = "clones"    -> 7 [] state = "destroy" -> 6
    [] state = "create"    -> 5 [] state = "claim"     -> 4 [] state = "configure" -> 3
    [] state = "convert"   -> 2 [] state = "finalise"  -> 1 [] OTHER -> 0

\* The steps a run still takes at most that is at row p of n: four loops have
\* one step per row and one has nine, and what lies before, between and after.
Remaining(state, p, n) ==
  CASE state = "idle"      -> 13 * n + 9
    [] state = "inventory" -> 13 * n + 8
    [] state = "check"     -> 12 * n + 8 + (n - p)
    [] state = "download"  -> 12 * n + 7
    [] state = "prepare"   -> 11 * n + 7 + (n - p)
    [] state \in Replacing -> 2 * n + 7 + 9 * (n - p) + RowStepsLeft(state)
    [] state = "verify"    -> n + 7 + (n - p)
    [] state = "backup"    -> n + 6
    [] state = "manifest"  -> n + 5
    [] state = "entries"   -> 5 + (n - p)
    [] state = "report"    -> 4
    [] state = "exit"      -> 3
    [] state = "cleanup"   -> 2
    [] state = "leave"     -> 1
    [] OTHER               -> 0

StepsLeft(b) == Remaining(pc[b], pos[b], Len(Selection[b]))

\* Own steps of b bring it nearer to its end; nobody sends it back.
Forward(b) ==
  /\ StepsLeft(b)' <= StepsLeft(b)
  /\ StepOf(b) => StepsLeft(b)' < StepsLeft(b)

\* Where a step leads from a row, other than to the next one.
Successor(from, to) ==
  \/ from = "idle" /\ to \in {"inventory", "failed"}
  \/ from = "inventory" /\ to = "check"
  \/ from = "recheck" /\ to \in {"clones", "create"}
  \/ from = "clones" /\ to = "destroy"
  \/ from = "destroy" /\ to = "create"
  \/ from = "create" /\ to = "claim"
  \/ from = "claim" /\ to = "configure"
  \/ from = "configure" /\ to = "convert"
  \/ from = "convert" /\ to = "finalise"
  \/ from = "finalise" /\ to = "record"
  \/ from = "backup" /\ to = "manifest"
  \/ from = "manifest" /\ to = "entries"
  \/ from \in Running /\ to = "exit"
  \/ from \in Live /\ to = "crashed"
  \/ from = "exit" /\ to \in {"cleanup", "leave"}
  \/ from = "cleanup" /\ to = "leave"
  \/ from = "leave" /\ to \in {"succeeded", "failed"}

LEMMA RowStepsLeftType ==
  ASSUME NEW state
  PROVE  RowStepsLeft(state) \in 0..8
  BY DEF RowStepsLeft

LEMMA RemainingType ==
  ASSUME NEW n \in Nat, NEW p \in 1..n, NEW state
  PROVE  Remaining(state, p, n) \in 0..(13 * n + 9)
<1>1. CASE state \in Replacing
  <2>1. Remaining(state, p, n) = 2 * n + 7 + 9 * (n - p) + RowStepsLeft(state)
    BY <1>1 DEF Remaining, Replacing, Building
  <2> QED
    BY <2>1, RowStepsLeftType
<1>2. CASE state \in {"check", "prepare", "verify", "entries"}
  <2>1. n - p \in 0..n
    OBVIOUS
  <2>2. /\ Remaining("check", p, n) = 12 * n + 8 + (n - p)
        /\ Remaining("prepare", p, n) = 11 * n + 7 + (n - p)
        /\ Remaining("verify", p, n) = n + 7 + (n - p)
        /\ Remaining("entries", p, n) = 5 + (n - p)
    BY DEF Remaining, Replacing, Building
  <2>3. n \in Nat \ {0} /\ n - p < n
    OBVIOUS
  <2> QED
    BY <1>2, <2>1, <2>2, <2>3
<1>3. CASE state \notin Replacing \cup {"check", "prepare", "verify", "entries"}
  <2>1. \/ \E k \in {<<13, 9>>, <<13, 8>>, <<12, 7>>, <<1, 6>>, <<1, 5>>} :
             Remaining(state, p, n) = k[1] * n + k[2]
        \/ Remaining(state, p, n) \in 0..4
    BY <1>3 DEF Remaining
  <2> QED
    BY <2>1
<1> QED
  BY <1>1, <1>2, <1>3

LEMMA SuccessorIsNearer ==
  ASSUME NEW n \in Nat, NEW p \in 1..n, NEW from, NEW to, Successor(from, to)
  PROVE  Remaining(to, p, n) < Remaining(from, p, n)
<1> USE DEF Replacing, Building
<1>1. CASE from \in Replacing /\ to \in Replacing
  <2>1. RowStepsLeft(to) < RowStepsLeft(from)
    BY <1>1 DEF Successor, RowStepsLeft
  <2>2. /\ Remaining(from, p, n) = 2 * n + 7 + 9 * (n - p) + RowStepsLeft(from)
        /\ Remaining(to, p, n) = 2 * n + 7 + 9 * (n - p) + RowStepsLeft(to)
    BY <1>1 DEF Remaining
  <2>3. RowStepsLeft(from) \in 0..8 /\ RowStepsLeft(to) \in 0..8
    BY RowStepsLeftType
  <2> QED
    BY <2>1, <2>2, <2>3
<1>2. CASE from \in Replacing /\ to \notin Replacing
  <2>0. to \in {"exit", "crashed"}
    BY <1>2 DEF Successor
  <2>1. Remaining(to, p, n) <= 3 /\ Remaining(to, p, n) \in Nat
    <3>1. Remaining("exit", p, n) = 3 /\ Remaining("crashed", p, n) = 0
      BY DEF Remaining
    <3> QED
      BY <2>0, <3>1
  <2>2. Remaining(from, p, n) = 2 * n + 7 + 9 * (n - p) + RowStepsLeft(from)
    BY <1>2 DEF Remaining
  <2>3. RowStepsLeft(from) \in 0..8
    BY RowStepsLeftType
  <2> QED
    BY <2>1, <2>2, <2>3
<1>3. CASE from \notin Replacing
  BY <1>3 DEF Successor, Remaining, Live, Running, Exiting
<1> QED
  BY <1>1, <1>2, <1>3

\* A turn of a loop, or its end.
LEMMA TurnIsNearer ==
  ASSUME NEW n \in Nat, NEW p \in 1..n
  PROVE  /\ p < n => /\ Remaining("check", p + 1, n) < Remaining("check", p, n)
                     /\ Remaining("prepare", p + 1, n) < Remaining("prepare", p, n)
                     /\ Remaining("recheck", p + 1, n) < Remaining("record", p, n)
                     /\ Remaining("verify", p + 1, n) < Remaining("verify", p, n)
                     /\ Remaining("entries", p + 1, n) < Remaining("entries", p, n)
         /\ Remaining("download", 1, n) < Remaining("check", n, n)
         /\ Remaining("prepare", 1, n) < Remaining("download", p, n)
         /\ Remaining("recheck", 1, n) < Remaining("prepare", n, n)
         /\ Remaining("verify", 1, n) < Remaining("record", n, n)
         /\ Remaining("backup", 1, n) < Remaining("verify", n, n)
         /\ Remaining("report", 1, n) < Remaining("entries", n, n)
<1>1. RowStepsLeft("recheck") = 8 /\ RowStepsLeft("record") = 0
  BY DEF RowStepsLeft
<1>2. ASSUME NEW q
      PROVE  /\ Remaining("check", q, n) = 12 * n + 8 + (n - q)
             /\ Remaining("download", q, n) = 12 * n + 7
             /\ Remaining("prepare", q, n) = 11 * n + 7 + (n - q)
             /\ Remaining("recheck", q, n) = 2 * n + 7 + 9 * (n - q) + 8
             /\ Remaining("record", q, n) = 2 * n + 7 + 9 * (n - q) + 0
             /\ Remaining("verify", q, n) = n + 7 + (n - q)
             /\ Remaining("backup", q, n) = n + 6
             /\ Remaining("entries", q, n) = 5 + (n - q)
             /\ Remaining("report", q, n) = 4
  BY <1>1 DEF Remaining, Replacing, Building
<1>3. /\ Remaining("download", 1, n) < Remaining("check", n, n)
      /\ Remaining("prepare", 1, n) < Remaining("download", p, n)
      /\ Remaining("recheck", 1, n) < Remaining("prepare", n, n)
      /\ Remaining("verify", 1, n) < Remaining("record", n, n)
      /\ Remaining("backup", 1, n) < Remaining("verify", n, n)
      /\ Remaining("report", 1, n) < Remaining("entries", n, n)
  BY <1>2
<1>4. ASSUME p < n
      PROVE  /\ Remaining("check", p + 1, n) < Remaining("check", p, n)
             /\ Remaining("prepare", p + 1, n) < Remaining("prepare", p, n)
             /\ Remaining("recheck", p + 1, n) < Remaining("record", p, n)
             /\ Remaining("verify", p + 1, n) < Remaining("verify", p, n)
             /\ Remaining("entries", p + 1, n) < Remaining("entries", p, n)
  BY <1>2, <1>4
<1> QED
  BY <1>3, <1>4

LEMMA StepForward ==
  ASSUME TypeOK, NEW b \in Builders, pos'[b] = pos[b], Successor(pc[b], pc'[b])
  PROVE  StepsLeft(b)' < StepsLeft(b)
<1>1. Len(Selection[b]) \in Nat /\ pos[b] \in 1..Len(Selection[b])
  BY SelectionAssumption DEF TypeOK
<1> QED
  BY <1>1, SuccessorIsNearer DEF StepsLeft

LEMMA LoopForward ==
  ASSUME TypeOK, NEW b \in Builders,
         \/ NextRow(b, "check", "check", "download")
         \/ NextRow(b, "prepare", "prepare", "recheck")
         \/ NextRow(b, "record", "recheck", "verify")
         \/ NextRow(b, "verify", "verify", "backup")
         \/ NextRow(b, "entries", "entries", "report")
  PROVE  StepsLeft(b)' < StepsLeft(b)
<1>1. Len(Selection[b]) \in Nat /\ pos[b] \in 1..Len(Selection[b])
  BY SelectionAssumption DEF TypeOK
<1>2. ASSUME NEW from, NEW again, NEW after, NextRow(b, from, again, after)
      PROVE  /\ pc[b] = from
             /\ \/ pos[b] = Len(Selection[b]) /\ pos'[b] = 1 /\ pc'[b] = after
                \/ pos[b] < Len(Selection[b]) /\ pos'[b] = pos[b] + 1 /\ pc'[b] = again
  BY <1>1, <1>2 DEF NextRow, LastRow, Goto, TypeOK
<1>3. CASE NextRow(b, "check", "check", "download")
  BY <1>1, <1>2, <1>3, TurnIsNearer DEF StepsLeft
<1>4. CASE NextRow(b, "prepare", "prepare", "recheck")
  BY <1>1, <1>2, <1>4, TurnIsNearer DEF StepsLeft
<1>5. CASE NextRow(b, "record", "recheck", "verify")
  BY <1>1, <1>2, <1>5, TurnIsNearer DEF StepsLeft
<1>6. CASE NextRow(b, "verify", "verify", "backup")
  BY <1>1, <1>2, <1>6, TurnIsNearer DEF StepsLeft
<1>7. CASE NextRow(b, "entries", "entries", "report")
  BY <1>1, <1>2, <1>7, TurnIsNearer DEF StepsLeft
<1> QED
  BY <1>3, <1>4, <1>5, <1>6, <1>7

LEMMA OwnStepForward ==
  ASSUME TypeOK, NEW b \in Builders, StartOf(b), StepOf(b)
  PROVE  StepsLeft(b)' < StepsLeft(b)
<1> USE DEF Successor, Goto, runVars
<1>1. CASE CheckRow(b) \/ PrepareRow(b) \/ Record(b) \/ VerifyRow(b) \/ WriteEntry(b)
  BY <1>1, LoopForward DEF CheckRow, PrepareRow, Record, VerifyRow, WriteEntry
<1>2. CASE Launch(b)
  BY <1>2, StepForward DEF Launch, AcquireLock, LockBusy, PreflightFails, TypeOK
<1>3. CASE ReadInventory(b)
  BY <1>3, StepForward DEF ReadInventory, TypeOK
<1>4. CASE Download(b)
  <2>1. Len(Selection[b]) \in Nat /\ pos[b] \in 1..Len(Selection[b])
    BY SelectionAssumption DEF TypeOK
  <2>2. pos[b] = 1 /\ pos'[b] = 1 /\ pc[b] = "download" /\ pc'[b] = "prepare"
    BY <1>4 DEF Download, StartOf, TypeOK
  <2> QED
    BY <2>1, <2>2, TurnIsNearer DEF StepsLeft
<1>5. CASE Recheck(b) \/ RecheckClones(b) \/ DestroyOld(b) \/ CreateVm(b) \/ Claim(b)
  <2>1. pos'[b] = pos[b]
    BY <1>5 DEF Recheck, RecheckClones, DestroyOld, CreateVm, Claim
  <2>2. Successor(pc[b], pc'[b])
    BY <1>5 DEF Recheck, RecheckClones, DestroyOld, CreateVm, Claim, TypeOK
  <2> QED
    BY <2>1, <2>2, StepForward
<1>6. CASE Configure(b) \/ Convert(b) \/ Finalise(b)
  <2>1. pos'[b] = pos[b]
    BY <1>6 DEF Configure, Convert, Finalise
  <2>2. Successor(pc[b], pc'[b])
    BY <1>6 DEF Configure, Convert, Finalise, TypeOK
  <2> QED
    BY <2>1, <2>2, StepForward
<1>7. CASE Backup(b) \/ OpenManifest(b) \/ Report(b)
  <2>1. pos'[b] = pos[b]
    BY <1>7 DEF Backup, OpenManifest, Report
  <2>2. Successor(pc[b], pc'[b])
    BY <1>7 DEF Backup, OpenManifest, Report, Running, TypeOK
  <2> QED
    BY <2>1, <2>2, StepForward
<1>8. CASE Fail(b) \/ Signal(b) \/ Crash(b)
  BY <1>8, StepForward DEF Fail, Signal, Crash, TypeOK
<1>9. CASE OnExit(b)
  <2>1. pos'[b] = pos[b]
    BY <1>9 DEF OnExit, InspectOnExit, CleanupVm, CleanupFails, Leave
  <2>2. Successor(pc[b], pc'[b])
    BY <1>9 DEF OnExit, InspectOnExit, CleanupVm, CleanupFails, Leave, TypeOK
  <2> QED
    BY <2>1, <2>2, StepForward
<1> QED
  BY <1>1, <1>2, <1>3, <1>4, <1>5, <1>6, <1>7, <1>8, <1>9 DEF StepOf, Progress

\* No run takes more than 13 steps per row and 9 more, whatever fails and
\* whoever interferes: none of its loops starts over or waits for another run.
THEOREM RunsAreBounded ==
  Spec => /\ [](\A b \in Builders : StepsLeft(b) \in 0..(13 * Len(Selection[b]) + 9))
          /\ [][\A b \in Builders : Forward(b)]_vars
<1>1. IInv => \A b \in Builders : StepsLeft(b) \in 0..(13 * Len(Selection[b]) + 9)
  <2> SUFFICES ASSUME IInv, NEW b \in Builders
               PROVE  StepsLeft(b) \in 0..(13 * Len(Selection[b]) + 9)
    OBVIOUS
  <2>1. Len(Selection[b]) \in Nat /\ pos[b] \in 1..Len(Selection[b])
    BY SelectionAssumption DEF IInv, TypeOK
  <2> QED
    BY <2>1, RemainingType DEF StepsLeft
<1>2. IInv /\ [Next]_vars => [\A b \in Builders : Forward(b)]_vars
  <2> SUFFICES ASSUME IInv, Next, NEW b \in Builders
               PROVE  Forward(b)
    OBVIOUS
  <2>1. StepsLeft(b) \in Nat
    BY <1>1, SelectionAssumption
  <2>2. ASSUME pc'[b] = pc[b], pos'[b] = pos[b]
        PROVE  StepsLeft(b)' = StepsLeft(b)
    BY <2>2 DEF StepsLeft
  <2>3. CASE StepOf(b)
    <3>1. StepsLeft(b)' < StepsLeft(b)
      BY <2>3, OwnStepForward DEF IInv, RunInv
    <3>2. Len(Selection[b]) \in Nat /\ pos'[b] \in 1..Len(Selection[b])
      BY NextInvariant, SelectionAssumption DEF IInv, TypeOK
    <3>3. StepsLeft(b)' \in Nat
      BY <3>2, RemainingType DEF StepsLeft
    <3> QED
      BY <2>1, <3>1, <3>3 DEF Forward
  <2>4. CASE ~StepOf(b)
    <3>1. ASSUME NEW c \in Builders, StepOf(c)
          PROVE  pc'[b] = pc[b] /\ pos'[b] = pos[b]
      BY <2>4, <3>1, OtherRunsSame DEF IInv, SameRun
    <3>2. ASSUME OpStep
          PROVE  pc'[b] = pc[b] /\ pos'[b] = pos[b]
      BY <3>2 DEF OpStep, OpCreate, OpEdit, OpDestroy, OpClone, Meddle, runVars
    <3>3. StepsLeft(b)' = StepsLeft(b)
      BY <2>2, <3>1, <3>2 DEF Next, StepOf
    <3> QED
      BY <2>1, <2>4, <3>3 DEF Forward
  <2> QED
    BY <2>3, <2>4
<1> QED
  BY <1>1, <1>2, Invariant, PTL DEF Spec

\* The run that has the flock of a node is there and has not ended.
HeldByLive ==
  \A n \in Nodes :
    lock[n] # None => Home[lock[n]] = n /\ pc[lock[n]] \in Live

LEMMA FlockStep ==
  ASSUME IInv, HeldByLive, NEW c \in Builders, StepOf(c)
  PROVE  HeldByLive'
<1>1. /\ Home[c] \in Nodes /\ c # None
      /\ lock \in [Nodes -> Builders \cup {None}]
      /\ pc \in [Builders -> {"idle"} \cup Live \cup Ended]
  BY HomeAssumption, OtherAssumption DEF IInv, TypeOK
<1>2. \A n \in Nodes : lock[n] # None =>
        lock[n] \in Builders /\ Home[lock[n]] = n /\ pc[lock[n]] \in Live
  BY <1>1 DEF HeldByLive
<1>3. \A d \in Builders \ {c} : pc'[d] = pc[d]
  BY OtherRunsSame DEF SameRun, IInv
<1>4. CASE AcquireLock(c)
  <2>1. lock' = [lock EXCEPT ![Home[c]] = c] /\ pc'[c] \in Live
    BY <1>1, <1>4 DEF AcquireLock, Goto, Live, Running
  <2> QED
    BY <2>1, <1>1, <1>2, <1>3 DEF HeldByLive
<1>5. CASE LockBusy(c) \/ PreflightFails(c)
  <2>1. lock' = lock /\ pc[c] \notin Live
    BY <1>5 DEF LockBusy, PreflightFails, Goto, Live, Running, Exiting
  <2> QED
    BY <2>1, <1>2, <1>3 DEF HeldByLive
<1>6. CASE Crash(c) \/ Leave(c)
  <2>1. lock' = [lock EXCEPT ![Home[c]] = None] /\ lock[Home[c]] = c
    BY <1>6 DEF Crash, Leave, Goto, IInv, RunInv, LockOf, Live, Exiting
  <2> QED
    BY <2>1, <1>1, <1>2, <1>3 DEF HeldByLive
<1>7. CASE Progress(c) \/ Fail(c) \/ Signal(c) \/ InspectOnExit(c) \/ CleanupVm(c)
             \/ CleanupFails(c)
  <2>1. lock' = lock /\ pc'[c] \in Live
    BY <1>1, <1>7 DEF Progress, Fail, Signal, InspectOnExit, CleanupVm, CleanupFails,
       ReadInventory, CheckRow, Download, PrepareRow, Recheck, RecheckClones, DestroyOld,
       CreateVm, Claim, Configure, Convert, Finalise, QmEdit, Record, VerifyRow, Backup,
       OpenManifest, WriteEntry, Report, NextRow, Goto, Live, Running, Exiting
  <2> QED
    BY <2>1, <1>2, <1>3 DEF HeldByLive
<1> QED
  BY <1>4, <1>5, <1>6, <1>7 DEF StepOf, Launch, OnExit

\* An ended run, killed ones included, keeps no node locked.
THEOREM FlockBelongsToLive == Spec => []HeldByLive
<1>1. Init => HeldByLive
  BY DEF Init, HeldByLive
<1>2. IInv /\ HeldByLive /\ [Next]_vars => HeldByLive'
  <2> SUFFICES ASSUME IInv, HeldByLive, [Next]_vars
               PROVE  HeldByLive'
    OBVIOUS
  <2>1. ASSUME NEW c \in Builders, StepOf(c)
        PROVE  HeldByLive'
    BY <2>1, FlockStep
  <2>2. CASE OpStep \/ UNCHANGED vars
    BY <2>2 DEF OpStep, OpCreate, OpEdit, OpDestroy, OpClone, Meddle, vars, HeldByLive
  <2> QED
    BY <2>1, <2>2 DEF Next, StepOf
<1> QED
  BY <1>1, <1>2, Invariant, PTL DEF Spec
=============================================================================

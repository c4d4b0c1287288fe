----------------------- MODULE AgentBootstrap_proofs -----------------------
(***************************************************************************)
(* Proofs about AgentBootstrap.  The composition of helpers, engines and   *)
(* PVE is still the engine's specification to whoever looks at the engine  *)
(* only, so what TemplateEngine_proofs establishes holds of it too.        *)
(***************************************************************************)
EXTENDS AgentBootstrap, TemplateEngine_proofs

\* A step of the composition is a step of the engine's specification or
\* leaves everything the engine's specification speaks of as it was.
LEMMA StepOfEngine ==
  ASSUME AgentNext
  PROVE  [Next]_vars
<1>1. CASE \E a \in Agents : Helper(a)
  BY <1>1 DEF Helper, PlanBlocked, PlanError, StartBuilder, BuilderEnded, ReadVolume,
     ReadVolumeError, Judge, ListBefore, StartBackup, BackupOk, ListAfter, BackupError
<1>2. CASE \E a \in Agents : Killed(a) \/ TaskEnds(a)
  BY <1>2 DEF Killed, TaskEnds
<1>3. CASE (\E v \in Vmids : ForeignBackup(v)) \/ (\E x \in volumes : Prune(x))
  BY <1>3 DEF ForeignBackup, Prune
<1>4. CASE \E b \in Builders : Start(b) \/ Continue(b) \/ Stop(b)
  BY <1>4 DEF Start, Continue, Stop, Next
<1>5. CASE OpStep
  BY <1>5 DEF Next
<1>6. QED
  BY <1>1, <1>2, <1>3, <1>4, <1>5 DEF AgentNext

\* The engine's specification is implemented by the composition: neither the
\* helper, nor retention, nor a backup task makes a move the engine's own
\* environment could not make.
THEOREM EngineUnderneath == AgentSpec => Spec
<1>1. Init /\ AgentInit => Init
  OBVIOUS
<1>2. [AgentNext]_allVars => [Next]_vars
  BY StepOfEngine DEF allVars
<1>3. QED
  BY <1>1, <1>2, PTL DEF AgentSpec, Spec

\* Seen through the composition: what a live engine has created stays as it
\* created it, whatever helpers and other engines do.
THEOREM IsolationUnderneath == AgentSpec => []CreatedStillThere
BY EngineUnderneath, Isolation, PTL

\* Seen through the composition: an engine that returns success has built all
\* it was asked for and left a manifest of just that, unless an engine on
\* another node wrote to the same file.
THEOREM SuccessUnderneath == AgentSpec => []SuccessMeansBuilt
BY EngineUnderneath, SuccessSoundness, PTL

-----------------------------------------------------------------------------
(* Types.                                                                  *)

LEMMA ItemType ==
  ASSUME NEW a \in Agents, AgentTypeOK
  PROVE  /\ a \in Builders /\ Len(Selection[a]) \in Nat /\ Item(a) \in Rows(a)
         /\ Rows(a) \subseteq Vmids
         /\ ~LastItem(a) => arow[a] + 1 \in 1..Len(Selection[a])
         /\ 1 \in 1..Len(Selection[a])
<1>1. a \in Builders /\ Selection[a] \in Seq(Vmids) /\ Len(Selection[a]) > 0
  BY AgentAssumption, SelectionAssumption
<1>2. arow[a] \in 1..Len(Selection[a])
  BY DEF AgentTypeOK, PositionOK
<1>3. Item(a) \in Rows(a) /\ Rows(a) \subseteq Vmids
  BY <1>1, <1>2 DEF Item, Rows
<1>4. QED
  BY <1>1, <1>2, <1>3 DEF LastItem

LEMMA AgentInitType == AgentInit => AgentTypeOK
<1>1. \A a \in Agents : 1 \in 1..Len(Selection[a])
  BY AgentAssumption, SelectionAssumption
<1>2. QED
  BY <1>1 DEF AgentInit, AgentTypeOK, PositionOK, ReportOK, BackupOK, AllItems, ItemState

\* The helper moves on.
LEMMA StepType ==
  ASSUME AgentTypeOK, NEW a \in Agents, NEW from, NEW to \in {"done", "gone"} \cup Busy,
         Step(a, from, to)
  PROVE  apc' \in [Agents -> {"idle", "done", "gone"} \cup Busy]
BY DEF AgentTypeOK, Step

\* The helper turns to the next item.
LEMMA NextItemType ==
  ASSUME AgentTypeOK, NEW a \in Agents, NEW from, NEW again \in Busy,
         NEW after \in {"done"} \cup Busy, NextItem(a, from, again, after)
  PROVE  apc' \in [Agents -> {"idle", "done", "gone"} \cup Busy] /\ PositionOK'
<1>1. apc' \in [Agents -> {"idle", "done", "gone"} \cup Busy]
  BY StepType DEF NextItem
<1>2. arow' = [arow EXCEPT ![a] = IF LastItem(a) THEN 1 ELSE @ + 1]
  BY DEF NextItem
<1>3. (IF LastItem(a) THEN 1 ELSE arow[a] + 1) \in 1..Len(Selection[a])
  BY ItemType
<1>4. PositionOK
  BY DEF AgentTypeOK
<1> HIDE DEF LastItem
<1>5. PositionOK'
  BY <1>2, <1>3, <1>4 DEF PositionOK
<1>6. QED
  BY <1>1, <1>5

\* What the helper says keeps its type when one item changes its state.
LEMMA ReportType ==
  ASSUME ReportOK, NEW a \in Agents, NEW v \in Vmids, NEW state \in ItemState,
         item' = [item EXCEPT ![a][v] = state], UNCHANGED <<tvol, unread, bvol>>,
         result' \in [Agents -> {"none", "blocked", "error", "failed", "succeeded"}]
  PROVE  ReportOK'
BY DEF ReportOK

LEMMA EmitType ==
  ASSUME AgentTypeOK, NEW a \in Agents, NEW from,
         NEW what \in {"blocked", "error", "failed", "succeeded"}, Emit(a, from, what)
  PROVE  /\ apc' \in [Agents -> {"idle", "done", "gone"} \cup Busy]
         /\ result' \in [Agents -> {"none", "blocked", "error", "failed", "succeeded"}]
<1>1. result \in [Agents -> {"none", "blocked", "error", "failed", "succeeded"}]
  BY DEF AgentTypeOK, ReportOK
<1>2. QED
  BY <1>1, StepType DEF Emit

\* The plan, and what the engine left behind.
LEMMA PlanType ==
  ASSUME AgentTypeOK, NEW a \in Agents,
         PlanBlocked(a) \/ PlanError(a) \/ StartBuilder(a) \/ BuilderEnded(a)
           \/ ReadVolume(a) \/ ReadVolumeError(a) \/ Judge(a) \/ Killed(a)
  PROVE  AgentTypeOK'
<1>1. PositionOK /\ ReportOK /\ BackupOK
  BY DEF AgentTypeOK
<1>2. UNCHANGED backupVars
  BY DEF PlanBlocked, PlanError, StartBuilder, BuilderEnded, ReadVolume, ReadVolumeError,
     Judge, Killed
<1>3. BackupOK'
  BY <1>1, <1>2 DEF BackupOK, backupVars
<1>4. CASE PlanBlocked(a) \/ PlanError(a) \/ ReadVolumeError(a)
  <2>1. /\ apc' \in [Agents -> {"idle", "done", "gone"} \cup Busy]
        /\ result' \in [Agents -> {"none", "blocked", "error", "failed", "succeeded"}]
    BY <1>4, EmitType DEF PlanBlocked, PlanError, ReadVolumeError
  <2>2. UNCHANGED <<arow, tvol, unread, bvol>>
    BY <1>4 DEF PlanBlocked, PlanError, ReadVolumeError
  <2>3. item' \in [Agents -> [Vmids -> ItemState]]
    BY <1>1, <1>4 DEF PlanBlocked, PlanError, ReadVolumeError, AllItems, ReportOK, ItemState
  <2>4. QED
    BY <1>1, <1>3, <2>1, <2>2, <2>3 DEF AgentTypeOK, PositionOK, ReportOK
<1>5. CASE StartBuilder(a) \/ BuilderEnded(a) \/ Killed(a)
  <2>1. apc' \in [Agents -> {"idle", "done", "gone"} \cup Busy]
    BY <1>5 DEF StartBuilder, BuilderEnded, Killed, Step, Busy, AgentTypeOK
  <2>2. UNCHANGED <<arow, item, tvol, unread, bvol, result>>
    BY <1>5 DEF StartBuilder, BuilderEnded, Killed
  <2>3. QED
    BY <1>1, <1>3, <2>1, <2>2 DEF AgentTypeOK, PositionOK, ReportOK
<1>6. CASE ReadVolume(a)
  <2>1. apc' \in [Agents -> {"idle", "done", "gone"} \cup Busy] /\ PositionOK'
    BY <1>6, NextItemType DEF ReadVolume, Busy
  <2>2. Item(a) \in Vmids
    BY ItemType
  <2>3. tvol' \in [Agents -> SUBSET Vmids] /\ unread' \in [Agents -> SUBSET Vmids]
    BY <1>1, <1>6, <2>2 DEF ReadVolume, ReadConfig, ReportOK
  <2>4. item' \in [Agents -> [Vmids -> ItemState]]
    <3>1. PICK state \in ItemState : item' = [item EXCEPT ![a][Item(a)] = state]
      BY <1>6 DEF ReadVolume, ReadConfig, ItemState
    <3>2. item \in [Agents -> [Vmids -> ItemState]]
      BY <1>1 DEF ReportOK
    <3>3. QED
      BY <2>2, <3>1, <3>2
  <2>5. UNCHANGED <<bvol, result>>
    BY <1>6 DEF ReadVolume
  <2>6. QED
    BY <1>1, <1>3, <2>1, <2>3, <2>4, <2>5 DEF AgentTypeOK, ReportOK
<1>7. CASE Judge(a)
  <2>1. /\ apc' \in [Agents -> {"idle", "done", "gone"} \cup Busy]
        /\ result' \in [Agents -> {"none", "blocked", "error", "failed", "succeeded"}]
    <3>1. CASE Emit(a, "judge", "failed") \/ Emit(a, "judge", "succeeded")
      BY <3>1, EmitType
    <3>2. CASE Step(a, "judge", "list") /\ UNCHANGED result
      BY <1>1, <3>2, StepType DEF Busy, ReportOK
    <3>3. QED
      BY <1>7, <3>1, <3>2 DEF Judge
  <2>2. item' \in [Agents -> [Vmids -> ItemState]]
    <3>1. item' = item \/ item' = [item EXCEPT ![a] = AllItems("succeeded")]
      BY <1>7 DEF Judge
    <3>2. AllItems("succeeded") \in [Vmids -> ItemState]
      BY DEF AllItems, ItemState
    <3>3. QED
      BY <1>1, <3>1, <3>2 DEF ReportOK
  <2>3. UNCHANGED <<arow, tvol, unread, bvol>>
    BY <1>7 DEF Judge
  <2>4. QED
    BY <1>1, <1>3, <2>1, <2>2, <2>3 DEF AgentTypeOK, PositionOK, ReportOK
<1>8. QED
  BY <1>4, <1>5, <1>6, <1>7

\* The backups.
LEMMA BackupType ==
  ASSUME AgentTypeOK, NEW a \in Agents,
         ListBefore(a) \/ StartBackup(a) \/ BackupOk(a) \/ ListAfter(a) \/ BackupError(a)
           \/ TaskEnds(a)
  PROVE  AgentTypeOK'
<1>1. Item(a) \in Vmids
  BY ItemType
<1>2. PositionOK /\ ReportOK /\ BackupOK
  BY DEF AgentTypeOK
<1>3. CASE ListBefore(a)
  <2>1. apc' \in [Agents -> {"idle", "done", "gone"} \cup Busy]
    BY <1>3, StepType DEF ListBefore, Busy
  <2>2. ReportOK'
    BY <1>1, <1>2, <1>3, ReportType DEF ListBefore, ReportOK, ItemState
  <2>3. BackupOK'
    BY <1>2, <1>3 DEF ListBefore, Backups, BackupOK
  <2>4. QED
    BY <1>2, <1>3, <2>1, <2>2, <2>3 DEF ListBefore, AgentTypeOK, PositionOK
<1>4. CASE StartBackup(a)
  <2>1. apc' \in [Agents -> {"idle", "done", "gone"} \cup Busy]
    BY <1>4, StepType DEF StartBackup, Busy
  <2>2. Task(Item(a), "running") \in [vmid : Vmids, state : TaskState]
    BY <1>1 DEF Task, TaskState
  <2>3. BackupOK'
    BY <1>2, <1>4, <2>2 DEF StartBackup, BackupOK
  <2>4. QED
    BY <1>2, <1>4, <2>1, <2>3 DEF StartBackup, AgentTypeOK, PositionOK, ReportOK
<1>5. CASE BackupOk(a)
  <2>1. apc' \in [Agents -> {"idle", "done", "gone"} \cup Busy]
    BY <1>5, StepType DEF BackupOk, Busy
  <2>2. QED
    BY <1>2, <1>5, <2>1 DEF BackupOk, backupVars, AgentTypeOK, PositionOK, ReportOK, BackupOK
<1>6. CASE ListAfter(a)
  <2>1. /\ apc' \in [Agents -> {"idle", "done", "gone"} \cup Busy] /\ PositionOK'
        /\ result' \in [Agents -> {"none", "blocked", "error", "failed", "succeeded"}]
    <3>1. CASE Emit(a, "relist", "succeeded") /\ UNCHANGED arow
      BY <1>2, <3>1, EmitType DEF PositionOK
    <3>2. CASE NextItem(a, "relist", "list", "done") /\ UNCHANGED result
      BY <1>2, <3>2, NextItemType DEF Busy, ReportOK
    <3>3. QED
      BY <1>6, <3>1, <3>2 DEF ListAfter
  <2>2. item' \in [Agents -> [Vmids -> ItemState]]
    BY <1>1, <1>2, <1>6 DEF ListAfter, ReportOK, ItemState
  <2>3. bvol' \in [Agents -> [Vmids -> Volume \cup {None}]]
    <3>1. PICK x \in volumes \cup {None} : bvol' = [bvol EXCEPT ![a][Item(a)] = x]
      BY <1>6 DEF ListAfter
    <3>2. QED
      BY <1>1, <1>2, <3>1 DEF BackupOK, ReportOK
  <2>4. UNCHANGED <<tvol, unread, backupVars>>
    BY <1>6 DEF ListAfter
  <2>5. QED
    BY <1>2, <2>1, <2>2, <2>3, <2>4 DEF backupVars, AgentTypeOK, ReportOK, BackupOK
<1>7. CASE BackupError(a)
  <2>1. /\ apc' \in [Agents -> {"idle", "done", "gone"} \cup Busy]
        /\ result' \in [Agents -> {"none", "blocked", "error", "failed", "succeeded"}]
    BY <1>7, EmitType DEF BackupError
  <2>2. ReportOK'
    BY <1>1, <1>2, <1>7, <2>1, ReportType DEF BackupError, ItemState
  <2>3. Task(Item(a), "running") \in [vmid : Vmids, state : TaskState]
    BY <1>1 DEF Task, TaskState
  <2>4. BackupOK'
    BY <1>2, <1>7, <2>3 DEF BackupError, BackupOK
  <2>5. QED
    BY <1>2, <1>7, <2>1, <2>2, <2>4 DEF BackupError, AgentTypeOK, PositionOK
<1>8. CASE TaskEnds(a)
  <2>1. task[a].vmid \in Vmids
    BY <1>2, <1>8 DEF TaskEnds, BackupOK
  <2>2. \A state \in TaskState : Task(task[a].vmid, state) \in [vmid : Vmids, state : TaskState]
    BY <2>1 DEF Task
  <2>3. task' \in [Agents -> [vmid : Vmids, state : TaskState] \cup {None}]
    BY <1>2, <1>8, <2>2 DEF TaskEnds, TaskState, BackupOK
  <2>4. NewVolume(task[a].vmid, a) \in Volume
    BY <1>2, <2>1 DEF NewVolume, Volume, BackupOK
  <2>5. volumes' \subseteq Volume /\ stamp' \in Nat
    BY <1>2, <1>8, <2>4 DEF TaskEnds, BackupOK
  <2>6. backed' \in [Agents -> SUBSET Vmids]
    BY <1>2, <1>8, <2>1 DEF TaskEnds, BackupOK
  <2>7. foreign' \in [Agents -> BOOLEAN]
    <3>1. foreign \in [Agents -> BOOLEAN]
      BY <1>2 DEF BackupOK
    <3>2. foreign' = foreign \/ foreign' = [c \in Agents |-> foreign[c] \/ c # a]
      BY <1>8 DEF TaskEnds
    <3>3. QED
      BY <3>1, <3>2
  <2>8. QED
    BY <1>2, <1>8, <2>3, <2>5, <2>6, <2>7
    DEF TaskEnds, helperVars, AgentTypeOK, PositionOK, ReportOK, BackupOK
<1>9. QED
  BY <1>3, <1>4, <1>5, <1>6, <1>7, <1>8

LEMMA AgentNextType == AgentTypeOK /\ [AgentNext]_allVars => AgentTypeOK'
<1> SUFFICES ASSUME AgentTypeOK, [AgentNext]_allVars PROVE AgentTypeOK'
  OBVIOUS
<1>1. CASE \E a \in Agents : Helper(a)
  BY <1>1, PlanType, BackupType DEF Helper
<1>2. CASE \E a \in Agents : Killed(a) \/ TaskEnds(a)
  BY <1>2, PlanType, BackupType
<1>3. ASSUME NEW v \in Vmids, ForeignBackup(v)
      PROVE  AgentTypeOK'
  <2>1. NewVolume(v, Operator) \in Volume
    BY DEF NewVolume, Volume, AgentTypeOK, BackupOK
  <2>2. QED
    BY <1>3, <2>1 DEF ForeignBackup, helperVars, AgentTypeOK, PositionOK, ReportOK, BackupOK
<1>4. ASSUME NEW x \in volumes, Prune(x)
      PROVE  AgentTypeOK'
  BY <1>4 DEF Prune, helperVars, AgentTypeOK, PositionOK, ReportOK, BackupOK
<1>5. ASSUME UNCHANGED agentVars
      PROVE  AgentTypeOK'
  BY <1>5 DEF agentVars, helperVars, backupVars, AgentTypeOK, PositionOK, ReportOK, BackupOK
<1>6. QED
  BY <1>1, <1>2, <1>3, <1>4, <1>5 DEF AgentNext, Start, Continue, Stop, allVars

\* Every variable of the helper keeps its type.
THEOREM AgentTypeCorrect == AgentSpec => []AgentTypeOK
<1>1. QED
  BY AgentInitType, AgentNextType, PTL DEF AgentSpec

-----------------------------------------------------------------------------
(* Backups.                                                                *)

\* What is known of helper a while it backs its items up: the task it waits
\* for is the current item's; the item's backup is recorded when that task has
\* ended well; and unless others made backups, what was not listed before is a
\* backup of its own.
OwnBackup(a) ==
  /\ apc[a] = "wait" =>
       /\ task[a].vmid = Item(a)
       /\ task[a].state = "ok" => Item(a) \in backed[a]
  /\ apc[a] = "relist" => Item(a) \in backed[a]
  /\ \A v \in Vmids : Required[a] /\ item[a][v] = "succeeded" => v \in backed[a]
  /\ apc[a] \in {"start", "wait", "relist"} /\ ~foreign[a] =>
       \A x \in volumes \ before[a] : x.vmid = Item(a) => x.by = a

AllBackups == AgentTypeOK /\ \A a \in Agents : OwnBackup(a)

\* Helper a did not move, and no backup was made.
LEMMA BackupStands ==
  ASSUME NEW a \in Agents, OwnBackup(a), apc'[a] = apc[a], arow'[a] = arow[a],
         task'[a] = task[a], item'[a] = item[a], before'[a] = before[a],
         backed'[a] = backed[a], foreign'[a] = foreign[a], volumes' \subseteq volumes
  PROVE  OwnBackup(a)'
BY DEF OwnBackup, Item

\* Helper a is not at a task, and reports no item as succeeded that it had
\* no reason to.
LEMMA BackupIdle ==
  ASSUME NEW a \in Agents, OwnBackup(a), apc'[a] \notin {"start", "wait", "relist"},
         backed'[a] = backed[a],
         \A v \in Vmids : Required[a] /\ item'[a][v] = "succeeded"
                            => item[a][v] = "succeeded" \/ v \in backed[a]
  PROVE  OwnBackup(a)'
BY DEF OwnBackup

\* A step of another helper.
LEMMA BackupOfOthers ==
  ASSUME AgentTypeOK, NEW a \in Agents, NEW c \in Agents, a # c, OwnBackup(a),
         Helper(c) \/ Killed(c)
  PROVE  OwnBackup(a)'
<1>1. PositionOK /\ ReportOK /\ BackupOK /\ apc \in [Agents -> {"idle", "done", "gone"} \cup Busy]
  BY DEF AgentTypeOK
<1>2. apc'[a] = apc[a]
  BY <1>1 DEF Helper, Killed, PlanBlocked, PlanError, StartBuilder, BuilderEnded, ReadVolume,
     ReadVolumeError, Judge, ListBefore, StartBackup, BackupOk, ListAfter, BackupError, Emit,
     Step, NextItem
<1>3. arow'[a] = arow[a]
  BY <1>1 DEF Helper, Killed, PlanBlocked, PlanError, StartBuilder, BuilderEnded, ReadVolume,
     ReadVolumeError, Judge, ListBefore, StartBackup, BackupOk, ListAfter, BackupError,
     NextItem, PositionOK
<1>4. item'[a] = item[a]
  BY <1>1 DEF Helper, Killed, PlanBlocked, PlanError, StartBuilder, BuilderEnded, ReadVolume,
     ReadConfig, ReadVolumeError, Judge, ListBefore, StartBackup, BackupOk, ListAfter, BackupError,
     ReportOK
<1>5. task'[a] = task[a]
  BY <1>1 DEF Helper, Killed, PlanBlocked, PlanError, StartBuilder, BuilderEnded, ReadVolume,
     ReadVolumeError, Judge, ListBefore, StartBackup, BackupOk, ListAfter, BackupError,
     backupVars, BackupOK
<1>6. before'[a] = before[a] /\ foreign'[a] = foreign[a]
  BY <1>1 DEF Helper, Killed, PlanBlocked, PlanError, StartBuilder, BuilderEnded, ReadVolume,
     ReadVolumeError, Judge, ListBefore, StartBackup, BackupOk, ListAfter, BackupError,
     backupVars, BackupOK
<1>7. UNCHANGED <<volumes, backed>>
  BY DEF Helper, Killed, PlanBlocked, PlanError, StartBuilder, BuilderEnded, ReadVolume,
     ReadVolumeError, Judge, ListBefore, StartBackup, BackupOk, ListAfter, BackupError,
     backupVars
<1>8. QED
  BY <1>2, <1>3, <1>4, <1>5, <1>6, <1>7, BackupStands

\* A step of helper a outside the loop over the backups.
LEMMA BackupOutside ==
  ASSUME AgentTypeOK, NEW a \in Agents, OwnBackup(a),
         PlanBlocked(a) \/ PlanError(a) \/ StartBuilder(a) \/ BuilderEnded(a)
           \/ ReadVolume(a) \/ ReadVolumeError(a) \/ Judge(a) \/ BackupError(a) \/ Killed(a)
  PROVE  OwnBackup(a)'
<1>1. ReportOK /\ apc \in [Agents -> {"idle", "done", "gone"} \cup Busy] /\ Item(a) \in Vmids
  BY ItemType DEF AgentTypeOK
<1>2. apc'[a] \in {"done", "gone", "building", "volumes", "judge", "list"}
  BY <1>1 DEF PlanBlocked, PlanError, StartBuilder, BuilderEnded, ReadVolume,
     ReadVolumeError, Judge, BackupError, Killed, Emit, Step, NextItem
<1>3. backed'[a] = backed[a]
  BY DEF PlanBlocked, PlanError, StartBuilder, BuilderEnded, ReadVolume, ReadVolumeError,
     Judge, BackupError, Killed, backupVars
<1>4. ASSUME NEW v \in Vmids, Required[a], item'[a][v] = "succeeded"
      PROVE  item[a][v] = "succeeded"
  <2>1. item \in [Agents -> [Vmids -> ItemState]]
    BY <1>1 DEF ReportOK
  <2>2. \/ item' = item
        \/ item' = [item EXCEPT ![a] = AllItems("blocked")]
        \/ item' = [item EXCEPT ![a] = AllItems("failed")]
        \/ item' = [item EXCEPT ![a][Item(a)] = "failed"]
        \/ item' = [item EXCEPT ![a][Item(a)] = "template-ready"]
    BY <1>4 DEF PlanBlocked, PlanError, StartBuilder, BuilderEnded, ReadVolume, ReadConfig,
       ReadVolumeError, Judge, BackupError, Killed
  <2>3. QED
    BY <1>4, <2>1, <2>2 DEF AllItems
<1>5. QED
  BY <1>2, <1>3, <1>4, BackupIdle

\* A step of helper a within the loop over the backups.
LEMMA BackupWithin ==
  ASSUME AgentTypeOK, NEW a \in Agents, OwnBackup(a),
         ListBefore(a) \/ StartBackup(a) \/ BackupOk(a) \/ ListAfter(a)
  PROVE  OwnBackup(a)'
<1>1. PositionOK /\ ReportOK /\ BackupOK /\ Item(a) \in Vmids
  BY ItemType DEF AgentTypeOK
<1>2. apc \in [Agents -> {"idle", "done", "gone"} \cup Busy]
  BY DEF AgentTypeOK
<1>3. item \in [Agents -> [Vmids -> ItemState]]
  BY <1>1 DEF ReportOK
<1>4. UNCHANGED <<volumes, backed>>
  BY DEF ListBefore, StartBackup, BackupOk, ListAfter, backupVars
<1>5. CASE ListBefore(a)
  <2>1. apc'[a] = "start" /\ Item(a)' = Item(a)
    BY <1>2, <1>5 DEF ListBefore, Step, Item
  <2>2. \A v \in Vmids : item'[a][v] = "succeeded" => item[a][v] = "succeeded"
    BY <1>1, <1>3, <1>5 DEF ListBefore
  <2>3. before'[a] = Backups(Item(a))
    BY <1>1, <1>5 DEF ListBefore, BackupOK
  <2>4. QED
    BY <1>4, <2>1, <2>2, <2>3 DEF OwnBackup, Backups
<1>6. CASE StartBackup(a)
  <2>1. apc'[a] = "wait" /\ apc[a] = "start" /\ Item(a)' = Item(a)
    BY <1>2, <1>6 DEF StartBackup, Step, Item
  <2>2. task'[a] = Task(Item(a), "running")
    BY <1>1, <1>6 DEF StartBackup, BackupOK
  <2>3. UNCHANGED <<item, before, foreign>>
    BY <1>6 DEF StartBackup
  <2>4. QED
    BY <1>4, <2>1, <2>2, <2>3 DEF OwnBackup, Task
<1>7. CASE BackupOk(a)
  <2>1. apc'[a] = "relist" /\ apc[a] = "wait" /\ Item(a)' = Item(a) /\ task[a].state = "ok"
    BY <1>2, <1>7 DEF BackupOk, Step, Item
  <2>2. UNCHANGED <<item, before, foreign>>
    BY <1>7 DEF BackupOk, backupVars
  <2>3. QED
    BY <1>4, <2>1, <2>2 DEF OwnBackup
<1>8. CASE ListAfter(a)
  <2>1. apc[a] = "relist" /\ apc'[a] \in {"done", "list"}
    BY <1>2, <1>8 DEF ListAfter, Emit, NextItem, Step
  <2>2. Item(a) \in backed[a]
    BY <2>1 DEF OwnBackup
  <2>3. \A v \in Vmids : item'[a][v] = "succeeded" => item[a][v] = "succeeded" \/ v \in backed[a]
    BY <1>1, <1>3, <1>8, <2>2 DEF ListAfter
  <2>4. QED
    BY <1>4, <2>1, <2>3, BackupIdle
<1>9. QED
  BY <1>5, <1>6, <1>7, <1>8

\* A vzdump task ends, somebody else makes a backup, or one is removed.
LEMMA BackupOfPve ==
  ASSUME AgentTypeOK, NEW a \in Agents, OwnBackup(a),
         \/ \E c \in Agents : TaskEnds(c)
         \/ \E v \in Vmids : ForeignBackup(v)
         \/ \E x \in volumes : Prune(x)
  PROVE  OwnBackup(a)'
<1>1. BackupOK
  BY DEF AgentTypeOK
<1>2. UNCHANGED <<apc, arow, item, before>> /\ Item(a)' = Item(a)
  BY DEF TaskEnds, ForeignBackup, Prune, helperVars, Item
<1>3. ASSUME NEW c \in Agents, TaskEnds(c)
      PROVE  OwnBackup(a)'
  <2>1. CASE task' = [task EXCEPT ![c] = Task(task[c].vmid, "failed")]
             /\ UNCHANGED <<volumes, stamp, backed, foreign>>
    BY <1>1, <1>2, <2>1 DEF OwnBackup, Task, BackupOK
  <2>2. CASE /\ task' = [task EXCEPT ![c] = Task(task[c].vmid, "ok")]
             /\ volumes' = volumes \cup {NewVolume(task[c].vmid, c)}
             /\ backed' = [backed EXCEPT ![c] = @ \cup {task[c].vmid}]
             /\ foreign' = [d \in Agents |-> foreign[d] \/ d # c]
    <3>1. backed[a] \subseteq backed'[a]
      BY <1>1, <2>2 DEF BackupOK
    <3>2. apc[a] = "wait" => /\ task'[a].vmid = Item(a)
                             /\ task'[a].state = "ok" => Item(a) \in backed'[a]
      BY <1>1, <2>2, <3>1 DEF OwnBackup, Task, BackupOK
    <3>3. ASSUME apc[a] \in {"start", "wait", "relist"}, ~foreign'[a],
                 NEW x \in volumes' \ before[a], x.vmid = Item(a)
          PROVE  x.by = a
      <4>1. c = a /\ ~foreign[a]
        BY <2>2, <3>3
      <4>2. CASE x \in volumes
        BY <3>3, <4>1, <4>2 DEF OwnBackup
      <4>3. CASE x = NewVolume(task[c].vmid, c)
        BY <4>1, <4>3 DEF NewVolume
      <4>4. QED
        BY <2>2, <4>2, <4>3
    <3>4. QED
      BY <1>2, <3>1, <3>2, <3>3 DEF OwnBackup
  <2>3. QED
    BY <1>3, <2>1, <2>2 DEF TaskEnds
<1>4. ASSUME NEW v \in Vmids, ForeignBackup(v)
      PROVE  OwnBackup(a)'
  <2>1. foreign'[a] /\ UNCHANGED <<task, backed>>
    BY <1>4 DEF ForeignBackup
  <2>2. QED
    BY <1>2, <2>1 DEF OwnBackup
<1>5. ASSUME NEW y \in volumes, Prune(y)
      PROVE  OwnBackup(a)'
  BY <1>2, <1>5, BackupStands DEF Prune
<1>6. QED
  BY <1>3, <1>4, <1>5

LEMMA BackupsKept == AllBackups /\ [AgentNext]_allVars => AllBackups'
<1> SUFFICES ASSUME AllBackups, [AgentNext]_allVars PROVE AllBackups'
  OBVIOUS
<1>1. AgentTypeOK /\ AgentTypeOK'
  BY AgentNextType DEF AllBackups
<1>2. ASSUME NEW a \in Agents
      PROVE  OwnBackup(a)'
  <2>1. OwnBackup(a)
    BY DEF AllBackups
  <2>2. ASSUME NEW c \in Agents, Helper(c) \/ Killed(c)
        PROVE  OwnBackup(a)'
    <3>1. CASE c = a
      BY <1>1, <2>1, <2>2, <3>1, BackupOutside, BackupWithin DEF Helper
    <3>2. CASE c # a
      BY <1>1, <2>1, <2>2, <3>2, BackupOfOthers
    <3>3. QED
      BY <3>1, <3>2
  <2>3. CASE \/ \E c \in Agents : TaskEnds(c)
             \/ \E v \in Vmids : ForeignBackup(v)
             \/ \E x \in volumes : Prune(x)
    BY <1>1, <2>1, <2>3, BackupOfPve
  <2>4. CASE UNCHANGED agentVars
    BY <2>1, <2>4, BackupStands DEF agentVars, helperVars, backupVars
  <2>5. QED
    BY <2>2, <2>3, <2>4 DEF AgentNext, Start, Continue, Stop, allVars
<1>3. QED
  BY <1>1, <1>2 DEF AllBackups

LEMMA BackupsHold == AgentSpec => []AllBackups
<1>1. AgentInit => AllBackups
  BY AgentInitType DEF AgentInit, AllBackups, OwnBackup, AllItems
<1>2. AllBackups /\ [AgentNext]_allVars => AllBackups'
  BY BackupsKept
<1>3. QED
  BY <1>1, <1>2, PTL DEF AgentSpec

\* Under backupPolicy = required no item is reported as succeeded unless a
\* vzdump task of its VMID ended with exit status OK.
THEOREM BackupSoundness == AgentSpec => []BackedUpMeansTaskOk
<1>1. AllBackups => BackedUpMeansTaskOk
  <2> SUFFICES ASSUME AllBackups, NEW a \in Agents, NEW v \in Rows(a),
                      Required[a], item[a][v] = "succeeded"
               PROVE  v \in backed[a]
    BY DEF BackedUpMeansTaskOk
  <2>1. v \in Vmids /\ OwnBackup(a)
    BY ItemType DEF AllBackups
  <2>2. QED
    BY <2>1 DEF OwnBackup
<1>2. QED
  BY <1>1, BackupsHold, PTL

\* The volume reported for an item is one this helper's own task made, if no
\* other backup ended between its two listings.
THEOREM BackupAttribution == AgentSpec => BackupVolumeIsOwn
<1>1. ASSUME AllBackups, [AgentNext]_allVars
      PROVE  [\A a \in Agents : \A v \in Rows(a) :
                Reported(a, v) /\ ~foreign[a] =>
                  bvol'[a][v] \in {x \in volumes : x.vmid = v /\ x.by = a}]_allVars
  <2> SUFFICES ASSUME NEW a \in Agents, NEW v \in Rows(a), Reported(a, v), ~foreign[a]
               PROVE  bvol'[a][v] \in {x \in volumes : x.vmid = v /\ x.by = a}
    OBVIOUS
  <2>1. /\ ReportOK /\ OwnBackup(a) /\ Item(a) \in Vmids /\ v \in Vmids
        /\ apc \in [Agents -> {"idle", "done", "gone"} \cup Busy]
    BY <1>1, ItemType DEF AllBackups, AgentTypeOK
  <2>2. PICK c \in Agents : ListAfter(c)
    BY <1>1 DEF Reported, AgentNext, Helper, PlanBlocked, PlanError, StartBuilder,
       BuilderEnded, ReadVolume, ReadVolumeError, Judge, ListBefore, StartBackup, BackupOk,
       BackupError, Killed, TaskEnds, ForeignBackup, Prune, Start, Continue, Stop, allVars,
       agentVars, helperVars
  <2>3. PICK x \in volumes \cup {None} :
          /\ Newest(x, Backups(Item(c)) \ before[c])
          /\ bvol' = [bvol EXCEPT ![c][Item(c)] = x]
    BY <2>2 DEF ListAfter
  <2>4. c = a /\ v = Item(a) /\ bvol'[a][v] = x /\ x # None
    BY <2>1, <2>3 DEF Reported, ReportOK
  <2>5. apc[a] = "relist"
    BY <2>2, <2>4 DEF ListAfter, Emit, NextItem, Step
  <2>6. x \in Backups(v) /\ x \notin before[a]
    BY <2>3, <2>4 DEF Newest
  <2>7. QED
    BY <2>1, <2>4, <2>5, <2>6 DEF OwnBackup, Backups
<1>2. QED
  BY <1>1, BackupsHold, PTL DEF AgentSpec, BackupVolumeIsOwn

-----------------------------------------------------------------------------
(* The report.                                                             *)

BackingUp == {"list", "start", "wait", "relist"}

\* The items whose volume the helper has looked for.
Read(a) ==
  IF apc[a] = "volumes" THEN {Selection[a][i] : i \in 1..(arow[a] - 1)} ELSE Rows(a)

\* The templates the helper has found, or would have had qm config not failed.
Seen(a) == tvol[a] \cup unread[a]

\* What is known of helper a's report: it is emitted last; the loop over the
\* volumes begins with the first item, after the engine has ended, and has
\* come across every complete template of those it has looked for; backups are
\* made of a complete set only.
ReportOf(a) ==
  /\ apc[a] \in {"idle", "building"} => arow[a] = 1
  /\ result[a] # "none" => apc[a] = "done"
  /\ apc[a] \in {"volumes", "judge"} \cup BackingUp \/ result[a] = "failed" =>
       /\ pc[a] \in Ended
       /\ \A v \in Read(a) \ TakenFrom(a) : CompleteBy(v, a) => v \in Seen(a)
  /\ apc[a] \in BackingUp => Built(a) /\ tvol[a] = Rows(a)

AllReports == AgentTypeOK /\ EndInv /\ \A a \in Agents : ReportOf(a)

LEMMA DisturbedIsTaken == \A a \in Agents : Disturbed(a) = TakenFrom(a)
BY DEF Disturbed, TakenFrom

\* The engines and everybody else move on; helper a does not.
LEMMA ReportStands ==
  ASSUME AgentTypeOK, EndInv, [Next]_vars, NEW a \in Agents, ReportOf(a),
         apc'[a] = apc[a], arow'[a] = arow[a], tvol'[a] = tvol[a], unread'[a] = unread[a],
         result'[a] = result[a]
  PROVE  ReportOf(a)'
<1>1. a \in Builders /\ Rows(a) \subseteq Vmids
  BY AgentAssumption, RowType DEF EndInv, IInv
<1>2. Read(a)' = Read(a) /\ Rows(a)' = Rows(a)
  BY DEF Read, Rows
<1>3. pc[a] \in Ended =>
        /\ pc'[a] = pc[a]
        /\ TakenFrom(a) \subseteq TakenFrom(a)'
        /\ \A v \in Vmids : v \notin TakenFrom(a)' => (CompleteBy(v, a)' <=> CompleteBy(v, a))
  BY <1>1, EndedStays
<1>4. Read(a) \subseteq Vmids
  <2>1. /\ Selection[a] \in Seq(Vmids) /\ Len(Selection[a]) \in Nat
        /\ arow[a] \in 1..Len(Selection[a])
    BY <1>1, SelectionAssumption DEF AgentTypeOK, PositionOK
  <2>2. \A i \in 1..(arow[a] - 1) : Selection[a][i] \in Vmids
    BY <2>1
  <2>3. QED
    BY <1>1, <2>2 DEF Read
<1>5. QED
  BY <1>2, <1>3, <1>4 DEF ReportOf, Seen, Built, BackingUp, Ended

\* A step of another helper, of PVE's tasks, or of retention.
LEMMA OthersReport ==
  ASSUME AgentTypeOK, EndInv, NEW a \in Agents, ReportOf(a),
         \/ \E c \in Agents \ {a} : Helper(c) \/ Killed(c)
         \/ \E c \in Agents : TaskEnds(c)
         \/ \E v \in Vmids : ForeignBackup(v)
         \/ \E x \in volumes : Prune(x)
  PROVE  ReportOf(a)'
<1>1. PositionOK /\ ReportOK /\ apc \in [Agents -> {"idle", "done", "gone"} \cup Busy]
  BY DEF AgentTypeOK
<1>2. ASSUME NEW c \in Agents \ {a}, Helper(c) \/ Killed(c)
      PROVE  /\ UNCHANGED vars /\ apc'[a] = apc[a] /\ arow'[a] = arow[a]
             /\ tvol'[a] = tvol[a] /\ unread'[a] = unread[a] /\ result'[a] = result[a]
  BY <1>1, <1>2 DEF Helper, Killed, PlanBlocked, PlanError, StartBuilder, BuilderEnded,
     ReadVolume, ReadConfig, ReadVolumeError, Judge, ListBefore, StartBackup, BackupOk, ListAfter,
     BackupError, Emit, Step, NextItem, PositionOK, ReportOK
<1>3. ASSUME \/ \E c \in Agents : TaskEnds(c)
             \/ \E v \in Vmids : ForeignBackup(v)
             \/ \E x \in volumes : Prune(x)
      PROVE  UNCHANGED vars /\ UNCHANGED helperVars
  BY <1>3 DEF TaskEnds, ForeignBackup, Prune
<1>4. QED
  BY <1>2, <1>3, ReportStands DEF helperVars

\* One more item is looked for.
LEMMA ReadVolumeReport ==
  ASSUME AgentTypeOK, EndInv, NEW a \in Agents, ReportOf(a), ReadVolume(a)
  PROVE  ReportOf(a)'
<1>1. /\ PositionOK /\ ReportOK /\ apc \in [Agents -> {"idle", "done", "gone"} \cup Busy]
      /\ a \in Builders
  BY AgentAssumption DEF AgentTypeOK
<1>2. /\ Selection[a] \in Seq(Vmids) /\ Len(Selection[a]) \in Nat
      /\ arow[a] \in 1..Len(Selection[a]) /\ arow[a] \in Nat
  BY <1>1, SelectionAssumption DEF PositionOK
<1>3. /\ UNCHANGED <<vars, result>> /\ apc[a] = "volumes"
      /\ apc'[a] = IF LastItem(a) THEN "judge" ELSE "volumes"
      /\ arow'[a] = IF LastItem(a) THEN 1 ELSE arow[a] + 1
  BY <1>1 DEF ReadVolume, NextItem, Step, PositionOK
<1>4. Read(a)' = Read(a) \cup {Item(a)}
  <2>1. CASE LastItem(a)
    <3>1. 1..Len(Selection[a]) = 1..(arow[a] - 1) \cup {arow[a]}
      BY <1>2, <2>1 DEF LastItem
    <3>2. QED
      BY <1>3, <2>1, <3>1 DEF Read, Rows, Item
  <2>2. CASE ~LastItem(a)
    <3>1. arow'[a] - 1 = arow[a] /\ apc'[a] = "volumes"
      BY <1>2, <1>3, <2>2
    <3>2. Read(a)' = {Selection[a][i] : i \in 1..arow[a]}
      BY <3>1 DEF Read
    <3>3. 1..arow[a] = 1..(arow[a] - 1) \cup {arow[a]}
      BY <1>2
    <3>4. Read(a) = {Selection[a][i] : i \in 1..(arow[a] - 1)}
      BY <1>3 DEF Read
    <3>5. QED
      BY <3>2, <3>3, <3>4 DEF Item
  <2>3. QED
    BY <2>1, <2>2
<1>5. Seen(a) \subseteq Seen(a)' /\ (TemplateVolume(a, Item(a)) => Item(a) \in Seen(a)')
  <2>1. \/ tvol' = [tvol EXCEPT ![a] = @ \cup {Item(a)}] /\ unread' = unread
        \/ /\ tvol' = tvol
           /\ unread' = [unread EXCEPT ![a] =
                           IF TemplateVolume(a, Item(a)) THEN @ \cup {Item(a)} ELSE @]
    BY DEF ReadVolume, ReadConfig
  <2> QED
    BY <1>1, <2>1 DEF ReportOK, Seen
<1>6. CompleteBy(Item(a), a) => TemplateVolume(a, Item(a))
  BY DEF CompleteBy, TemplateVolume
<1>7. /\ pc' = pc /\ TakenFrom(a)' = TakenFrom(a)
      /\ \A v \in Vmids : CompleteBy(v, a)' <=> CompleteBy(v, a)
  BY <1>3 DEF vars, pveVars, historyVars, TakenFrom, CompleteBy, OnNode
<1>8. \A v \in Read(a)' : v \in Vmids
  <2>1. Item(a) \in Vmids
    BY ItemType
  <2>2. \A i \in 1..(arow[a] - 1) : Selection[a][i] \in Vmids
    BY <1>2
  <2>3. QED
    BY <1>3, <1>4, <2>1, <2>2 DEF Read
<1>9. QED
  BY <1>3, <1>4, <1>5, <1>6, <1>7, <1>8 DEF ReportOf, BackingUp

\* Whatever else helper a does itself.
LEMMA OwnReport ==
  ASSUME AgentTypeOK, EndInv, NEW a \in Agents, ReportOf(a),
         Helper(a) \/ Killed(a), ~ReadVolume(a)
  PROVE  ReportOf(a)'
<1> USE DEF Emit, Step, BackingUp
<1>1. PositionOK /\ ReportOK /\ apc \in [Agents -> {"idle", "done", "gone"} \cup Busy]
  BY DEF AgentTypeOK
<1>2. /\ UNCHANGED vars /\ tvol' = tvol /\ unread' = unread
      /\ pc' = pc /\ TakenFrom(a)' = TakenFrom(a) /\ Rows(a)' = Rows(a)
      /\ \A v \in Rows(a) : CompleteBy(v, a)' <=> CompleteBy(v, a)
      /\ Built(a)' <=> Built(a)
  <2>1. UNCHANGED vars /\ tvol' = tvol /\ unread' = unread
    BY DEF Helper, Killed, PlanBlocked, PlanError, StartBuilder, BuilderEnded, ReadVolumeError,
       Judge, ListBefore, StartBackup, BackupOk, ListAfter, BackupError
  <2>2. QED
    BY <2>1 DEF vars, pveVars, historyVars, TakenFrom, CompleteBy, OnNode, Built, Rows
<1>3. CASE PlanBlocked(a) \/ PlanError(a) \/ ReadVolumeError(a)
  BY <1>1, <1>3 DEF PlanBlocked, PlanError, ReadVolumeError, ReportOf, Seen, ReportOK
<1>4. CASE StartBuilder(a)
  BY <1>1, <1>4 DEF StartBuilder, ReportOf, Seen
<1>5. CASE BuilderEnded(a)
  <2>1. arow'[a] = 1 /\ apc'[a] = "volumes" /\ result'[a] = result[a] /\ result[a] = "none"
    BY <1>1, <1>5 DEF BuilderEnded, ReportOf
  <2>2. Read(a)' = {}
    BY <2>1 DEF Read
  <2>3. QED
    BY <1>2, <1>5, <2>1, <2>2 DEF BuilderEnded, ReportOf, Seen
<1>6. CASE Killed(a)
  BY <1>1, <1>6 DEF Killed, ReportOf, Seen, Busy
<1>7. CASE Judge(a)
  <2>1. apc[a] = "judge" /\ apc'[a] \in {"done", "list"} /\ Read(a)' = Rows(a) /\ Read(a) = Rows(a)
    BY <1>1, <1>2, <1>7 DEF Judge, Read
  <2>2. /\ apc'[a] = "list" => Built(a) /\ tvol[a] = Rows(a) /\ result'[a] = result[a]
        /\ result[a] = "none"
    BY <1>1, <1>7, <2>1 DEF Judge, ReportOf
  <2>3. QED
    BY <1>2, <2>1, <2>2 DEF ReportOf, Seen
<1>8. CASE ListBefore(a) \/ StartBackup(a) \/ BackupOk(a) \/ ListAfter(a) \/ BackupError(a)
  <2>1. /\ apc[a] \in BackingUp /\ apc'[a] \in BackingUp \cup {"done"}
        /\ apc'[a] \in BackingUp => result'[a] = result[a]
    BY <1>1, <1>8 DEF ListBefore, StartBackup, BackupOk, ListAfter, BackupError, NextItem
  <2>2. Read(a)' = Rows(a) /\ Read(a) = Rows(a)
    BY <1>2, <2>1 DEF Read
  <2>3. QED
    BY <1>2, <2>1, <2>2 DEF ReportOf, Seen
<1>9. QED
  BY <1>3, <1>4, <1>5, <1>6, <1>7, <1>8 DEF Helper

LEMMA ReportsHold == AgentSpec => []AllReports
<1>1. Init /\ AgentInit /\ AgentTypeOK /\ EndInv => AllReports
  BY DEF AgentInit, AllReports, ReportOf, BackingUp
<1>2. ASSUME AllReports, AgentTypeOK', EndInv', [AgentNext]_allVars
      PROVE  AllReports'
  <2>1. AgentTypeOK /\ EndInv
    BY <1>2 DEF AllReports
  <2>2. ASSUME NEW a \in Agents
        PROVE  ReportOf(a)'
    <3>1. ReportOf(a)
      BY <1>2 DEF AllReports
    <3>2. CASE \E c \in Agents : Helper(c) \/ Killed(c)
      BY <2>1, <3>1, <3>2, OthersReport, ReadVolumeReport, OwnReport
    <3>3. CASE \/ \E c \in Agents : TaskEnds(c)
               \/ \E v \in Vmids : ForeignBackup(v)
               \/ \E x \in volumes : Prune(x)
      BY <2>1, <3>1, <3>3, OthersReport
    <3>4. CASE UNCHANGED agentVars
      <4>1. [Next]_vars
        BY <1>2, StepOfEngine DEF allVars
      <4>2. QED
        BY <2>1, <3>1, <3>4, <4>1, ReportStands DEF agentVars, helperVars
    <3>5. QED
      BY <1>2, <3>2, <3>3, <3>4 DEF AgentNext, Start, Continue, Stop, allVars
  <2>3. QED
    BY <1>2, <2>2 DEF AllReports
<1>3. AgentSpec => []EndInv
  BY EngineUnderneath, EndInvariant, PTL
<1>4. QED
  BY <1>1, <1>2, <1>3, AgentTypeCorrect, PTL DEF AgentSpec

\* Whatever the engine completed before it failed or was killed is in the
\* report, unless an administrator or a replacing run has the VMID by now, or
\* the one qm config by which the helper looks for it failed.
THEOREM CompletedAreReported == AgentSpec => []CompleteAreReported
<1>1. AllReports => CompleteAreReported
  <2> SUFFICES ASSUME AllReports, NEW a \in Agents, result[a] = "failed",
                      NEW v \in Rows(a) \ Disturbed(a), CompleteBy(v, a)
               PROVE  v \in Seen(a)
    BY DEF CompleteAreReported, Seen
  <2>1. ReportOf(a) /\ v \notin TakenFrom(a)
    BY DisturbedIsTaken DEF AllReports
  <2>2. Read(a) = Rows(a)
    BY <2>1 DEF ReportOf, Read
  <2>3. QED
    BY <2>1, <2>2 DEF ReportOf
<1>2. QED
  BY <1>1, ReportsHold, PTL

\* "succeeded" is said only of templates the helper's own engine made, which
\* still stand, complete, when it is said: a race lost against another run is
\* never reported as success.
THEOREM SuccessIsOwn == AgentSpec => SuccessMeansOwn
<1>1. ASSUME AllReports, [AgentNext]_allVars
      PROVE  [\A a \in Agents :
                result[a] # "succeeded" /\ result'[a] = "succeeded" =>
                  \A v \in Rows(a) \ Disturbed(a) : CompleteBy(v, a) /\ v \in tvol[a]]_allVars
  <2> SUFFICES ASSUME NEW a \in Agents, result[a] # "succeeded", result'[a] = "succeeded"
               PROVE  \A v \in Rows(a) \ Disturbed(a) : CompleteBy(v, a) /\ v \in tvol[a]
    OBVIOUS
  <2>1. /\ ReportOf(a) /\ StandingOf(a) /\ ReportOK
        /\ apc \in [Agents -> {"idle", "done", "gone"} \cup Busy]
    BY <1>1, AgentAssumption DEF AllReports, EndInv, AgentTypeOK
  <2>2. PICK c \in Agents : Judge(c) \/ ListAfter(c)
    BY <1>1, <2>1 DEF AgentNext, Helper, PlanBlocked, PlanError, StartBuilder, BuilderEnded,
       ReadVolume, ReadVolumeError, ListBefore, StartBackup, BackupOk, BackupError, Killed,
       TaskEnds, ForeignBackup, Prune, Start, Continue, Stop, allVars, agentVars, helperVars,
       Emit, ReportOK
  <2>3. c = a
    BY <2>1, <2>2 DEF Judge, ListAfter, Emit, ReportOK
  <2>4. Built(a) /\ tvol[a] = Rows(a)
    BY <2>1, <2>2, <2>3 DEF Judge, ListAfter, Emit, NextItem, Step, ReportOf, BackingUp, ReportOK
  <2>5. QED
    BY <2>1, <2>4, DisturbedIsTaken DEF Built, StandingOf
<1>2. QED
  BY <1>1, ReportsHold, PTL DEF AgentSpec, SuccessMeansOwn

-----------------------------------------------------------------------------
(* How long a request can be: what EveryRequestAnswered rests on beside    *)
(* fairness and the end of the engine.                                     *)

\* The steps a helper still takes at most that is at item p of n: one to plan,
\* one to see the engine end, one per item to read it and one to judge, and
\* four per item to back it up.
RequestRemaining(state, p, n) ==
  CASE state = "idle"     -> 5 * n + 3
    [] state = "building" -> 5 * n + 2
    [] state = "volumes"  -> 4 * n + 2 + (n - p)
    [] state = "judge"    -> 4 * n + 1
    [] state = "list"     -> 4 + 4 * (n - p)
    [] state = "start"    -> 3 + 4 * (n - p)
    [] state = "wait"     -> 2 + 4 * (n - p)
    [] state = "relist"   -> 1 + 4 * (n - p)
    [] OTHER              -> 0

RequestLeft(a) == RequestRemaining(apc[a], arow[a], Len(Selection[a]))

\* Steps of helper a bring it nearer to its answer; nobody sends it back.
Answering(a) ==
  /\ RequestLeft(a)' <= RequestLeft(a)
  /\ Helper(a) \/ Killed(a) => RequestLeft(a)' < RequestLeft(a)

\* The loops begin at the first item.
AtFirst(a) == apc[a] \in {"idle", "building", "judge"} => arow[a] = 1

LEMMA RequestRemainingType ==
  ASSUME NEW n \in Nat, NEW p \in 1..n, NEW state
  PROVE  RequestRemaining(state, p, n) \in 0..(5 * n + 3)
  BY DEF RequestRemaining

\* Where a step leads from an item, other than to the next one.
Follows(from, to) ==
  \/ from = "idle" /\ to \in {"done", "building"}
  \/ from \in Busy /\ to \in {"done", "gone"}
  \/ from = "list" /\ to = "start"
  \/ from = "start" /\ to = "wait"
  \/ from = "wait" /\ to = "relist"

LEMMA FollowsIsNearer ==
  ASSUME NEW n \in Nat, NEW p \in 1..n, NEW from, NEW to, Follows(from, to)
  PROVE  RequestRemaining(to, p, n) < RequestRemaining(from, p, n)
  BY DEF Follows, RequestRemaining, Busy

LEMMA NextIsNearer ==
  ASSUME NEW n \in Nat, NEW p \in 1..n
  PROVE  /\ p < n =>
              /\ RequestRemaining("volumes", p + 1, n) < RequestRemaining("volumes", p, n)
              /\ RequestRemaining("list", p + 1, n) < RequestRemaining("relist", p, n)
         /\ RequestRemaining("volumes", 1, n) < RequestRemaining("building", p, n)
         /\ RequestRemaining("judge", 1, n) < RequestRemaining("volumes", n, n)
         /\ RequestRemaining("list", 1, n) < RequestRemaining("judge", p, n)
<1>1. ASSUME NEW q
      PROVE  /\ RequestRemaining("building", q, n) = 5 * n + 2
             /\ RequestRemaining("volumes", q, n) = 4 * n + 2 + (n - q)
             /\ RequestRemaining("judge", q, n) = 4 * n + 1
             /\ RequestRemaining("list", q, n) = 4 + 4 * (n - q)
             /\ RequestRemaining("relist", q, n) = 1 + 4 * (n - q)
  BY DEF RequestRemaining
<1>2. p < n => /\ RequestRemaining("volumes", p + 1, n) < RequestRemaining("volumes", p, n)
               /\ RequestRemaining("list", p + 1, n) < RequestRemaining("relist", p, n)
  BY <1>1
<1>3. /\ RequestRemaining("volumes", 1, n) < RequestRemaining("building", p, n)
      /\ RequestRemaining("judge", 1, n) < RequestRemaining("volumes", n, n)
      /\ RequestRemaining("list", 1, n) < RequestRemaining("judge", p, n)
  BY <1>1
<1> QED
  BY <1>2, <1>3

LEMMA HelperForward ==
  ASSUME AgentTypeOK, NEW a \in Agents, AtFirst(a), Helper(a) \/ Killed(a)
  PROVE  RequestLeft(a)' < RequestLeft(a) /\ AtFirst(a)'
<1> USE DEF Step, Emit
<1>1. /\ Len(Selection[a]) \in Nat /\ arow[a] \in 1..Len(Selection[a])
      /\ apc \in [Agents -> {"idle", "done", "gone"} \cup Busy] /\ arow \in [Agents -> Nat]
  BY ItemType DEF AgentTypeOK, PositionOK
<1>2. ASSUME arow'[a] = arow[a], Follows(apc[a], apc'[a])
      PROVE  RequestLeft(a)' < RequestLeft(a) /\ AtFirst(a)'
  <2>1. RequestLeft(a)' < RequestLeft(a)
    BY <1>1, <1>2, FollowsIsNearer DEF RequestLeft
  <2>2. AtFirst(a)'
    BY <1>2 DEF Follows, AtFirst, Busy
  <2> QED
    BY <2>1, <2>2
<1>3. CASE PlanBlocked(a) \/ PlanError(a) \/ StartBuilder(a) \/ ReadVolumeError(a) \/ Killed(a)
  <2>1. arow'[a] = arow[a] /\ Follows(apc[a], apc'[a])
    BY <1>1, <1>3 DEF PlanBlocked, PlanError, StartBuilder, ReadVolumeError, Killed, Follows, Busy
  <2> QED
    BY <2>1, <1>2
<1>4. CASE ListBefore(a) \/ StartBackup(a) \/ BackupOk(a) \/ BackupError(a)
  <2>1. arow'[a] = arow[a] /\ Follows(apc[a], apc'[a])
    BY <1>1, <1>4 DEF ListBefore, StartBackup, BackupOk, BackupError, Follows, Busy
  <2> QED
    BY <2>1, <1>2
<1>5. CASE BuilderEnded(a)
  <2>1. apc[a] = "building" /\ apc'[a] = "volumes" /\ arow[a] = 1 /\ arow'[a] = 1
    BY <1>1, <1>5 DEF BuilderEnded, AtFirst
  <2> QED
    BY <2>1, <1>1, NextIsNearer DEF RequestLeft, AtFirst
<1>6. CASE Judge(a)
  <2>1. CASE apc'[a] = "list"
    <3>1. apc[a] = "judge" /\ arow[a] = 1 /\ arow'[a] = 1
      BY <1>1, <1>6 DEF Judge, AtFirst
    <3> QED
      BY <2>1, <3>1, <1>1, NextIsNearer DEF RequestLeft, AtFirst
  <2>2. CASE apc'[a] # "list"
    <3>1. arow'[a] = arow[a] /\ Follows(apc[a], apc'[a])
      BY <1>1, <1>6, <2>2 DEF Judge, Follows, Busy
    <3> QED
      BY <3>1, <1>2
  <2> QED
    BY <2>1, <2>2
<1>7. CASE ReadVolume(a)
  <2>1. /\ apc[a] = "volumes"
        /\ \/ arow[a] = Len(Selection[a]) /\ arow'[a] = 1 /\ apc'[a] = "judge"
           \/ arow[a] < Len(Selection[a]) /\ arow'[a] = arow[a] + 1 /\ apc'[a] = "volumes"
    BY <1>1, <1>7 DEF ReadVolume, NextItem, LastItem
  <2> QED
    BY <2>1, <1>1, NextIsNearer DEF RequestLeft, AtFirst
<1>8. CASE ListAfter(a)
  <2>1. CASE LastItem(a)
    <3>1. arow'[a] = arow[a] /\ Follows(apc[a], apc'[a])
      BY <1>1, <1>8, <2>1 DEF ListAfter, Follows, Busy
    <3> QED
      BY <3>1, <1>2
  <2>2. CASE ~LastItem(a)
    <3>1. /\ apc[a] = "relist" /\ apc'[a] = "list"
          /\ arow[a] < Len(Selection[a]) /\ arow'[a] = arow[a] + 1
      BY <1>1, <1>8, <2>2 DEF ListAfter, NextItem, LastItem
    <3> QED
      BY <3>1, <1>1, NextIsNearer DEF RequestLeft, AtFirst
  <2> QED
    BY <2>1, <2>2
<1> QED
  BY <1>3, <1>4, <1>5, <1>6, <1>7, <1>8 DEF Helper

LEMMA OtherHelpersWait ==
  ASSUME AgentTypeOK, [AgentNext]_allVars, NEW a \in Agents, ~(Helper(a) \/ Killed(a))
  PROVE  apc'[a] = apc[a] /\ arow'[a] = arow[a]
<1>1. apc \in [Agents -> {"idle", "done", "gone"} \cup Busy] /\ arow \in [Agents -> Nat]
  BY DEF AgentTypeOK, PositionOK
<1>2. ASSUME NEW c \in Agents, c # a, Helper(c) \/ Killed(c)
      PROVE  apc'[a] = apc[a] /\ arow'[a] = arow[a]
  BY <1>1, <1>2 DEF Helper, PlanBlocked, PlanError, StartBuilder, BuilderEnded, ReadVolume,
     ReadVolumeError, Judge, ListBefore, StartBackup, BackupOk, ListAfter, BackupError, Killed,
     NextItem, Emit, Step
<1>3. CASE \/ \E c \in Agents : TaskEnds(c)
           \/ \E v \in Vmids : ForeignBackup(v)
           \/ \E x \in volumes : Prune(x)
  BY <1>3 DEF TaskEnds, ForeignBackup, Prune, helperVars
<1>4. CASE UNCHANGED agentVars
  BY <1>4 DEF agentVars, helperVars
<1> QED
  BY <1>2, <1>3, <1>4 DEF AgentNext, Start, Continue, Stop, allVars

\* A helper takes no more than five steps per item and three more of its own,
\* whatever the engine, PVE and the other runs do.
THEOREM RequestsAreBounded ==
  AgentSpec => /\ [](\A a \in Agents : RequestLeft(a) \in 0..(5 * Len(Selection[a]) + 3))
               /\ [][\A a \in Agents : Answering(a)]_allVars
<1> DEFINE Ready == AgentTypeOK /\ \A a \in Agents : AtFirst(a)
<1>1. AgentInit => \A a \in Agents : AtFirst(a)
  BY DEF AgentInit, AtFirst
<1>2. ASSUME Ready, [AgentNext]_allVars, NEW a \in Agents
      PROVE  AtFirst(a)'
  BY <1>2, HelperForward, OtherHelpersWait DEF AtFirst
<1>3. AgentSpec => []Ready
  <2>1. AgentTypeOK' /\ Ready /\ [AgentNext]_allVars => Ready'
    BY <1>2
  <2> QED
    BY <1>1, <2>1, AgentTypeCorrect, PTL DEF AgentSpec
<1>4. Ready => \A a \in Agents : RequestLeft(a) \in 0..(5 * Len(Selection[a]) + 3)
  <2> SUFFICES ASSUME Ready, NEW a \in Agents
               PROVE  RequestLeft(a) \in 0..(5 * Len(Selection[a]) + 3)
    OBVIOUS
  <2>1. Len(Selection[a]) \in Nat /\ arow[a] \in 1..Len(Selection[a])
    BY ItemType DEF AgentTypeOK, PositionOK
  <2> QED
    BY <2>1, RequestRemainingType DEF RequestLeft
<1>5. Ready /\ Ready' /\ [AgentNext]_allVars => [\A a \in Agents : Answering(a)]_allVars
  <2> SUFFICES ASSUME Ready, Ready', [AgentNext]_allVars, NEW a \in Agents
               PROVE  Answering(a)
    OBVIOUS
  <2>1. /\ Len(Selection[a]) \in Nat
        /\ arow[a] \in 1..Len(Selection[a]) /\ arow'[a] \in 1..Len(Selection[a])
    BY ItemType DEF AgentTypeOK, PositionOK
  <2>2. RequestLeft(a) \in Nat /\ RequestLeft(a)' \in Nat
    BY <2>1, RequestRemainingType DEF RequestLeft
  <2>3. CASE Helper(a) \/ Killed(a)
    BY <2>2, <2>3, HelperForward DEF Answering
  <2>4. CASE ~(Helper(a) \/ Killed(a))
    <3>1. RequestLeft(a)' = RequestLeft(a)
      BY <2>4, OtherHelpersWait DEF RequestLeft
    <3> QED
      BY <2>2, <2>4, <3>1 DEF Answering
  <2> QED
    BY <2>3, <2>4
<1> QED
  BY <1>3, <1>4, <1>5, PTL DEF AgentSpec
=============================================================================

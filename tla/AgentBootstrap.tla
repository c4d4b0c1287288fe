--------------------------- MODULE AgentBootstrap ---------------------------
(***************************************************************************)
(* tools/ppflight-template-bootstrap.py: the helper through which the      *)
(* PPFlight Agent has templates built, composed with the engine it starts. *)
(*                                                                         *)
(* `bootstrap --execute' plans afresh, starts the engine as a child        *)
(* without --replace and without backup, looks at what the engine left     *)
(* behind, and backs the new templates up one by one through PVE tasks.    *)
(* What it tells the Agent is `result' and, per item, `item', `tvol' and   *)
(* `bvol'.  The helper holds no lock of its own.                           *)
(***************************************************************************)
EXTENDS TemplateEngine

CONSTANTS
  Agents,     \* builders that are children of a helper, named like it
  Required,   \* Required[a]: backupPolicy = required
  MaxBackups  \* bound: others back up only while fewer backups were made

ASSUME AgentAssumption ==
  /\ Agents \subseteq Builders
  /\ \A a \in Agents : ~Replace[a] /\ Cleanup[a]
  /\ Required \in [Agents -> BOOLEAN]
  /\ MaxBackups \in Nat

VARIABLES
  apc,      \* apc[a]: where helper a is in execute_plan
  arow,     \* arow[a]: index of the item its current loop works on
  item,     \* item[a][v]: the state of item v
  tvol,     \* tvol[a]: items with a templateVolume
  bvol,     \* bvol[a][v]: the backupVolume of item v, or None
  result,   \* result[a]: what was emitted at last
  task,     \* task[a]: the vzdump task of the current item, or None
  before,   \* before[a]: the backups listed before that task
  volumes,  \* the backups of the cluster, on the one backup storage
  stamp,    \* how many backups were ever made: volume names carry the time
  \* history variables, read by no action
  unread,   \* unread[a]: items that were templates when their qm config failed
  backed,   \* backed[a]: items whose vzdump task ended with exit status OK
  foreign   \* foreign[a]: others made backups since `before' was read

helperVars == <<apc, arow, item, tvol, unread, bvol, result>>
backupVars == <<task, before, volumes, stamp, backed, foreign>>
agentVars  == <<helperVars, backupVars>>

Item(a)     == Selection[a][arow[a]]
LastItem(a) == arow[a] = Len(Selection[a])
Busy        == {"building", "volumes", "judge", "list", "start", "wait", "relist"}
ItemState   == {"planned", "blocked", "template-ready", "running", "failed",
                "succeeded"}
TaskState   == {"running", "ok", "failed"}

\* What is said of VMIDs that were not selected means nothing.
AllItems(state) == [v \in Vmids |-> state]

AgentInit ==
  /\ apc = [a \in Agents |-> "idle"]
  /\ arow = [a \in Agents |-> 1]
  /\ item = [a \in Agents |-> AllItems("planned")]
  /\ tvol = [a \in Agents |-> {}]
  /\ unread = [a \in Agents |-> {}]
  /\ bvol = [a \in Agents |-> [v \in Vmids |-> None]]
  /\ result = [a \in Agents |-> "none"]
  /\ task = [a \in Agents |-> None]
  /\ before = [a \in Agents |-> {}]
  /\ volumes = {}
  /\ stamp = 0
  /\ backed = [a \in Agents |-> {}]
  /\ foreign = [a \in Agents |-> FALSE]

Step(a, from, to) ==
  /\ apc[a] = from
  /\ apc' = [apc EXCEPT ![a] = to]

Emit(a, from, what) ==
  /\ Step(a, from, "done")
  /\ result' = [result EXCEPT ![a] = what]

\* Bug: the last item is not told apart.
NextItemPast(a, from, again, after) ==
  /\ Step(a, from, IF LastItem(a) THEN after ELSE again)
  /\ arow' = [arow EXCEPT ![a] = @ + 1]

\* Bug: the loop over the items starts over.
NextItemAgain(a, from, again, after) ==
  /\ Step(a, from, again)
  /\ arow' = [arow EXCEPT ![a] = IF LastItem(a) THEN 1 ELSE @ + 1]

\* One turn of a `for item in plan["items"]' loop.
NextItem(a, from, again, after) ==
  /\ Step(a, from, IF LastItem(a) THEN after ELSE again)
  /\ arow' = [arow EXCEPT ![a] = IF LastItem(a) THEN 1 ELSE @ + 1]

-----------------------------------------------------------------------------
(* The plan.                                                               *)

\* A storage, the bridge or the space is not good enough, or a target VMID
\* exists somewhere in the cluster: every item is blocked.  Without root a plan
\* that nothing blocks is refused too, with every item failed.
PlanBlocked(a) ==
  /\ Emit(a, "idle", "blocked")
  /\ \E state \in {"blocked", "failed"} : item' = [item EXCEPT ![a] = AllItems(state)]
  /\ UNCHANGED <<vars, arow, tvol, unread, bvol, backupVars>>

\* Malformed arguments, a catalog that is not the confirmed one, or a PVE
\* command that fails: a typed error and nothing executed.
PlanError(a) ==
  /\ Emit(a, "idle", "error")
  /\ UNCHANGED <<vars, arow, item, tvol, unread, bvol, backupVars>>

\* No VMID is taken; execute_plan starts the engine.
StartBuilder(a) ==
  /\ Step(a, "idle", "building")
  /\ \A v \in Rows(a) : vm[v] = None
  /\ UNCHANGED <<vars, arow, item, tvol, unread, bvol, result, backupVars>>

-----------------------------------------------------------------------------
(* What the engine left behind.                                            *)

\* Bug: the return code of the engine is ignored.
BuiltWhatever(a) == pc[a] \in Ended

Built(a) == pc[a] = "succeeded"

\* _stream_process returns when the engine's output is closed, which every
\* command the engine left behind holds open too.
BuilderEnded(a) ==
  /\ Step(a, "building", "volumes")
  /\ pc[a] \in Ended
  /\ UNCHANGED <<vars, arow, item, tvol, unread, bvol, result, backupVars>>

\* _template_volume: `qm config' knows the VMs of this node only.
TemplateVolume(a, v) ==
  OnNode(v, Home[a]) /\ vm[v].template /\ vm[v].tag = "project"

\* `qm config' shows the template of item v, or exits with an error, which
\* _template_volume does not tell from a VM that is not there (check=False).
ReadConfig(a, v) ==
  \/ /\ TemplateVolume(a, v)
     /\ item' = [item EXCEPT ![a][v] = "template-ready"]
     /\ tvol' = [tvol EXCEPT ![a] = @ \cup {v}]
     /\ UNCHANGED unread
  \/ /\ item' = [item EXCEPT ![a][v] = "failed"]
     /\ unread' = [unread EXCEPT ![a] = IF TemplateVolume(a, v) THEN @ \cup {v} ELSE @]
     /\ UNCHANGED tvol

\* Bug: the loop ends at the first item without a template.
ReadVolumeStops(a) ==
  LET v == Item(a) IN
  /\ IF TemplateVolume(a, v) THEN NextItem(a, "volumes", "volumes", "judge")
     ELSE Step(a, "volumes", "judge") /\ UNCHANGED arow
  /\ ReadConfig(a, v)
  /\ UNCHANGED <<vars, bvol, result, backupVars>>

\* One item of either loop of execute_plan over the items.
ReadVolume(a) ==
  /\ NextItem(a, "volumes", "volumes", "judge")
  /\ ReadConfig(a, Item(a))
  /\ UNCHANGED <<vars, bvol, result, backupVars>>

\* `qm config' does not answer within 120 seconds: the error leaves
\* execute_plan and main() emits it in place of the plan.
ReadVolumeError(a) ==
  /\ Emit(a, "volumes", "error")
  /\ UNCHANGED <<vars, arow, item, tvol, unread, bvol, backupVars>>

Judge(a) ==
  /\ \/ /\ ~(Built(a) /\ tvol[a] = Rows(a))
        /\ Emit(a, "judge", "failed")
        /\ UNCHANGED item
     \/ /\ Built(a) /\ tvol[a] = Rows(a)
        /\ Required[a]
        /\ Step(a, "judge", "list")
        /\ UNCHANGED <<item, result>>
     \/ /\ Built(a) /\ tvol[a] = Rows(a)
        /\ ~Required[a]
        /\ Emit(a, "judge", "succeeded")
        /\ item' = [item EXCEPT ![a] = AllItems("succeeded")]
  /\ UNCHANGED <<vars, arow, tvol, unread, bvol, backupVars>>

-----------------------------------------------------------------------------
(* _run_backup, item by item.                                              *)

Backups(v) == {x \in volumes : x.vmid = v}

\* Bug: the backups that exist already are not told apart.
ListNothing(a) ==
  /\ Step(a, "list", "start")
  /\ item' = [item EXCEPT ![a][Item(a)] = "running"]
  /\ before' = [before EXCEPT ![a] = {}]
  /\ foreign' = [foreign EXCEPT ![a] = FALSE]
  /\ UNCHANGED <<vars, arow, tvol, unread, bvol, result, task, volumes, stamp, backed>>

ListBefore(a) ==
  /\ Step(a, "list", "start")
  /\ item' = [item EXCEPT ![a][Item(a)] = "running"]
  /\ before' = [before EXCEPT ![a] = Backups(Item(a))]
  /\ foreign' = [foreign EXCEPT ![a] = FALSE]
  /\ UNCHANGED <<vars, arow, tvol, unread, bvol, result, task, volumes, stamp, backed>>

Task(v, state) == [vmid |-> v, state |-> state]

StartBackup(a) ==
  /\ Step(a, "start", "wait")
  /\ task' = [task EXCEPT ![a] = Task(Item(a), "running")]
  /\ UNCHANGED <<vars, arow, item, tvol, unread, bvol, result, before, volumes, stamp,
                 backed, foreign>>

\* Bug: a task that has stopped is taken for one that has succeeded.
BackupStopped(a) ==
  /\ Step(a, "wait", "relist")
  /\ task[a].state \in {"ok", "failed"}
  /\ UNCHANGED <<vars, arow, item, tvol, unread, bvol, result, backupVars>>

\* _wait_for_backup finds the task stopped with exit status OK.
BackupOk(a) ==
  /\ Step(a, "wait", "relist")
  /\ task[a].state = "ok"
  /\ UNCHANGED <<vars, arow, item, tvol, unread, bvol, result, backupVars>>

\* created[-1]: of what was not there before, the latest (a volume's name
\* carries the time), or nothing.
Newest(x, new) ==
  \/ new = {} /\ x = None
  \/ x \in new /\ \A y \in new : y.at <= x.at

ListAfter(a) ==
  LET v == Item(a) IN
  /\ IF LastItem(a)
     THEN /\ Emit(a, "relist", "succeeded")
          /\ UNCHANGED arow
     ELSE /\ NextItem(a, "relist", "list", "done")
          /\ UNCHANGED result
  /\ item' = [item EXCEPT ![a][v] = "succeeded"]
  /\ \E x \in volumes \cup {None} :
       /\ Newest(x, Backups(v) \ before[a])
       /\ bvol' = [bvol EXCEPT ![a][v] = x]
  /\ UNCHANGED <<vars, tvol, unread, backupVars>>

\* A failed task, six hours gone by, or any PVE command that fails.  A vzdump
\* request that timed out may have started its task all the same.
BackupError(a) ==
  /\ \E from \in {"list", "start", "wait", "relist"} : Emit(a, from, "failed")
  /\ item' = [item EXCEPT ![a][Item(a)] = "failed"]
  /\ \/ UNCHANGED task
     \/ /\ apc[a] = "start"
        /\ task' = [task EXCEPT ![a] = Task(Item(a), "running")]
  /\ UNCHANGED <<vars, arow, tvol, unread, bvol, before, volumes, stamp, backed, foreign>>

\* The helper is killed.  A vzdump task goes on without it; the engine may go
\* on until it writes to the broken pipe, which is a Signal to it.
Killed(a) ==
  /\ apc[a] \in Busy
  /\ apc' = [apc EXCEPT ![a] = "gone"]
  /\ UNCHANGED <<vars, arow, item, tvol, unread, bvol, result, backupVars>>

-----------------------------------------------------------------------------
(* PVE: tasks end when they end; other jobs back VMs up, and retention      *)
(* removes backups.                                                         *)

NewVolume(v, by) == [vmid |-> v, at |-> stamp + 1, by |-> by]

TaskEnds(a) ==
  /\ task[a] # None
  /\ task[a].state = "running"
  /\ \/ /\ task' = [task EXCEPT ![a] = Task(task[a].vmid, "ok")]
        /\ volumes' = volumes \cup {NewVolume(task[a].vmid, a)}
        /\ stamp' = stamp + 1
        /\ backed' = [backed EXCEPT ![a] = @ \cup {task[a].vmid}]
        /\ foreign' = [c \in Agents |-> foreign[c] \/ c # a]
     \/ /\ task' = [task EXCEPT ![a] = Task(task[a].vmid, "failed")]
        /\ UNCHANGED <<volumes, stamp, backed, foreign>>
  /\ UNCHANGED <<vars, helperVars, before>>

ForeignBackup(v) ==
  /\ stamp < MaxBackups
  /\ vm[v] # None
  /\ volumes' = volumes \cup {NewVolume(v, Operator)}
  /\ stamp' = stamp + 1
  /\ foreign' = [a \in Agents |-> TRUE]
  /\ UNCHANGED <<vars, helperVars, task, before, backed>>

Prune(x) ==
  /\ volumes' = volumes \ {x}
  /\ UNCHANGED <<vars, helperVars, task, before, stamp, backed, foreign>>

-----------------------------------------------------------------------------
Helper(a) ==
  \/ PlanBlocked(a) \/ PlanError(a) \/ StartBuilder(a) \/ BuilderEnded(a)
  \/ ReadVolume(a) \/ ReadVolumeError(a) \/ Judge(a)
  \/ ListBefore(a) \/ StartBackup(a) \/ BackupOk(a) \/ ListAfter(a)
  \/ BackupError(a)

\* A helper's engine runs only when the helper has started it.
ChildOf(a) == apc[a] \in {"building", "gone"}

Start(b) == (b \in Agents => ChildOf(b)) /\ Launch(b) /\ UNCHANGED agentVars
Continue(b) == (Progress(b) \/ Fail(b) \/ OnExit(b)) /\ UNCHANGED agentVars
Stop(b) == (Signal(b) \/ Crash(b)) /\ UNCHANGED agentVars

AgentNext ==
  \/ \E a \in Agents : Helper(a)
  \/ \E a \in Agents : Killed(a)
  \/ \E a \in Agents : TaskEnds(a)
  \/ \E v \in Vmids : ForeignBackup(v)
  \/ \E x \in volumes : Prune(x)
  \/ \E b \in Builders : Start(b)
  \/ \E b \in Builders : Continue(b)
  \/ \E b \in Builders : Stop(b)
  \/ OpStep /\ UNCHANGED agentVars

allVars == <<vars, agentVars>>

AgentSpec == Init /\ AgentInit /\ [][AgentNext]_allVars

\* Every command of the helper has a timeout and polling a task has a
\* deadline, so a helper that was asked keeps moving; waiting for the engine
\* has neither, and rests on the engine keeping moving.
AgentFairness ==
  /\ \A a \in Agents : WF_allVars(apc[a] \in Busy /\ Helper(a))
  /\ \A a \in Agents : WF_allVars(Start(a))
  /\ \A b \in Builders : WF_allVars(Continue(b))

AgentFairSpec == AgentSpec /\ AgentFairness

-----------------------------------------------------------------------------
(* What the helper promises.                                               *)

Volume == [vmid : Vmids, at : Nat, by : Agents \cup {Operator}]

PositionOK ==
  /\ arow \in [Agents -> Nat]
  /\ \A a \in Agents : arow[a] \in 1..Len(Selection[a])

ReportOK ==
  /\ item \in [Agents -> [Vmids -> ItemState]]
  /\ tvol \in [Agents -> SUBSET Vmids]
  /\ unread \in [Agents -> SUBSET Vmids]
  /\ bvol \in [Agents -> [Vmids -> Volume \cup {None}]]
  /\ result \in [Agents -> {"none", "blocked", "error", "failed", "succeeded"}]

BackupOK ==
  /\ task \in [Agents -> [vmid : Vmids, state : TaskState] \cup {None}]
  /\ before \in [Agents -> SUBSET Volume]
  /\ volumes \subseteq Volume
  /\ stamp \in Nat
  /\ backed \in [Agents -> SUBSET Vmids]
  /\ foreign \in [Agents -> BOOLEAN]

AgentTypeOK ==
  /\ apc \in [Agents -> {"idle", "done", "gone"} \cup Busy]
  /\ PositionOK /\ ReportOK /\ BackupOK

\* VMIDs that are no longer what the engine of a left: an operator or a run
\* with --replace had them since.  The helper holds no lock and cannot know.
Disturbed(a) == meddled[a] \cup UNION {replaced[b] : b \in Builders}

\* A succeeded result names templates the helper's own engine made, all of
\* them complete: never those of another run it lost a race against.
SuccessMeansOwn ==
  [][\A a \in Agents :
       result[a] # "succeeded" /\ result'[a] = "succeeded" =>
         \A v \in Rows(a) \ Disturbed(a) : CompleteBy(v, a) /\ v \in tvol[a]]_allVars

\* A failed result reports every template the engine did complete, also one
\* whose engine was killed before it recorded it, unless `qm config' failed for
\* that very item.  docs/SECURITY-AUDIT-V3.md promises it without exception:
\* templates that succeeded are kept and reported in the per-item result.
CompleteAreReported ==
  \A a \in Agents :
    result[a] = "failed" =>
      \A v \in Rows(a) \ Disturbed(a) :
        CompleteBy(v, a) => v \in tvol[a] \cup unread[a]

\* Under backupPolicy = required an item succeeds only when a vzdump task of
\* its VMID, started by this helper, ended with exit status OK.
BackedUpMeansTaskOk ==
  \A a \in Agents : \A v \in Rows(a) :
    Required[a] /\ item[a][v] = "succeeded" => v \in backed[a]

Reported(a, v) == bvol[a][v] = None /\ bvol'[a][v] # None

\* The backupVolume of an item was made by this helper's task, unless a
\* backup job was at work on the cluster between the two listings.
BackupVolumeIsOwn ==
  [][\A a \in Agents : \A v \in Rows(a) :
       Reported(a, v) /\ ~foreign[a] =>
         bvol'[a][v] \in {x \in volumes : x.vmid = v /\ x.by = a}]_allVars

\* Once told to execute, a helper that is not killed emits its result, however
\* the engine, PVE and the other runs behave.
EveryRequestAnswered ==
  \A a \in Agents : apc[a] \in Busy ~> apc[a] \in {"done", "gone"}

\* docs/AGENT-BOOTSTRAP.md, exit codes: 1 once execution has begun, 2 for a
\* request that was refused.
ExitCode(a) ==
  IF result[a] \in {"blocked", "error"} THEN 2
  ELSE IF result[a] = "failed" THEN 1 ELSE 0

ExitTwoMeansRefused ==
  \A a \in Agents :
    apc[a] = "done" /\ ExitCode(a) = 2 => created[a] = {}
=============================================================================

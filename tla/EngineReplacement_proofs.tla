---------------------- MODULE EngineReplacement_proofs ----------------------
(***************************************************************************)
(* TemplateEngine implements TemplateReplacement: every step of an engine, *)
(* or of the Operator, is a step of the register of templates or leaves it *)
(* as it is.                                                               *)
(***************************************************************************)
EXTENDS TemplateEngine_proofs

-----------------------------------------------------------------------------
(* What the register needs to know beyond the invariant of the engine.     *)

\* All VMs of run b are on its node: those of the rows it has done, and of
\* its current row from qm create on.
MadeOf(b) ==
  \A v \in Vmids : vm[v] # None /\ vm[v].maker = b =>
    /\ vm[v].node = Home[b]
    /\ pc[b] # "idle"
    /\ pc[b] \in Running =>
         \/ v \in created[b]
         \/ v = Row(b) /\ pc[b] \in {"claim"} \cup Building

\* A template is on its way out only with --replace and after a first check.
ChosenOf(b) ==
  pc[b] \in {"clones", "destroy"} => Replace[b] /\ checked[b][Row(b)] # None

ViewInv == EndInv /\ \A b \in Builders : MadeOf(b) /\ ChosenOf(b)

\* No step of run c makes a VM of another run, or moves one.
LEMMA MakersStay ==
  ASSUME TypeOK, NEW c \in Builders, StepOf(c), NEW v \in Vmids, vm'[v] # None,
         vm'[v].maker # c \/ ~CreateVm(c)
  PROVE  vm[v] # None /\ vm'[v].maker = vm[v].maker /\ vm'[v].node = vm[v].node
<1>1. Row(c) \in Vmids /\ Home[c] \in Nodes
  BY RowType, HomeAssumption
<1>2. CASE CreateVm(c)
  <2>1. vm' = [vm EXCEPT ![Row(c)] = NewVm(Row(c), Home[c], c)]
    BY <1>2 DEF CreateVm
  <2>2. NewVm(Row(c), Home[c], c).maker = c
    BY <1>1, NewVmType
  <2>3. QED
    BY <2>1, <2>2, <1>1, <1>2 DEF TypeOK
<1>3. CASE Configure(c) \/ Convert(c) \/ Finalise(c)
  BY <1>3, QmEdits
<1>4. CASE DestroyOld(c)
  BY <1>4, <1>1 DEF DestroyOld, TypeOK
<1>5. CASE CleanupVm(c)
  BY <1>5 DEF CleanupVm, OnNode, TypeOK
<1>6. CASE ~(CreateVm(c) \/ Configure(c) \/ Convert(c) \/ Finalise(c) \/ DestroyOld(c)
              \/ CleanupVm(c))
  BY <1>6 DEF StepOf, Launch, AcquireLock, LockBusy, PreflightFails, Progress, ReadInventory,
     CheckRow, Download, PrepareRow, Recheck, RecheckClones, Claim, Record, VerifyRow, Backup,
     OpenManifest, WriteEntry, Report, Fail, Signal, Crash, OnExit, InspectOnExit,
     CleanupFails, Leave, pveVars
<1>7. QED
  BY <1>2, <1>3, <1>4, <1>5, <1>6

\* A run's own steps: only qm create adds to its VMs, and no row is forgotten.
LEMMA OwnStepMade ==
  ASSUME TypeOK, NEW b \in Builders, StepOf(b), RunInv(b), MadeOf(b)
  PROVE  MadeOf(b)'
<1> USE DEF Goto, Live, Running, Exiting, Ended, Building
<1>1. Row(b) \in Vmids /\ Home[b] \in Nodes
  BY RowType, HomeAssumption
<1>2. CASE CreateVm(b)
  <2>1. /\ vm' = [vm EXCEPT ![Row(b)] = NewVm(Row(b), Home[b], b)]
        /\ Row(b)' = Row(b) /\ created' = created /\ pc[b] = "create" /\ pc'[b] = "claim"
    BY <1>2 DEF CreateVm, runVars, Row, TypeOK
  <2>2. NewVm(Row(b), Home[b], b).node = Home[b]
    BY <1>1, NewVmType
  <2>3. QED
    BY <2>1, <2>2, <1>1 DEF MadeOf, TypeOK
<1>3. CASE ~CreateVm(b)
  <2>1. \A v \in Vmids : vm'[v] # None =>
          vm[v] # None /\ vm'[v].maker = vm[v].maker /\ vm'[v].node = vm[v].node
    BY <1>3, MakersStay
  <2>2. pc'[b] # "idle"
    BY DEF StepOf, Launch, AcquireLock, LockBusy, PreflightFails, Progress, ReadInventory,
       CheckRow, Download, PrepareRow, Recheck, RecheckClones, DestroyOld, CreateVm, Claim,
       Configure, Convert, Finalise, Record, VerifyRow, Backup, OpenManifest, WriteEntry,
       Report, Fail, Signal, Crash, OnExit, InspectOnExit, CleanupVm, CleanupFails, Leave,
       NextRow, TypeOK
  <2>3. CASE Launch(b)
    BY <2>1, <2>2, <2>3 DEF Launch, AcquireLock, LockBusy, PreflightFails, MadeOf
  <2>4. CASE Record(b)
    BY <2>1, <2>2, <2>4 DEF Record, NextRow, MadeOf, TypeOK
  <2>5. CASE ReadInventory(b) \/ CheckRow(b) \/ Download(b) \/ PrepareRow(b) \/ VerifyRow(b)
             \/ Recheck(b) \/ RecheckClones(b) \/ DestroyOld(b)
             \/ Backup(b) \/ OpenManifest(b) \/ WriteEntry(b) \/ Report(b)
    <3>1. /\ pc[b] \in Running /\ pc[b] \notin {"claim", "configure", "convert", "finalise", "record"}
          /\ created'[b] = created[b]
      BY <2>5 DEF ReadInventory, CheckRow, Download, PrepareRow, VerifyRow, Recheck,
         RecheckClones, DestroyOld, Backup, OpenManifest, WriteEntry, Report, NextRow, runVars
    <3>2. QED
      BY <3>1, <2>1, <2>2 DEF MadeOf
  <2>6. CASE Claim(b) \/ Configure(b) \/ Convert(b) \/ Finalise(b)
    <3>1. /\ pc[b] \in {"claim", "configure", "convert", "finalise"}
          /\ pc'[b] \in {"configure", "convert", "finalise", "record"}
          /\ created'[b] = created[b] /\ Row(b)' = Row(b)
      BY <2>6 DEF Claim, Configure, Convert, Finalise, QmEdit, Row, runVars, TypeOK
    <3>2. QED
      BY <3>1, <2>1, <2>2 DEF MadeOf
  <2>7. CASE Fail(b) \/ Signal(b) \/ Crash(b) \/ OnExit(b)
    <3>1. pc'[b] \notin Running /\ pc[b] # "idle"
      BY <2>7 DEF Fail, Signal, Crash, OnExit, InspectOnExit, CleanupVm, CleanupFails, Leave,
         TypeOK
    <3>2. QED
      BY <3>1, <2>1, <2>2 DEF MadeOf
  <2>8. QED
    BY <1>3, <2>3, <2>4, <2>5, <2>6, <2>7 DEF StepOf, Progress
<1>4. QED
  BY <1>2, <1>3

LEMMA OwnStepChosen ==
  ASSUME TypeOK, NEW b \in Builders, StepOf(b), ChosenOf(b)
  PROVE  ChosenOf(b)'
<1> USE DEF Goto, ChosenOf, TypeOK, Live, Running, Exiting, Ended, Row, runVars
<1>1. CASE Recheck(b)
  BY <1>1 DEF Recheck
<1>2. CASE RecheckClones(b)
  BY <1>2 DEF RecheckClones
<1>3. CASE ~(Recheck(b) \/ RecheckClones(b))
  <2>1. pc'[b] \notin {"clones", "destroy"}
    BY <1>3 DEF StepOf, Launch, AcquireLock, LockBusy, PreflightFails, Progress, ReadInventory,
       CheckRow, Download, PrepareRow, DestroyOld, CreateVm, Claim, Configure, Convert,
       Finalise, Record, VerifyRow, Backup, OpenManifest, WriteEntry, Report, Fail, Signal,
       Crash, OnExit, InspectOnExit, CleanupVm, CleanupFails, Leave, NextRow
  <2>2. QED
    BY <2>1
<1>4. QED
  BY <1>1, <1>2, <1>3

LEMMA ViewInvariant == Spec => []ViewInv
<1> DEFINE Extra == \A b \in Builders : MadeOf(b) /\ ChosenOf(b)
<1>1. Init => Extra
  <2>1. Init => \A v \in Vmids : vm[v] # None => vm[v].maker = Operator
    BY DEF Init, OldTemplate
  <2>2. ASSUME Init, NEW b \in Builders
        PROVE  MadeOf(b) /\ ChosenOf(b)
    <3>1. pc[b] = "idle" /\ \A v \in Vmids : vm[v] # None => vm[v].maker # b
      BY <2>1, <2>2, OtherAssumption DEF Init
    <3>2. QED
      BY <3>1 DEF MadeOf, ChosenOf
  <2>3. QED
    BY <2>2
<1>2. ASSUME EndInv, Extra, [Next]_vars
      PROVE  Extra'
  <2> SUFFICES ASSUME NEW b \in Builders
               PROVE  MadeOf(b)' /\ ChosenOf(b)'
    OBVIOUS
  <2>1. TypeOK /\ RunInv(b) /\ MadeOf(b) /\ ChosenOf(b)
    BY <1>2 DEF EndInv, IInv
  <2>2. CASE StepOf(b)
    BY <2>1, <2>2, OwnStepMade, OwnStepChosen
  <2>3. ASSUME NEW c \in Builders, c # b, StepOf(c)
        PROVE  MadeOf(b)' /\ ChosenOf(b)'
    <3>1. SameRun(b) /\ Row(b)' = Row(b)
      BY <2>1, <2>3, OtherRunsSame DEF SameRun, Row
    <3>2. \A v \in Vmids : vm'[v] # None /\ vm'[v].maker = b =>
            vm[v] # None /\ vm'[v].maker = vm[v].maker /\ vm'[v].node = vm[v].node
      BY <2>1, <2>3, MakersStay
    <3>3. QED
      BY <3>1, <3>2, <2>1 DEF MadeOf, ChosenOf, SameRun
  <2>4. CASE OpStep
    <3>1. ForeignStep
      BY <2>1, <2>4, OpStepFrame
    <3>2. UNCHANGED <<pc, created, checked>> /\ Row(b)' = Row(b)
      BY <3>1 DEF ForeignStep, runVars, Row
    <3>3. \A v \in Vmids : vm'[v] # None /\ vm'[v].maker = b =>
            vm[v] # None /\ vm'[v].maker = vm[v].maker /\ vm'[v].node = vm[v].node
      BY <3>1 DEF ForeignStep
    <3>4. QED
      BY <3>2, <3>3, <2>1 DEF MadeOf, ChosenOf
  <2>5. CASE UNCHANGED vars
    BY <2>1, <2>5 DEF vars, pveVars, runVars, MadeOf, ChosenOf, Row
  <2>6. QED
    BY <1>2, <2>2, <2>3, <2>4, <2>5 DEF Next, StepOf
<1>3. QED
  BY <1>1, <1>2, EndInvariant, PTL DEF Spec, ViewInv

-----------------------------------------------------------------------------
(* How a step looks in the register.                                       *)

PhaseView == [b \in Builders |-> Phase(b)]
SlotView  == [v \in Vmids |-> TemplateSlot(vm[v])]
WorkView  == [b \in Builders |-> InHand(b)]

\* A step of run c changes the phase of no other run, and no other run's slot
\* in hand.
LEMMA RunView ==
  ASSUME TypeOK, NEW c \in Builders, StepOf(c)
  PROVE  /\ PhaseView' = [PhaseView EXCEPT ![c] = Phase(c)']
         /\ WorkView' = [WorkView EXCEPT ![c] = InHand(c)']
<1>1. ASSUME NEW b \in Builders, b # c
      PROVE  Phase(b)' = Phase(b) /\ InHand(b)' = InHand(b)
  <2>1. SameRun(b)
    BY <1>1, OtherRunsSame
  <2>2. QED
    BY <2>1 DEF SameRun, Phase, InHand, Row
<1>2. QED
  BY <1>1 DEF PhaseView, WorkView

\* A change of one VM is a change of its slot.
LEMMA OneSlot ==
  ASSUME NEW v \in Vmids, \A w \in Vmids \ {v} : vm'[w] = vm[w]
  PROVE  SlotView' = [SlotView EXCEPT ![v] = TemplateSlot(vm'[v])]
BY DEF SlotView

LEMMA SlotsSame ==
  ASSUME vm' = vm
  PROVE  SlotView' = SlotView
BY DEF SlotView

\* A run at work is live, and so holds the flock of its node.
LEMMA AtWorkIsLive ==
  ASSUME TypeOK, NEW b \in Builders, RunInv(b), Replacement!AtWork(b)
  PROVE  pc[b] \in Live /\ lock[Home[b]] = b /\ ~ok[b]
<1>1. PhaseView[b] \in {"preparing", "replacing", "failing"}
  BY DEF Replacement!AtWork, PhaseView
<1>2. QED
  BY <1>1 DEF PhaseView, Phase, Preparing, Live, Running, Exiting, RunInv, LockOf

\* The template in the way of the current row was made by nobody at work.
LEMMA NobodyThere ==
  ASSUME ViewInv, NEW b \in Builders, pc[b] \in {"recheck", "clones", "destroy"},
         OnNode(Row(b), Home[b])
  PROVE  Replacement!Unattended(Row(b))
<1>1. /\ TypeOK /\ RunInv(b) /\ Row(b) \in Vmids /\ \A r \in Builders : RunInv(r) /\ MadeOf(r)
      /\ Row(b) \notin created[b]
  BY RowType, RowIsNew DEF ViewInv, EndInv, IInv, RunInv, CreatedOf, Replacing
<1>2. pc[b] \in Running /\ pc[b] \notin {"claim"} \cup Building
  BY DEF Running, Building
<1>3. lock[Home[b]] = b
  BY <1>1, <1>2 DEF RunInv, LockOf, Live
<1>4. ASSUME NEW r \in Builders, Replacement!AtWork(r), SlotView[Row(b)].by = r
      PROVE  FALSE
  <2>1. vm[Row(b)] # None /\ vm[Row(b)].maker = r /\ vm[Row(b)].node = Home[b]
    BY <1>1, <1>4 DEF SlotView, TemplateSlot, OnNode
  <2>2. r # b
    BY <1>1, <1>2, <2>1 DEF MadeOf
  <2>3. Home[r] = Home[b]
    BY <1>1, <2>1 DEF MadeOf
  <2>4. lock[Home[r]] = r
    BY <1>1, <1>4, AtWorkIsLive
  <2>5. QED
    BY <1>3, <2>2, <2>3, <2>4
<1>5. QED
  BY <1>4 DEF Replacement!Unattended, SlotView

-----------------------------------------------------------------------------
(* Each step of an engine is a step of the register, or leaves it alone.   *)

RegisterSame ==
  UNCHANGED <<PhaseView, prepared, SlotView, WorkView, created, meddled>>

LEMMA Unseen ==
  ASSUME TypeOK, NEW b \in Builders, StepOf(b),
         UNCHANGED <<vm, prepared, created, meddled>>,
         Phase(b)' = Phase(b), InHand(b)' = InHand(b)
  PROVE  RegisterSame
<1>1. PhaseView' = [PhaseView EXCEPT ![b] = Phase(b)] /\ WorkView' = [WorkView EXCEPT ![b] = InHand(b)]
  BY RunView
<1>2. PhaseView' = PhaseView /\ WorkView' = WorkView
  BY <1>1 DEF PhaseView, WorkView
<1>3. QED
  BY <1>2, SlotsSame DEF RegisterSame

\* The flock is what makes runs on one node take turns.
LEMMA LaunchView ==
  ASSUME ViewInv, NEW b \in Builders, Launch(b)
  PROVE  Replacement!Begin(b) \/ Replacement!Refuse(b)
<1>1. TypeOK /\ (\A r \in Builders : RunInv(r)) /\ StepOf(b)
  BY DEF ViewInv, EndInv, IInv, StepOf
<1>2. /\ pc[b] = "idle" /\ ~ok[b] /\ current[b] = None
      /\ UNCHANGED <<vm, prepared, created, meddled, ok, current>>
      /\ pc'[b] \in {"inventory", "failed"}
      /\ pc'[b] = "inventory" <=> AcquireLock(b)
  BY <1>1 DEF Launch, AcquireLock, LockBusy, PreflightFails, Goto, pveVars, runVars, historyVars,
     RunInv, DoneOf, CurrentOf, Exiting, Ended, TypeOK
<1>3. /\ Phase(b) = "idle" /\ Phase(b)' = IF AcquireLock(b) THEN "preparing" ELSE "over"
      /\ InHand(b) = None /\ InHand(b)' = None
  BY <1>2 DEF Phase, InHand, Preparing, Running, Exiting
<1>4. /\ PhaseView' = [PhaseView EXCEPT ![b] = Phase(b)'] /\ PhaseView[b] = "idle"
      /\ WorkView' = WorkView /\ SlotView' = SlotView
  BY <1>1, <1>2, <1>3, RunView, SlotsSame DEF PhaseView, WorkView
<1>5. AcquireLock(b) => ~ \E q \in Builders : Home[q] = Home[b] /\ Replacement!AtWork(q)
  BY <1>1, AtWorkIsLive, OtherAssumption DEF AcquireLock
<1>6. QED
  BY <1>2, <1>3, <1>4, <1>5 DEF Replacement!Begin, Replacement!Refuse, PhaseView, WorkView, SlotView

\* The inventory, the first checks and the downloads are not seen.
LEMMA StartView ==
  ASSUME ViewInv, NEW b \in Builders, ReadInventory(b) \/ CheckRow(b) \/ Download(b)
  PROVE  RegisterSame
<1>1. TypeOK /\ RunInv(b) /\ StepOf(b)
  BY DEF ViewInv, EndInv, IInv, StepOf, Progress
<1>2. /\ pc[b] \in {"inventory", "check", "download"}
      /\ pc'[b] \in {"check", "download", "prepare"}
      /\ UNCHANGED <<vm, prepared, created, meddled, ok, current>>
  BY <1>1 DEF ReadInventory, CheckRow, Download, NextRow, Goto, pveVars, runVars, historyVars, TypeOK
<1>3. Phase(b)' = Phase(b) /\ InHand(b)' = InHand(b)
  BY <1>2 DEF Phase, InHand, Preparing
<1>4. QED
  BY <1>1, <1>2, <1>3, Unseen

\* The last row of prepare_images completes the images.
LEMMA PrepareView ==
  ASSUME ViewInv, NEW b \in Builders, PrepareRow(b)
  PROVE  Replacement!Prepare(b, Row(b))
<1>1. TypeOK /\ RunInv(b) /\ StepOf(b)
  BY DEF ViewInv, EndInv, IInv, StepOf, Progress
<1>2. /\ pc[b] = "prepare" /\ pc'[b] = IF LastRow(b) THEN "recheck" ELSE "prepare"
      /\ UNCHANGED <<vm, created, meddled, ok, current>>
      /\ prepared' = [prepared EXCEPT ![b] = @ \cup {Row(b)}]
  BY <1>1 DEF PrepareRow, NextRow, Goto, pveVars, historyVars, TypeOK
<1>3. ~ok[b]
  BY <1>1, <1>2 DEF RunInv, DoneOf, Exiting, Ended
<1>4. /\ Phase(b) = "preparing" /\ Phase(b)' = IF LastRow(b) THEN "replacing" ELSE "preparing"
      /\ InHand(b) = None /\ InHand(b)' = None
  BY <1>2, <1>3 DEF Phase, InHand, Preparing, Running
<1>5. /\ PhaseView' = [PhaseView EXCEPT ![b] = Phase(b)'] /\ PhaseView[b] = "preparing"
      /\ Phase(b)' = Phase(b) => PhaseView' = PhaseView
      /\ WorkView' = WorkView /\ SlotView' = SlotView
  BY <1>1, <1>2, <1>4, RunView, SlotsSame DEF PhaseView, WorkView
<1>6. LastRow(b) => prepared'[b] = Rows(b)
  <2>1. Before(b) \subseteq prepared[b] /\ prepared[b] \subseteq Rows(b)
    BY <1>1, <1>2 DEF RunInv, PreparedOf
  <2>2. prepared'[b] = prepared[b] \cup {Row(b)} /\ Row(b) \in Rows(b)
    BY <1>1, <1>2, RowType DEF TypeOK
  <2>3. QED
    BY <1>1, <2>1, <2>2, LastRowCompletes
<1>7. Row(b) \in [r \in Builders |-> Rows(r)][b] /\ [r \in Builders |-> Rows(r)][b] = Rows(b)
  BY <1>1, RowType
<1>8. QED
  BY <1>2, <1>4, <1>5, <1>6, <1>7 DEF Replacement!Prepare, PhaseView, WorkView, SlotView

\* What a run in its replacing loop can rely on.
LEMMA InTheLoop ==
  ASSUME ViewInv, NEW b \in Builders, pc[b] \in Replacing
  PROVE  /\ TypeOK /\ RunInv(b) /\ HeldOf(b) /\ ChosenOf(b)
         /\ Row(b) \in Vmids /\ Row(b) \in Rows(b) \ created[b]
         /\ Phase(b) = "replacing" /\ PhaseView[b] = "replacing" /\ ~ok[b]
         /\ WorkView[b] = InHand(b)
<1>1. TypeOK /\ RunInv(b) /\ HeldOf(b) /\ ChosenOf(b)
  BY DEF ViewInv, EndInv, IInv
<1>2. /\ pc[b] \in Running /\ pc[b] \notin Preparing \cup {"idle"} \cup Exiting \cup Ended
  BY DEF Replacing, Building, Running, Preparing, Exiting, Ended
<1>3. ~ok[b] /\ created[b] = Before(b)
  BY <1>1, <1>2 DEF RunInv, DoneOf, CreatedOf
<1>4. QED
  BY <1>1, <1>2, <1>3, RowType, RowIsNew DEF Phase, PhaseView, WorkView

\* The second check looks at the template once more, or finds none.
LEMMA RecheckView ==
  ASSUME ViewInv, NEW b \in Builders, Recheck(b)
  PROVE  Replacement!Look(b, Row(b)) \/ RegisterSame
<1>1. pc[b] = "recheck" /\ pc'[b] \in {"clones", "create"} /\ pc[b] \in Replacing /\ StepOf(b)
  BY DEF Recheck, Goto, Replacing, StepOf, Progress, ViewInv, EndInv, IInv, TypeOK
<1>2. UNCHANGED <<vm, prepared, created, ok, current, checked>> /\ Row(b)' = Row(b)
  BY DEF Recheck, pveVars, runVars, Row
<1>3. TypeOK /\ Row(b) \in Vmids /\ PhaseView[b] = "replacing" /\ ~ok[b] /\ Row(b) \in Rows(b) \ created[b]
  BY <1>1, InTheLoop
<1>4. Phase(b)' = Phase(b) /\ InHand(b) = None
  BY <1>1, <1>2, <1>3 DEF Phase, InHand, Preparing, Running
<1>5. CASE pc'[b] = "create"
  <2>1. checked[b][Row(b)] = None /\ meddled' = meddled
    BY <1>3, <1>5 DEF Recheck, Goto, historyVars, TypeOK
  <2>2. InHand(b)' = None
    BY <1>2, <1>5, <2>1 DEF InHand
  <2>3. QED
    BY <1>1, <1>2, <1>3, <1>4, <2>1, <2>2, Unseen
<1>6. CASE pc'[b] = "clones"
  <2>1. /\ Replace[b] /\ Managed(Row(b), Home[b])
        /\ meddled' = [meddled EXCEPT ![b] = @ \ {Row(b)}]
    BY <1>3, <1>6 DEF Recheck, Goto, TypeOK
  <2>2. InHand(b)' = None
    BY <1>6 DEF InHand
  <2>3. PhaseView' = PhaseView /\ WorkView' = WorkView /\ SlotView' = SlotView /\ WorkView[b] = None
    BY <1>1, <1>2, <1>3, <1>4, <2>2, RunView, SlotsSame DEF PhaseView, WorkView
  <2>4. SlotView[Row(b)].state = "template" /\ Replacement!Unattended(Row(b))
    BY <1>1, <1>3, <2>1, NobodyThere DEF SlotView, TemplateSlot, Managed, OnNode
  <2>5. QED
    BY <1>2, <1>3, <2>1, <2>3, <2>4
       DEF Replacement!Look, Replacement!Turn, PhaseView, WorkView, SlotView
<1>7. QED
  BY <1>1, <1>5, <1>6

LEMMA ClonesView ==
  ASSUME ViewInv, NEW b \in Builders, RecheckClones(b) \/ Claim(b)
  PROVE  RegisterSame
<1>1. /\ \/ pc[b] = "clones" /\ pc'[b] = "destroy"
         \/ pc[b] = "claim" /\ pc'[b] = "configure"
      /\ pc[b] \in Replacing /\ StepOf(b)
  BY DEF RecheckClones, Claim, Goto, Replacing, StepOf, Progress, ViewInv, EndInv, IInv, TypeOK
<1>2. UNCHANGED <<vm, prepared, created, ok, checked, meddled>> /\ Row(b)' = Row(b)
  BY DEF RecheckClones, Claim, pveVars, runVars, historyVars, Row
<1>3. Phase(b)' = Phase(b) /\ InHand(b)' = InHand(b)
  BY <1>1, <1>2 DEF Phase, InHand, Preparing, Running
<1>4. QED
  BY <1>1, <1>2, <1>3, Unseen, InTheLoop

\* qm destroy clears a slot that nobody at work has filled.
LEMMA DestroyView ==
  ASSUME ViewInv, NEW b \in Builders, DestroyOld(b)
  PROVE  Replacement!Retire(b, Row(b))
<1>1. pc[b] = "destroy" /\ pc'[b] = "create" /\ pc[b] \in Replacing /\ StepOf(b)
  BY DEF DestroyOld, Goto, Replacing, StepOf, Progress, ViewInv, EndInv, IInv, TypeOK
<1>2. /\ UNCHANGED <<prepared, created, ok, current, checked, meddled>> /\ Row(b)' = Row(b)
      /\ OnNode(Row(b), Home[b]) /\ vm' = [vm EXCEPT ![Row(b)] = None]
  BY DEF DestroyOld, runVars, Row
<1>3. /\ TypeOK /\ RunInv(b) /\ Row(b) \in Vmids /\ PhaseView[b] = "replacing" /\ ~ok[b]
      /\ Row(b) \in Rows(b) \ created[b]
      /\ Replace[b] /\ checked[b][Row(b)] # None
  BY <1>1, InTheLoop DEF ChosenOf
<1>4. Phase(b)' = Phase(b) /\ InHand(b) = None /\ InHand(b)' = Row(b)
  BY <1>1, <1>2, <1>3 DEF Phase, InHand, Preparing, Running
<1>5. /\ PhaseView' = PhaseView /\ WorkView[b] = None
      /\ WorkView' = [WorkView EXCEPT ![b] = Row(b)]
  BY <1>1, <1>3, <1>4, RunView DEF PhaseView, WorkView
<1>6. SlotView' = [SlotView EXCEPT ![Row(b)] = [state |-> "free", by |-> None]]
  <2>1. vm'[Row(b)] = None /\ \A w \in Vmids \ {Row(b)} : vm'[w] = vm[w]
    BY <1>2, <1>3 DEF TypeOK
  <2>2. TemplateSlot(vm'[Row(b)]) = [state |-> "free", by |-> None]
    BY <2>1 DEF TemplateSlot
  <2>3. SlotView' = [SlotView EXCEPT ![Row(b)] = TemplateSlot(vm'[Row(b)])]
    BY <1>3, <2>1, OneSlot
  <2>4. QED
    BY <2>2, <2>3
<1>7. /\ SlotView[Row(b)] # [state |-> "free", by |-> None]
      /\ SlotView[Row(b)].state = "template" \/ Row(b) \in meddled[b]
      /\ Replacement!Unattended(Row(b))
  <2>1. vm[Row(b)] # None /\ (Row(b) \notin meddled[b] => Managed(Row(b), Home[b]))
    BY <1>1, <1>2, <1>3 DEF RunInv, WindowOf, OnNode
  <2>2. SlotView[Row(b)].state \in {"draft", "template", "foreign"}
    BY <1>3, <2>1 DEF SlotView, TemplateSlot
  <2>3. Row(b) \notin meddled[b] => SlotView[Row(b)].state = "template"
    BY <1>3, <2>1 DEF SlotView, TemplateSlot, Managed
  <2>4. QED
    BY <1>1, <1>2, <2>2, <2>3, NobodyThere
<1>8. QED
  BY <1>2, <1>3, <1>5, <1>6, <1>7
     DEF Replacement!Retire, Replacement!Turn, Replacement!Free, PhaseView, WorkView, SlotView

\* qm create fills a free slot with a draft.
LEMMA CreateView ==
  ASSUME ViewInv, NEW b \in Builders, CreateVm(b)
  PROVE  Replacement!Draft(b, Row(b))
<1>1. pc[b] = "create" /\ pc'[b] = "claim" /\ pc[b] \in Replacing /\ StepOf(b)
  BY DEF CreateVm, Goto, Replacing, StepOf, Progress, ViewInv, EndInv, IInv, TypeOK
<1>2. /\ UNCHANGED <<prepared, created, ok, current, checked>> /\ Row(b)' = Row(b)
      /\ vm[Row(b)] = None /\ vm' = [vm EXCEPT ![Row(b)] = NewVm(Row(b), Home[b], b)]
      /\ meddled' = [meddled EXCEPT ![b] = @ \ {Row(b)}]
  BY DEF CreateVm, runVars, Row
<1>3. /\ TypeOK /\ Row(b) \in Vmids /\ PhaseView[b] = "replacing" /\ ~ok[b]
      /\ Row(b) \in Rows(b) \ created[b]
  BY <1>1, InTheLoop
<1>4. Phase(b)' = Phase(b) /\ InHand(b) \in {None, Row(b)} /\ InHand(b)' = Row(b)
  BY <1>1, <1>2, <1>3 DEF Phase, InHand, Preparing, Running
<1>5. /\ PhaseView' = PhaseView /\ WorkView[b] \in {None, Row(b)}
      /\ WorkView' = [WorkView EXCEPT ![b] = Row(b)]
  BY <1>1, <1>3, <1>4, RunView DEF PhaseView, WorkView
<1>6. SlotView' = [SlotView EXCEPT ![Row(b)] = [state |-> "draft", by |-> b]]
  <2>1. /\ vm'[Row(b)] = NewVm(Row(b), Home[b], b)
        /\ \A w \in Vmids \ {Row(b)} : vm'[w] = vm[w]
    BY <1>2, <1>3 DEF TypeOK
  <2>2. /\ vm'[Row(b)] # None /\ vm'[Row(b)].tag = "build" /\ vm'[Row(b)].maker = b
        /\ b # Operator
    BY <1>3, <2>1, NewVmType, HomeAssumption, OtherAssumption
  <2>3. TemplateSlot(vm'[Row(b)]) = [state |-> "draft", by |-> b]
    BY <2>2 DEF TemplateSlot
  <2>4. QED
    BY <1>3, <2>1, <2>3, OneSlot
<1>7. SlotView[Row(b)] = [state |-> "free", by |-> None]
  BY <1>2, <1>3 DEF SlotView, TemplateSlot
<1>8. QED
  BY <1>2, <1>3, <1>5, <1>6, <1>7
     DEF Replacement!Draft, Replacement!Turn, Replacement!Free, Replacement!Made, PhaseView,
         WorkView, SlotView

\* The qm edits turn the VM in hand into a template, or show nothing.
LEMMA EditView ==
  ASSUME ViewInv, NEW b \in Builders, Configure(b) \/ Convert(b) \/ Finalise(b)
  PROVE  Replacement!Complete(b, Row(b)) \/ RegisterSame
<1>1. /\ pc[b] \in {"configure", "convert", "finalise"}
      /\ pc'[b] \in {"convert", "finalise", "record"}
      /\ Finalise(b) => pc[b] = "finalise"
      /\ pc[b] \in Replacing /\ StepOf(b)
  BY DEF Configure, Convert, Finalise, Goto, Replacing, Building, StepOf, Progress, ViewInv,
     EndInv, IInv, TypeOK
<1>2. UNCHANGED <<prepared, created, ok, current, checked, meddled>> /\ Row(b)' = Row(b)
  BY DEF Configure, Convert, Finalise, QmEdit, runVars, historyVars, Row
<1>3. /\ TypeOK /\ RunInv(b) /\ HeldOf(b) /\ Row(b) \in Vmids /\ PhaseView[b] = "replacing" /\ ~ok[b]
      /\ Row(b) \in Rows(b) \ created[b]
  BY <1>1, InTheLoop
<1>4. Phase(b)' = Phase(b) /\ InHand(b) = Row(b) /\ InHand(b)' = Row(b)
  BY <1>1, <1>2, <1>3 DEF Phase, InHand, Preparing, Running
<1>5. PhaseView' = PhaseView /\ WorkView' = WorkView /\ WorkView[b] = Row(b)
  BY <1>1, <1>3, <1>4, RunView DEF PhaseView, WorkView
<1>6. /\ vm[Row(b)] \in Vm /\ vm[Row(b)] # None /\ vm[Row(b)].node = Home[b]
      /\ vm'[Row(b)] # None /\ vm'[Row(b)].maker = vm[Row(b)].maker
      /\ vm'[Row(b)].template = (vm[Row(b)].template \/ Convert(b))
      /\ vm'[Row(b)].tag = IF Finalise(b) THEN "project" ELSE vm[Row(b)].tag
      /\ \A w \in Vmids \ {Row(b)} : vm'[w] = vm[w]
  BY <1>3, QmEdits DEF TypeOK
<1>7. /\ vm[Row(b)].maker = b \/ (vm[Row(b)].maker = Operator /\ Row(b) \in meddled[b])
      /\ Finalise(b) /\ vm[Row(b)].maker # Operator => vm[Row(b)].template
  <2>1. vm[Row(b)].maker \in Builders \cup {Operator}
    BY <1>6 DEF Vm
  <2>2. Holding(b) /\ OnNode(Row(b), Home[b])
    BY <1>1, <1>6 DEF Holding, Building, OnNode
  <2>3. vm[Row(b)].maker \in Builders => vm[Row(b)].maker = b
    BY <1>3, <2>2 DEF HeldOf
  <2>4. Row(b) \notin meddled[b] => vm[Row(b)].maker = b
    BY <1>1, <1>3 DEF RunInv, BuildingOf, Building
  <2>5. Finalise(b) /\ vm[Row(b)].maker \in Builders => vm[Row(b)].template
    BY <1>1, <1>3, <2>2 DEF RunInv, StageOf
  <2>6. QED
    BY <2>1, <2>3, <2>4, <2>5, OtherAssumption
<1>8. /\ TemplateSlot(vm[Row(b)]).by = vm[Row(b)].maker
      /\ TemplateSlot(vm[Row(b)]).state \in {"draft", "template", "foreign"}
      /\ TemplateSlot(vm'[Row(b)]) \in
           {TemplateSlot(vm[Row(b)]), [TemplateSlot(vm[Row(b)]) EXCEPT !.state = "template"]}
  <2> DEFINE old == TemplateSlot(vm[Row(b)])
             new == TemplateSlot(vm'[Row(b)])
  <2>1. /\ old.by = vm[Row(b)].maker /\ old.state \in {"draft", "template", "foreign"}
        /\ old = [state |-> old.state, by |-> old.by]
        /\ new = [state |-> new.state, by |-> old.by]
        /\ new.state \in {"draft", "template", "foreign"}
    BY <1>6 DEF TemplateSlot
  <2>2. CASE new.state \in {"template", old.state}
    <3>1. [old EXCEPT !.state = "template"] = [state |-> "template", by |-> old.by]
      BY <2>1
    <3>2. QED
      BY <2>1, <2>2, <3>1
  <2>3. new.state \in {"template", old.state}
    <3>1. vm[Row(b)].template => vm'[Row(b)].template
      BY <1>6
    <3>2. CASE Finalise(b)
      BY <3>1, <3>2, <1>6, <1>7 DEF TemplateSlot
    <3>3. CASE ~Finalise(b)
      BY <3>1, <3>3, <1>6 DEF TemplateSlot
    <3>4. QED
      BY <3>2, <3>3
  <2>4. QED
    BY <2>1, <2>2, <2>3
<1>9. /\ SlotView' = [SlotView EXCEPT ![Row(b)] = TemplateSlot(vm'[Row(b)])]
      /\ SlotView[Row(b)] = TemplateSlot(vm[Row(b)])
  <2>1. SlotView' = [SlotView EXCEPT ![Row(b)] = TemplateSlot(vm'[Row(b)])]
    BY <1>3, <1>6, OneSlot
  <2>2. QED
    BY <1>3, <2>1 DEF SlotView
<1>10. CASE TemplateSlot(vm'[Row(b)]) = TemplateSlot(vm[Row(b)])
  BY <1>2, <1>5, <1>9, <1>10 DEF RegisterSame, SlotView
<1>11. CASE TemplateSlot(vm'[Row(b)]) = [TemplateSlot(vm[Row(b)]) EXCEPT !.state = "template"]
  <2>1. SlotView' = [SlotView EXCEPT ![Row(b)].state = "template"]
    BY <1>9, <1>11
  <2>2. /\ SlotView[Row(b)] # [state |-> "free", by |-> None]
        /\ \/ SlotView[Row(b)].by = b
           \/ SlotView[Row(b)].by = Operator /\ Row(b) \in meddled[b]
    BY <1>7, <1>8, <1>9
  <2>3. QED
    BY <1>2, <1>3, <1>5, <2>1, <2>2
       DEF Replacement!Complete, Replacement!Turn, Replacement!Own, Replacement!Free, PhaseView,
           WorkView, SlotView
<1>12. QED
  BY <1>8, <1>10, <1>11

\* A row is done only when its slot shows a template of this run.
LEMMA RecordView ==
  ASSUME ViewInv, NEW b \in Builders, Record(b)
  PROVE  Replacement!Give(b, Row(b))
<1>1. pc[b] = "record" /\ pc'[b] \in {"recheck", "verify"} /\ pc[b] \in Replacing /\ StepOf(b)
  BY DEF Record, NextRow, Goto, Replacing, Building, StepOf, Progress, ViewInv, EndInv, IInv, TypeOK
<1>2. /\ UNCHANGED <<vm, prepared, ok, checked, meddled>>
      /\ created' = [created EXCEPT ![b] = @ \cup {Row(b)}]
  BY DEF Record, pveVars, historyVars
<1>3. TypeOK /\ RunInv(b) /\ Row(b) \in Vmids /\ PhaseView[b] = "replacing" /\ ~ok[b]
  BY <1>1, InTheLoop
<1>4. Phase(b)' = Phase(b) /\ InHand(b) = Row(b) /\ InHand(b)' = None
  BY <1>1, <1>2, <1>3 DEF Phase, InHand, Preparing, Running
<1>5. /\ PhaseView' = PhaseView /\ WorkView[b] = Row(b) /\ SlotView' = SlotView
      /\ WorkView' = [WorkView EXCEPT ![b] = None]
  BY <1>1, <1>2, <1>3, <1>4, RunView, SlotsSame DEF PhaseView, WorkView
<1>6. Row(b) \in meddled[b] \/ SlotView[Row(b)] = [state |-> "template", by |-> b]
  <2>1. Row(b) \notin meddled[b] => /\ vm[Row(b)] # None /\ vm[Row(b)].maker = b
                                    /\ vm[Row(b)].template /\ vm[Row(b)].tag = "project"
    BY <1>1, <1>3 DEF RunInv, BuildingOf, Building, OnNode
  <2>2. QED
    BY <1>3, <2>1 DEF SlotView, TemplateSlot
<1>7. QED
  BY <1>2, <1>3, <1>5, <1>6
     DEF Replacement!Give, Replacement!Made, PhaseView, WorkView, SlotView

\* What follows the replacing loop is not seen, up to the report.
LEMMA CloseView ==
  ASSUME ViewInv, NEW b \in Builders,
         VerifyRow(b) \/ Backup(b) \/ OpenManifest(b) \/ WriteEntry(b) \/ Report(b)
  PROVE  Replacement!Finish(b) \/ RegisterSame
<1>1. TypeOK /\ RunInv(b) /\ StepOf(b)
  BY DEF ViewInv, EndInv, IInv, StepOf, Progress
<1>2. /\ pc[b] \in Closing
      /\ UNCHANGED <<vm, prepared, created, meddled, current>>
      /\ \/ pc'[b] \in Closing /\ ok' = ok /\ ~Report(b)
         \/ pc'[b] = "exit" /\ ok'[b] /\ Report(b)
  BY <1>1 DEF VerifyRow, Backup, OpenManifest, WriteEntry, Report, NextRow, Goto, pveVars, runVars,
     historyVars, TypeOK, Closing
<1>3. ~ok[b] /\ current[b] = None /\ created[b] = Rows(b)
  BY <1>1, <1>2 DEF RunInv, DoneOf, CurrentOf, CreatedOf, Closing, Running, Building, Exiting, Ended
<1>4. InHand(b) = None /\ InHand(b)' = None /\ Phase(b) = "replacing"
  BY <1>2, <1>3 DEF Phase, InHand, Preparing, Closing, Running, Exiting
<1>5. CASE pc'[b] \in Closing /\ ok' = ok
  <2>1. Phase(b)' = "replacing"
    BY <1>3, <1>5 DEF Phase, Closing, Preparing, Running, Exiting
  <2>2. QED
    BY <1>1, <1>2, <1>4, <2>1, Unseen
<1>6. CASE pc'[b] = "exit" /\ ok'[b]
  <2>1. Phase(b)' = "done"
    BY <1>6 DEF Phase
  <2>2. /\ PhaseView[b] = "replacing" /\ PhaseView' = [PhaseView EXCEPT ![b] = "done"]
        /\ WorkView[b] = None /\ WorkView' = WorkView /\ SlotView' = SlotView
    BY <1>1, <1>2, <1>4, <2>1, RunView, SlotsSame DEF PhaseView, WorkView
  <2>3. QED
    BY <1>2, <1>3, <2>2 DEF Replacement!Finish, PhaseView, WorkView, SlotView
<1>7. QED
  BY <1>2, <1>5, <1>6

\* A failing command or a signal: on_exit knows of the slot in hand, or of none.
LEMMA FailView ==
  ASSUME ViewInv, NEW b \in Builders, Fail(b) \/ Signal(b)
  PROVE  Replacement!Fall(b)
<1>1. TypeOK /\ RunInv(b) /\ StepOf(b)
  BY DEF ViewInv, EndInv, IInv, StepOf
<1>2. /\ pc[b] \in Running /\ pc'[b] = "exit"
      /\ UNCHANGED <<vm, prepared, created, meddled, ok, current>>
  BY <1>1 DEF Fail, Signal, pveVars, runVars, historyVars, TypeOK
<1>3. ~ok[b] /\ (current[b] # None => pc[b] \in Building /\ current[b] = Row(b))
  BY <1>1, <1>2 DEF RunInv, DoneOf, CurrentOf, Running, Exiting, Ended
<1>4. /\ Phase(b) \in {"preparing", "replacing"} /\ Phase(b)' = "failing"
      /\ InHand(b)' \in {None, InHand(b)}
  BY <1>2, <1>3 DEF Phase, InHand, Preparing, Running, Exiting, Building
<1>5. /\ PhaseView[b] \in {"preparing", "replacing"}
      /\ PhaseView' = [PhaseView EXCEPT ![b] = "failing"]
      /\ WorkView' = WorkView \/ WorkView' = [WorkView EXCEPT ![b] = None]
      /\ SlotView' = SlotView
  BY <1>1, <1>2, <1>4, RunView, SlotsSame DEF PhaseView, WorkView
<1>6. QED
  BY <1>2, <1>5 DEF Replacement!Fall, PhaseView, WorkView, SlotView

\* The loss of the process before main() returned, or the end of on_exit.
LEMMA EndView ==
  ASSUME ViewInv, NEW b \in Builders, Crash(b) \/ Leave(b)
  PROVE  Replacement!Stop(b) \/ RegisterSame
<1>1. TypeOK /\ RunInv(b) /\ StepOf(b)
  BY DEF ViewInv, EndInv, IInv, StepOf, OnExit
<1>2. /\ pc[b] \in Live /\ pc'[b] \in Ended
      /\ UNCHANGED <<vm, prepared, created, meddled, ok, current>>
      /\ pc'[b] = "succeeded" => ok[b]
  BY <1>1 DEF Crash, Leave, Goto, pveVars, runVars, historyVars, TypeOK, Live, Exiting, Ended
<1>3. InHand(b)' = None
  BY <1>2 DEF InHand, Ended
<1>4. CASE ok[b]
  <2>1. pc[b] \in Exiting /\ current[b] = None
    BY <1>1, <1>2, <1>4, RowType DEF RunInv, DoneOf, CreatedOf, CurrentOf, Live, Running, Exiting, Ended
  <2>2. InHand(b) = None /\ Phase(b) = "done" /\ Phase(b)' = "done"
    BY <1>2, <1>4, <2>1 DEF InHand, Phase, Exiting
  <2>3. QED
    BY <1>1, <1>2, <1>3, <2>2, Unseen
<1>5. CASE ~ok[b]
  <2>1. Phase(b) \in {"preparing", "replacing", "failing"} /\ Phase(b)' = "over"
    BY <1>2, <1>5 DEF Phase, Live, Running, Exiting, Ended, Preparing
  <2>2. /\ PhaseView[b] \in {"preparing", "replacing", "failing"}
        /\ PhaseView' = [PhaseView EXCEPT ![b] = "over"]
        /\ WorkView' = [WorkView EXCEPT ![b] = None]
        /\ SlotView' = SlotView
    BY <1>1, <1>2, <1>3, <2>1, RunView, SlotsSame DEF PhaseView
  <2>3. QED
    BY <1>2, <2>2 DEF Replacement!Stop, Replacement!AtWork, PhaseView, WorkView, SlotView
<1>6. QED
  BY <1>4, <1>5

\* on_exit clears the slot in hand, or lets go of it.
LEMMA ExitView ==
  ASSUME ViewInv, NEW b \in Builders, InspectOnExit(b) \/ CleanupVm(b) \/ CleanupFails(b)
  PROVE  (\E v \in Vmids : Replacement!Discard(b, v)) \/ RegisterSame
<1>1. TypeOK /\ RunInv(b) /\ HeldOf(b) /\ StepOf(b)
  BY DEF ViewInv, EndInv, IInv, StepOf, OnExit
<1>2. /\ pc[b] \in {"exit", "cleanup"} /\ pc'[b] \in {"cleanup", "leave"}
      /\ UNCHANGED <<prepared, created, meddled, ok, current>>
      /\ vm' = vm \/ CleanupVm(b)
      /\ CleanupVm(b) => pc[b] = "cleanup" /\ pc'[b] = "leave"
  BY <1>1 DEF InspectOnExit, CleanupVm, CleanupFails, Goto, pveVars, runVars, historyVars, TypeOK
<1>3. /\ Phase(b)' = Phase(b) /\ Phase(b) = IF ok[b] THEN "done" ELSE "failing"
      /\ InHand(b) = current[b]
      /\ InHand(b)' = IF pc'[b] = "cleanup" THEN current[b] ELSE None
  BY <1>2 DEF Phase, InHand, Preparing, Running, Exiting
<1>4. ok[b] => current[b] = None
  BY <1>1, <1>2, RowType DEF RunInv, CreatedOf, CurrentOf
<1>5. current[b] = None => ~CleanupVm(b)
  BY <1>1, <1>2 DEF RunInv, CleanupOf
<1>6. CASE InHand(b)' = InHand(b)
  <2>1. vm' = vm
    BY <1>2, <1>3, <1>5, <1>6
  <2>2. QED
    BY <1>1, <1>2, <1>3, <1>6, <2>1, Unseen
<1>7. CASE InHand(b)' # InHand(b)
  <2>1. /\ current[b] \in Vmids /\ current[b] = Row(b) /\ ~ok[b] /\ InHand(b)' = None
        /\ current[b] # None
    BY <1>1, <1>3, <1>4, <1>7 DEF RunInv, CurrentOf, TypeOK
  <2>2. /\ PhaseView[b] = "failing" /\ PhaseView' = PhaseView
        /\ WorkView[b] = Row(b) /\ WorkView' = [WorkView EXCEPT ![b] = None]
    BY <1>1, <1>3, <2>1, RunView DEF PhaseView, WorkView
  <2>3. CASE vm' = vm
    <3>1. SlotView' = SlotView
      BY <2>3, SlotsSame
    <3>2. Replacement!Discard(b, Row(b))
      BY <1>2, <2>2, <3>1 DEF Replacement!Discard, PhaseView, WorkView, SlotView
    <3>3. QED
      BY <2>1, <3>2
  <2>4. CASE CleanupVm(b)
    <3>1. /\ vm[Row(b)] # None /\ vm[Row(b)].node = Home[b]
          /\ vm' = [vm EXCEPT ![Row(b)] = None]
      BY <2>1, <2>4 DEF CleanupVm, OnNode
    <3>2. vm[Row(b)].maker \in Builders \cup {Operator}
      BY <1>1, <2>1, <3>1 DEF TypeOK, Vm
    <3>3. vm[Row(b)].maker \in Builders => vm[Row(b)].maker = b
      BY <1>1, <1>2, <2>1, <3>1 DEF HeldOf, Holding, OnNode
    <3>4. Row(b) \notin meddled[b] => vm[Row(b)].maker = b /\ vm[Row(b)].tag = "build"
      BY <1>1, <1>2, <2>1, <2>4 DEF RunInv, CleanupOf
    <3>5. /\ SlotView[Row(b)].by = vm[Row(b)].maker
          /\ SlotView[Row(b)].state \in {"draft", "template", "foreign"}
          /\ Row(b) \notin meddled[b] => SlotView[Row(b)].state = "draft"
      BY <2>1, <3>1, <3>4, OtherAssumption DEF SlotView, TemplateSlot
    <3>6. /\ SlotView[Row(b)] # [state |-> "free", by |-> None]
          /\ \/ SlotView[Row(b)].by = b
             \/ SlotView[Row(b)].by = Operator /\ Row(b) \in meddled[b]
          /\ SlotView[Row(b)].state = "draft" \/ Row(b) \in meddled[b]
      BY <3>2, <3>3, <3>4, <3>5
    <3>7. SlotView' = [SlotView EXCEPT ![Row(b)] = [state |-> "free", by |-> None]]
      <4>1. vm'[Row(b)] = None /\ \A w \in Vmids \ {Row(b)} : vm'[w] = vm[w]
        BY <1>1, <2>1, <3>1 DEF TypeOK
      <4>2. TemplateSlot(vm'[Row(b)]) = [state |-> "free", by |-> None]
        BY <4>1 DEF TemplateSlot
      <4>3. SlotView' = [SlotView EXCEPT ![Row(b)] = TemplateSlot(vm'[Row(b)])]
        BY <2>1, <4>1, OneSlot
      <4>4. QED
        BY <4>2, <4>3
    <3>8. Replacement!Discard(b, Row(b))
      BY <1>2, <2>2, <3>6, <3>7
         DEF Replacement!Discard, Replacement!Own, Replacement!Free, PhaseView, WorkView, SlotView
    <3>9. QED
      BY <2>1, <3>8
  <2>5. QED
    BY <1>2, <2>3, <2>4
<1>8. QED
  BY <1>6, <1>7

-----------------------------------------------------------------------------
(* Steps of the Operator, and the theorem.                                 *)

\* An edit by the Operator keeps what a slot shows, or spoils it.
LEMMA OpEditSlot ==
  ASSUME TypeOK, NEW v \in Vmids, OpEdit(v)
  PROVE  /\ vm[v] # None /\ vm'[v] # None /\ \A w \in Vmids \ {v} : vm'[w] = vm[w]
         /\ TemplateSlot(vm'[v]) \in
              {TemplateSlot(vm[v]), [TemplateSlot(vm[v]) EXCEPT !.state = "foreign"]}
<1>1. vm[v] \in Vm /\ vm[v] # None
  BY DEF OpEdit, TypeOK
<1>2. \/ vm' = [vm EXCEPT ![v] = [vm[v] EXCEPT !.name = "foreign"]]
      \/ vm' = [vm EXCEPT ![v] = [vm[v] EXCEPT !.tag = "none"]]
      \/ vm' = [vm EXCEPT ![v] = [vm[v] EXCEPT !.lock = ~@]]
      \/ \E o \in BootOrders :
             vm' = [vm EXCEPT ![v] = [vm[v] EXCEPT !.boot = o]]
  BY DEF OpEdit
<1>3. /\ \A w \in Vmids \ {v} : vm'[w] = vm[w]
      /\ vm'[v].maker = vm[v].maker
      /\ vm'[v].template = vm[v].template
      /\ vm'[v].tag \in {vm[v].tag, "none"}
  BY <1>1, <1>2 DEF Vm, BootOrders, TypeOK
<1>4. vm'[v] # None
  <2>1. ASSUME NEW o \in BootOrders
        PROVE  /\ [vm[v] EXCEPT !.name = "foreign"] \in Vm
               /\ [vm[v] EXCEPT !.tag = "none"] \in Vm
               /\ [vm[v] EXCEPT !.lock = ~@] \in Vm
               /\ [vm[v] EXCEPT !.boot = o] \in Vm
    BY <1>1 DEF Vm
  <2>2. vm'[v] \in Vm
    <3>1. vm'[v] \in { [vm[v] EXCEPT !.name = "foreign"], [vm[v] EXCEPT !.tag = "none"],
                       [vm[v] EXCEPT !.lock = ~@] }
          \/ \E o \in BootOrders : vm'[v] = [vm[v] EXCEPT !.boot = o]
      BY <1>2 DEF TypeOK
    <3>2. ASSUME NEW o \in BootOrders, vm'[v] = [vm[v] EXCEPT !.boot = o]
          PROVE  vm'[v] \in Vm
      BY <2>1, <3>2
    <3>3. "disk" \in BootOrders
      BY DEF BootOrders
    <3> QED
      BY <2>1, <3>1, <3>2, <3>3
  <2>3. QED
    BY <2>2, NoneAssumption
<1>5. CASE vm'[v].tag = vm[v].tag
  BY <1>1, <1>3, <1>4, <1>5 DEF TemplateSlot
<1>6. CASE vm'[v].tag = "none"
  <2>1. TemplateSlot(vm'[v]) = [state |-> "foreign", by |-> vm[v].maker]
    BY <1>3, <1>4, <1>6 DEF TemplateSlot
  <2>2. [TemplateSlot(vm[v]) EXCEPT !.state = "foreign"] = [state |-> "foreign", by |-> vm[v].maker]
    BY <1>1 DEF TemplateSlot
  <2>3. QED
    BY <1>1, <1>3, <1>4, <2>1, <2>2
<1>7. QED
  BY <1>1, <1>3, <1>4, <1>5, <1>6

LEMMA OperatorView ==
  ASSUME TypeOK, OpStep
  PROVE  \E v \in Vmids : Replacement!Disturb(v)
<1>1. PICK v \in Vmids :
        (\E n \in Nodes : OpCreate(v, n)) \/ OpEdit(v) \/ OpDestroy(v) \/ OpClone(v)
  BY DEF OpStep
<1>2. /\ UNCHANGED <<pc, pos, checked, prepared, current, created, ok>>
      /\ meddled' = [b \in Builders |-> meddled[b] \cup {v}]
  BY <1>1 DEF OpCreate, OpEdit, OpDestroy, OpClone, Meddle, runVars
<1>3. PhaseView' = PhaseView /\ WorkView' = WorkView
  BY <1>2 DEF PhaseView, WorkView, Phase, InHand, Row
<1>4. SlotView[v] = TemplateSlot(vm[v])
  BY DEF SlotView
<1> DEFINE Disturbed ==
      \/ SlotView' = [SlotView EXCEPT ![v] = [state |-> "free", by |-> None]]
      \/ /\ SlotView[v] # [state |-> "free", by |-> None]
         /\ SlotView' = [SlotView EXCEPT ![v].state = "foreign"]
      \/ /\ SlotView[v] = [state |-> "free", by |-> None]
         /\ \E s \in {"template", "foreign"} :
              SlotView' = [SlotView EXCEPT ![v] = [state |-> s, by |-> Operator]]
      \/ SlotView' = SlotView
<1>5. ASSUME NEW n \in Nodes, OpCreate(v, n)
      PROVE  Disturbed
  <2>1. PICK template \in BOOLEAN, tag \in {"project", "none"} :
          vm' = [vm EXCEPT ![v] =
                   [NewVm(v, n, Operator) EXCEPT !.tag = tag, !.template = template,
                                                 !.configured = TRUE,
                                                 !.boot = "disk"]]
    BY <1>5 DEF OpCreate
  <2>2. /\ vm'[v].maker = Operator /\ vm'[v].tag = tag /\ vm'[v].template = template
        /\ \A w \in Vmids \ {v} : vm'[w] = vm[w]
    BY <2>1 DEF NewVm, TypeOK
  <2>3. vm'[v] # None
    <3>1. NewVm(v, n, Operator) \in Vm
      BY NewVmType
    <3>2. [NewVm(v, n, Operator) EXCEPT !.tag = tag, !.template = template,
                                        !.configured = TRUE,
                                        !.boot = "disk"] \in Vm
      BY <3>1 DEF Vm, BootOrders
    <3>3. QED
      BY <2>1, <3>2, NoneAssumption DEF TypeOK
  <2>4. \E s \in {"template", "foreign"} :
          TemplateSlot(vm'[v]) = [state |-> s, by |-> Operator]
    BY <2>2, <2>3 DEF TemplateSlot
  <2>5. SlotView[v] = [state |-> "free", by |-> None]
    BY <1>4, <1>5 DEF OpCreate, TemplateSlot
  <2>6. SlotView' = [SlotView EXCEPT ![v] = TemplateSlot(vm'[v])]
    BY <2>2, OneSlot
  <2>7. QED
    BY <2>4, <2>5, <2>6
<1>6. ASSUME OpEdit(v)
      PROVE  Disturbed
  <2>1. SlotView' = [SlotView EXCEPT ![v] = TemplateSlot(vm'[v])]
    BY <1>6, OpEditSlot, OneSlot
  <2>2. CASE TemplateSlot(vm'[v]) = TemplateSlot(vm[v])
    BY <1>4, <2>1, <2>2 DEF SlotView
  <2>3. CASE TemplateSlot(vm'[v]) = [TemplateSlot(vm[v]) EXCEPT !.state = "foreign"]
    <3>1. TemplateSlot(vm[v]).state # "free"
      BY <1>6, OpEditSlot DEF TemplateSlot
    <3>2. SlotView[v] # [state |-> "free", by |-> None]
      BY <1>4, <3>1
    <3>3. SlotView' = [SlotView EXCEPT ![v].state = "foreign"]
      BY <1>4, <2>1, <2>3
    <3>4. QED
      BY <3>2, <3>3
  <2>4. QED
    BY <1>6, <2>2, <2>3, OpEditSlot
<1>7. ASSUME OpDestroy(v)
      PROVE  Disturbed
  <2>1. vm'[v] = None /\ \A w \in Vmids \ {v} : vm'[w] = vm[w]
    BY <1>7 DEF OpDestroy, TypeOK
  <2>2. TemplateSlot(vm'[v]) = [state |-> "free", by |-> None]
    BY <2>1 DEF TemplateSlot
  <2>3. SlotView' = [SlotView EXCEPT ![v] = TemplateSlot(vm'[v])]
    BY <2>1, OneSlot
  <2>4. QED
    BY <2>2, <2>3
<1>8. ASSUME OpClone(v)
      PROVE  Disturbed
  BY <1>8, SlotsSame DEF OpClone
<1>9. Disturbed
  BY <1>1, <1>5, <1>6, <1>7, <1>8
<1>10. Replacement!Disturb(v)
  BY <1>2, <1>3, <1>9
     DEF Replacement!Disturb, Replacement!Free, Replacement!Made, PhaseView, WorkView, SlotView
<1>11. QED
  BY <1>10

\* Every step of an engine is a step of the register, or not seen in it.
LEMMA EngineView ==
  ASSUME ViewInv, NEW b \in Builders, StepOf(b)
  PROVE  Replacement!Next \/ RegisterSame
<1>1. Row(b) \in Vmids
  BY RowType DEF ViewInv, EndInv, IInv
<1>2. CASE Launch(b)
  BY <1>2, LaunchView DEF Replacement!Next
<1>3. CASE ReadInventory(b) \/ CheckRow(b) \/ Download(b)
  BY <1>3, StartView
<1>4. CASE PrepareRow(b)
  BY <1>1, <1>4, PrepareView DEF Replacement!Next
<1>5. CASE Recheck(b)
  BY <1>1, <1>5, RecheckView DEF Replacement!Next
<1>6. CASE RecheckClones(b) \/ Claim(b)
  BY <1>6, ClonesView
<1>7. CASE DestroyOld(b)
  BY <1>1, <1>7, DestroyView DEF Replacement!Next
<1>8. CASE CreateVm(b)
  BY <1>1, <1>8, CreateView DEF Replacement!Next
<1>9. CASE Configure(b) \/ Convert(b) \/ Finalise(b)
  BY <1>1, <1>9, EditView DEF Replacement!Next
<1>10. CASE Record(b)
  BY <1>1, <1>10, RecordView DEF Replacement!Next
<1>11. CASE VerifyRow(b) \/ Backup(b) \/ OpenManifest(b) \/ WriteEntry(b) \/ Report(b)
  BY <1>11, CloseView DEF Replacement!Next
<1>12. CASE Fail(b) \/ Signal(b)
  BY <1>12, FailView DEF Replacement!Next
<1>13. CASE Crash(b) \/ Leave(b)
  BY <1>13, EndView DEF Replacement!Next
<1>14. CASE InspectOnExit(b) \/ CleanupVm(b) \/ CleanupFails(b)
  BY <1>14, ExitView DEF Replacement!Next
<1>15. QED
  BY <1>2, <1>3, <1>4, <1>5, <1>6, <1>7, <1>8, <1>9, <1>10, <1>11, <1>12, <1>13, <1>14
     DEF StepOf, Progress, OnExit

\* Before any run is launched every slot is free or holds an old template.
LEMMA InitView == Init => Replacement!Init
<1> SUFFICES ASSUME Init PROVE Replacement!Init
  OBVIOUS
<1>1. PhaseView = [b \in Builders |-> "idle"] /\ WorkView = [b \in Builders |-> None]
  BY DEF Init, PhaseView, WorkView, Phase, InHand
<1>2. \A v \in Vmids : TemplateSlot(vm[v]) \in
        {[state |-> "free", by |-> None], [state |-> "template", by |-> Operator]}
  <2>1. ASSUME NEW v \in Vmids, vm[v] # None
        PROVE  TemplateSlot(vm[v]) = [state |-> "template", by |-> Operator]
    <3>1. PICK n \in Nodes : vm[v] = OldTemplate(n)
      BY <2>1 DEF Init
    <3>2. vm[v].tag = "project" /\ vm[v].template /\ vm[v].maker = Operator
      BY <3>1 DEF OldTemplate
    <3>3. QED
      BY <2>1, <3>2 DEF TemplateSlot
  <2>2. QED
    BY <2>1 DEF TemplateSlot
<1>3. SlotView \in [Vmids -> {[state |-> "free", by |-> None],
                              [state |-> "template", by |-> Operator]}]
  BY <1>2 DEF SlotView
<1>4. /\ prepared = [b \in Builders |-> {}] /\ created = [b \in Builders |-> {}]
      /\ meddled = [b \in Builders |-> {}]
  BY DEF Init
<1>5. QED
  BY <1>1, <1>3, <1>4
     DEF Replacement!Init, Replacement!Free, Replacement!Made, PhaseView, WorkView, SlotView

\* For any number of engines, nodes and rows, whatever crashes, fails or is
\* changed by others: the engines implement the register of templates.
THEOREM EngineRefinement == Spec => IsReplacement
<1>1. ViewInv /\ [Next]_vars => [Replacement!Next]_(Replacement!vars)
  <2> SUFFICES ASSUME ViewInv, [Next]_vars
               PROVE  Replacement!Next \/ UNCHANGED Replacement!vars
    OBVIOUS
  <2>1. RegisterSame => UNCHANGED Replacement!vars
    BY DEF RegisterSame, Replacement!vars, PhaseView, WorkView, SlotView
  <2>2. ASSUME NEW b \in Builders, StepOf(b)
        PROVE  Replacement!Next \/ UNCHANGED Replacement!vars
    BY <2>1, <2>2, EngineView
  <2>3. CASE OpStep
    BY <2>3, OperatorView DEF Replacement!Next, ViewInv, EndInv, IInv
  <2>4. CASE UNCHANGED vars
    <3>1. RegisterSame
      BY <2>4 DEF RegisterSame, vars, pveVars, runVars, historyVars, PhaseView, WorkView, SlotView,
         Phase, InHand, Row
    <3>2. QED
      BY <2>1, <3>1
  <2>5. QED
    BY <2>2, <2>3, <2>4 DEF Next, StepOf
<1>2. QED
  BY <1>1, InitView, ViewInvariant, PTL DEF Spec, IsReplacement, Replacement!Spec
=============================================================================

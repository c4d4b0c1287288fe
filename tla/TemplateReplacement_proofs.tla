-------------------- MODULE TemplateReplacement_proofs ----------------------
(***************************************************************************)
(* What the rules of the register of templates amount to, for any number   *)
(* of runs and slots.                                                      *)
(***************************************************************************)
EXTENDS TemplateReplacement, TLAPS

TypeOK ==
  /\ phase \in [Runs -> Phases]
  /\ images \in [Runs -> SUBSET Vmids]
  /\ slot \in [Vmids -> Slots]
  /\ work \in [Runs -> Vmids \cup {Nobody}]
  /\ given \in [Runs -> SUBSET Vmids]
  /\ loose \in [Runs -> SUBSET Vmids]

\* A run finishes with a slot only once, and with none before it begins.
GivenOnce ==
  \A r \in Runs : /\ work[r] # Nobody => work[r] \notin given[r]
                  /\ phase[r] = "idle" => given[r] = {}

RegisterInv == TypeOK /\ GivenOnce /\ GivenStands /\ DoneIsComplete /\ OneAtATime

\* The steps of a run that change a slot, and the one that settles it.
SlotStep(r, v) ==
  Look(r, v) \/ Retire(r, v) \/ Draft(r, v) \/ Complete(r, v) \/ Give(r, v) \/ Discard(r, v)

PhaseStep(r) ==
  \/ Begin(r) \/ Refuse(r) \/ Finish(r) \/ Fall(r) \/ Stop(r)
  \/ \E v \in Vmids : Prepare(r, v)

\* A slot that is not free may become a template, or foreign.
LEMMA SlotState ==
  ASSUME TypeOK, NEW v \in Vmids, slot[v] # Free, NEW s \in {"template", "foreign"}
  PROVE  [slot[v] EXCEPT !.state = s] \in Slots
<1>1. PICK t \in {"draft", "template", "foreign"}, r \in Runs \cup {Others} : slot[v] = Made(t, r)
  BY DEF TypeOK, Slots
<1>2. [slot[v] EXCEPT !.state = s] = Made(s, r)
  BY <1>1 DEF Made
<1>3. QED
  BY <1>2 DEF Slots

LEMMA PhaseStepType ==
  ASSUME TypeOK, NEW r \in Runs, PhaseStep(r)
  PROVE  TypeOK'
<1> USE DEF TypeOK, Phases
<1>1. CASE Begin(r) \/ Refuse(r) \/ Finish(r)
  BY <1>1 DEF Begin, Refuse, Finish
<1>2. CASE Fall(r) \/ Stop(r)
  BY <1>2 DEF Fall, Stop
<1>3. CASE \E v \in Vmids : Prepare(r, v)
  BY <1>3 DEF Prepare
<1>4. QED
  BY <1>1, <1>2, <1>3 DEF PhaseStep

LEMMA SlotStepType ==
  ASSUME TypeOK, NEW r \in Runs, NEW v \in Vmids, SlotStep(r, v)
  PROVE  TypeOK'
<1> USE DEF TypeOK, Turn
<1>1. Free \in Slots /\ Made("draft", r) \in Slots
  BY DEF Slots
<1>2. CASE Look(r, v) \/ Give(r, v)
  BY <1>2 DEF Look, Give
<1>3. CASE Retire(r, v) \/ Draft(r, v) \/ Discard(r, v)
  BY <1>1, <1>3 DEF Retire, Draft, Discard
<1>4. CASE Complete(r, v)
  <2>1. slot[v] # Free
    BY <1>4 DEF Complete, Own
  <2>2. [slot[v] EXCEPT !.state = "template"] \in Slots
    BY <2>1, SlotState
  <2>3. slot' \in [Vmids -> Slots]
    BY <1>4, <2>2 DEF Complete
  <2>4. QED
    BY <1>4, <2>3 DEF Complete
<1>5. QED
  BY <1>2, <1>3, <1>4 DEF SlotStep

LEMMA DisturbType ==
  ASSUME TypeOK, NEW v \in Vmids, Disturb(v)
  PROVE  TypeOK'
<1>1. Free \in Slots /\ Made("template", Others) \in Slots /\ Made("foreign", Others) \in Slots
  BY DEF Slots
<1>2. slot[v] # Free => [slot[v] EXCEPT !.state = "foreign"] \in Slots
  BY SlotState
<1>3. slot' \in [Vmids -> Slots]
  BY <1>1, <1>2 DEF Disturb, TypeOK
<1>4. QED
  BY <1>3 DEF Disturb, TypeOK

\* Phases change without a slot or a finished row changing.
LEMMA PhaseStepInvariant ==
  ASSUME RegisterInv, NEW r \in Runs, PhaseStep(r)
  PROVE  RegisterInv'
<1> USE DEF RegisterInv
<1>1. /\ TypeOK'
      /\ slot' = slot /\ given' = given /\ loose' = loose
      /\ \A q \in Runs : /\ q # r => phase'[q] = phase[q]
                         /\ work'[q] \in {work[q], Nobody}
  BY PhaseStepType DEF PhaseStep, Begin, Refuse, Finish, Fall, Stop, Prepare, TypeOK
<1>2. /\ phase'[r] # "idle"
      /\ phase'[r] = "done" => given[r] = Wanted[r]
      /\ AtWork(r)' => Begin(r) \/ AtWork(r)
      /\ Begin(r) => phase[r] = "idle"
  BY DEF PhaseStep, Begin, Refuse, Finish, Fall, Stop, Prepare, TypeOK, AtWork, DoneIsComplete
<1>3. \A q \in Runs : q # r => (AtWork(q)' <=> AtWork(q))
  BY <1>1 DEF AtWork
<1>4. GivenOnce' /\ DoneIsComplete'
  BY <1>1, <1>2 DEF GivenOnce, DoneIsComplete
<1>5. GivenStands'
  BY <1>1, <1>2, <1>3 DEF GivenStands, GivenOnce
<1>6. OneAtATime'
  BY <1>2, <1>3 DEF OneAtATime, Begin
<1>7. QED
  BY <1>1, <1>4, <1>5, <1>6

\* A run changes no slot that it, or another run at work, has finished with.
LEMMA SlotStepInvariant ==
  ASSUME Others \notin Runs, Nobody \notin Vmids,
         RegisterInv, NEW r \in Runs, NEW v \in Vmids, SlotStep(r, v)
  PROVE  RegisterInv'
<1> USE DEF RegisterInv
<1>1. /\ TypeOK' /\ phase' = phase /\ phase[r] \in {"replacing", "failing"}
      /\ \A w \in Vmids \ {v} : slot'[w] = slot[w]
      /\ \A q \in Runs \ {r} : work'[q] = work[q] /\ given'[q] = given[q] /\ loose'[q] = loose[q]
  BY SlotStepType DEF SlotStep, Look, Retire, Draft, Complete, Give, Discard, Turn, TypeOK
<1>2. /\ given'[r] = given[r] \/ (given'[r] = given[r] \cup {v} /\ Give(r, v))
      /\ work'[r] \in {work[r], Nobody} \/ (work'[r] = v /\ v \notin given[r] /\ given'[r] = given[r])
      /\ Give(r, v) => work'[r] = Nobody
      /\ loose'[r] = loose[r] \/ (loose'[r] = loose[r] \ {v} /\ v \notin given[r] /\ ~Give(r, v))
  BY DEF SlotStep, Look, Retire, Draft, Complete, Give, Discard, Turn, TypeOK
<1>3. \A q \in Runs : AtWork(q)' <=> AtWork(q)
  BY <1>1 DEF AtWork
<1>4. GivenOnce'
  BY <1>1, <1>2 DEF GivenOnce
<1>5. DoneIsComplete' /\ OneAtATime'
  BY <1>1, <1>2, <1>3 DEF DoneIsComplete, OneAtATime
<1>6. ASSUME NEW q \in Runs, AtWork(q), v \in given[q] \ loose[q]
      PROVE  slot'[v] = slot[v]
  <2>1. slot[v].by = q /\ slot[v] # Free
    <3>1. slot[v] = Made("template", q)
      BY <1>6 DEF GivenStands
    <3>2. QED
      BY <3>1 DEF Made, Free
  <2>2. ~Retire(r, v) /\ ~Draft(r, v)
    BY <1>6, <2>1 DEF Retire, Draft, Unattended
  <2>3. Own(r, v) => q = r
    BY <2>1 DEF Own
  <2>4. ~Complete(r, v) /\ ~(Discard(r, v) /\ Own(r, v))
    BY <1>6, <2>3 DEF Complete, Discard, Turn, GivenOnce, Own
  <2>5. QED
    BY <2>2, <2>4 DEF SlotStep, Look, Give, Discard
<1>7. GivenStands'
  <2> SUFFICES ASSUME NEW q \in Runs, AtWork(q), NEW w \in given'[q] \ loose'[q]
               PROVE  slot'[w] = Made("template", q)
    BY <1>3 DEF GivenStands
  <2>1. w \in Vmids
    BY <1>1 DEF TypeOK
  <2>2. CASE w \in given[q] \ loose[q]
    BY <1>1, <1>6, <2>1, <2>2 DEF GivenStands
  <2>3. CASE w \notin given[q] \ loose[q]
    <3>1. q = r /\ w = v /\ Give(r, v) /\ v \notin loose[r]
      BY <1>1, <1>2, <2>3
    <3>2. QED
      BY <3>1 DEF Give
  <2>4. QED
    BY <2>2, <2>3
<1>8. QED
  BY <1>1, <1>4, <1>5, <1>7

LEMMA DisturbInvariant ==
  ASSUME RegisterInv, NEW v \in Vmids, Disturb(v)
  PROVE  RegisterInv'
<1> USE DEF RegisterInv
<1>1. /\ TypeOK' /\ phase' = phase /\ work' = work /\ given' = given
      /\ \A r \in Runs : loose'[r] = loose[r] \cup {v}
      /\ \A w \in Vmids \ {v} : slot'[w] = slot[w]
  BY DisturbType DEF Disturb, TypeOK
<1>2. GivenStands'
  BY <1>1 DEF GivenStands, AtWork, TypeOK
<1>3. QED
  BY <1>1, <1>2 DEF GivenOnce, DoneIsComplete, OneAtATime, AtWork

\* The rules keep runs on one node apart, let nobody but outsiders spoil what
\* a run at work has finished with, and make success mean completeness.
THEOREM RulesSuffice ==
  ASSUME Others \notin Runs, Nobody \notin Vmids
  PROVE  Spec => [](OneAtATime /\ GivenStands /\ DoneIsComplete)
<1>1. Init => RegisterInv
  <2> SUFFICES ASSUME Init PROVE RegisterInv
    OBVIOUS
  <2>1. TypeOK
    BY DEF Init, TypeOK, Phases, Slots, Made
  <2>2. QED
    BY <2>1 DEF Init, RegisterInv, GivenOnce, GivenStands, DoneIsComplete, OneAtATime, AtWork
<1>2. RegisterInv /\ [Next]_vars => RegisterInv'
  <2> SUFFICES ASSUME RegisterInv, [Next]_vars PROVE RegisterInv'
    OBVIOUS
  <2>1. ASSUME NEW r \in Runs, PhaseStep(r)
        PROVE  RegisterInv'
    BY <2>1, PhaseStepInvariant
  <2>2. ASSUME NEW r \in Runs, NEW v \in Vmids, SlotStep(r, v)
        PROVE  RegisterInv'
    BY <2>2, SlotStepInvariant
  <2>3. ASSUME NEW v \in Vmids, Disturb(v)
        PROVE  RegisterInv'
    BY <2>3, DisturbInvariant
  <2>4. CASE UNCHANGED vars
    BY <2>4 DEF vars, RegisterInv, TypeOK, GivenOnce, GivenStands, DoneIsComplete, OneAtATime, AtWork
  <2>5. QED
    BY <2>1, <2>2, <2>3, <2>4 DEF Next, PhaseStep, SlotStep
<1>3. RegisterInv => OneAtATime /\ GivenStands /\ DoneIsComplete
  BY DEF RegisterInv
<1>4. QED
  BY <1>1, <1>2, <1>3, PTL DEF Spec
=============================================================================

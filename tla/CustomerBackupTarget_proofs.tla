-------------------- MODULE CustomerBackupTarget_proofs --------------------
(***************************************************************************)
(* Proofs about CustomerBackupTarget, for any savers, storages and notes.  *)
(***************************************************************************)
EXTENDS CustomerBackupTarget, SequenceTheorems, TLAPS

\* Every line but the last ends in a newline.
Cut(notes) == \A i \in 1..Len(notes) : i < Len(notes) => notes[i].lf

-----------------------------------------------------------------------------
(* Notes.                                                                  *)

\* A line is added at the end; the others stay what they are.
LEMMA AppendedLine ==
  ASSUME NEW n \in Seq(Line), NEW v \in Values \cup Texts
  PROVE  /\ Appended(n, v) \in Seq(Line)
         /\ Len(Appended(n, v)) = Len(n) + 1
         /\ \A i \in 1..Len(n) : Appended(n, v)[i].is = n[i].is
         /\ Appended(n, v)[Len(n) + 1] = [is |-> v, lf |-> TRUE]
         /\ Cut(n) => Cut(Appended(n, v))
<1> DEFINE ended == [i \in 1..Len(n) |-> [n[i] EXCEPT !.lf = @ \/ i = Len(n)]]
           last  == [is |-> v, lf |-> TRUE]
<1>1. Len(n) \in Nat /\ \A i \in 1..Len(n) : n[i] \in Line
  OBVIOUS
<1>2. \A i \in 1..Len(n) : /\ ended[i] \in Line
                           /\ ended[i].is = n[i].is
                           /\ n[i].lf => ended[i].lf
                           /\ i = Len(n) => ended[i].lf
  BY <1>1 DEF Line
<1>3. ended \in Seq(Line) /\ Len(ended) = Len(n)
  BY <1>1, <1>2
<1>4. last \in Line
  BY DEF Line
<1>5. Appended(n, v) = Append(ended, last)
  BY DEF Appended
<1> HIDE DEF ended, last
<1>6. /\ Append(ended, last) \in Seq(Line)
      /\ Len(Append(ended, last)) = Len(n) + 1
      /\ \A i \in 1..Len(n) : Append(ended, last)[i] = ended[i]
      /\ Append(ended, last)[Len(n) + 1] = last
  BY <1>1, <1>3, <1>4
<1>7. Cut(n) => Cut(Append(ended, last))
  BY <1>1, <1>2, <1>6 DEF Cut
<1>8. QED
  BY <1>2, <1>5, <1>6, <1>7 DEF last

\* A line is taken away.
LEMMA WithoutLine ==
  ASSUME NEW n \in Seq(Line), NEW i \in 1..Len(n)
  PROVE  Without(n, i) \in Seq(Line) /\ (Cut(n) => Cut(Without(n, i)))
<1> DEFINE head == SubSeq(n, 1, i - 1)
           tail == SubSeq(n, i + 1, Len(n))
<1>1. Len(n) \in Nat /\ \A k \in 1..Len(n) : n[k] \in Line
  OBVIOUS
<1>2. /\ head \in Seq(Line) /\ Len(head) = i - 1
      /\ \A k \in 1..(i - 1) : head[k] = n[k]
  BY <1>1
<1>3. /\ tail \in Seq(Line) /\ Len(tail) = Len(n) - i
      /\ \A k \in 1..(Len(n) - i) : tail[k] = n[k + i]
  BY <1>1
<1> HIDE DEF head, tail
<1>4. /\ head \o tail \in Seq(Line) /\ Len(head \o tail) = Len(n) - 1
      /\ \A k \in 1..(Len(n) - 1) : (head \o tail)[k] = IF k < i THEN n[k] ELSE n[k + 1]
  <2>1. /\ head \o tail \in Seq(Line)
        /\ Len(head \o tail) = Len(n) - 1
    <3>1. head \o tail \in Seq(Line) /\ Len(head \o tail) = Len(head) + Len(tail)
      BY <1>2, <1>3, ConcatProperties
    <3>2. QED
      BY <1>1, <1>2, <1>3, <3>1
  <2>2. \A k \in 1..(Len(n) - 1) :
          (head \o tail)[k] = IF k < i THEN head[k] ELSE tail[k - (i - 1)]
    BY <1>1, <1>2, <1>3
  <2>3. \A k \in 1..(Len(n) - 1) : ~(k < i) =>
          k - (i - 1) \in 1..(Len(n) - i) /\ (k - (i - 1)) + i = k + 1
    BY <1>1
  <2>4. QED
    BY <1>1, <1>2, <1>3, <2>1, <2>2, <2>3
<1>5. Cut(n) => Cut(head \o tail)
  BY <1>1, <1>4 DEF Cut
<1>6. QED
  BY <1>4, <1>5 DEF Without, head, tail

\* The value of a single marker line.
LEMMA ParseOne ==
  ASSUME NEW n \in Seq(Line), NEW i \in Markers(n), \A j \in Markers(n) : j = i
  PROVE  Parse(n) = n[i].is
BY DEF Parse

\* Valid notes have at most one marker line.
LEMMA OneMarker ==
  ASSUME NEW n \in Seq(Line), Parse(n) # Invalid
  PROVE  \A i, j \in Markers(n) : i = j
BY DEF Parse

\* Merging yields notes again, however the lines are cut.
LEMMA MergeType ==
  ASSUME NEW n \in Seq(Line), NEW v \in Values
  PROVE  Merge(n, v) \in Seq(Line)
<1>1. CASE Markers(n) = {}
  BY <1>1, AppendedLine DEF Merge
<1>2. CASE Markers(n) # {}
  <2> DEFINE i == CHOOSE k \in Markers(n) : TRUE
  <2>1. i \in 1..Len(n) /\ Len(n) \in Nat /\ \A k \in 1..Len(n) : n[k] \in Line
    BY <1>2 DEF Markers
  <2> HIDE DEF i
  <2>2. [n EXCEPT ![i].is = v] \in Seq(Line)
    <3>1. [n[i] EXCEPT !.is = v] \in Line
      BY <2>1 DEF Line
    <3>2. QED
      BY <2>1, <3>1
  <2>3. ASSUME i # Len(n)
        PROVE  SubSeq(n, 1, i - 1) \o <<[is |-> Joined, lf |-> n[i + 1].lf]>>
                 \o SubSeq(n, i + 2, Len(n)) \in Seq(Line)
    <3>1. n[i + 1] \in Line
      BY <2>1, <2>3
    <3>2. [is |-> Joined, lf |-> n[i + 1].lf] \in Line
      BY <3>1 DEF Line, Values
    <3>3. SubSeq(n, 1, i - 1) \in Seq(Line) /\ SubSeq(n, i + 2, Len(n)) \in Seq(Line)
      BY <2>1, <2>3
    <3>4. QED
      BY <3>2, <3>3
  <2>4. QED
    BY <1>2, <2>2, <2>3 DEF Merge, i
<1>3. QED
  BY <1>1, <1>2

\* Merging into valid notes whose lines end in newlines sets the target and
\* leaves every other line at its place.
LEMMA MergeSets ==
  ASSUME NEW n \in Seq(Line), NEW v \in Values, Parse(n) # Invalid, Cut(n)
  PROVE  /\ Cut(Merge(n, v))
         /\ Parse(Merge(n, v)) = v
         /\ DOMAIN Merge(n, v) \ Markers(Merge(n, v)) = DOMAIN n \ Markers(n)
         /\ \A i \in DOMAIN n \ Markers(n) : Merge(n, v)[i].is = n[i].is
<1> DEFINE m == Merge(n, v)
<1>1. m \in Seq(Line)
  BY MergeType
<1>2. CASE Markers(n) = {}
  <2>1. /\ m = Appended(n, v) /\ Len(m) = Len(n) + 1
        /\ \A i \in 1..Len(n) : m[i].is = n[i].is
        /\ m[Len(n) + 1].is = v
        /\ Cut(m)
    <3>1. m = Appended(n, v) /\ v \in Values \cup Texts
      BY <1>2 DEF Merge
    <3> HIDE DEF m
    <3>2. /\ Len(m) = Len(n) + 1
          /\ \A i \in 1..Len(n) : m[i].is = n[i].is
          /\ m[Len(n) + 1] = [is |-> v, lf |-> TRUE]
          /\ Cut(m)
      BY <3>1, AppendedLine
    <3>3. [is |-> v, lf |-> TRUE].is = v
      OBVIOUS
    <3>4. QED
      BY <3>1, <3>2, <3>3
  <2> HIDE DEF m
  <2>2. Markers(m) = {Len(n) + 1}
    BY <1>1, <1>2, <2>1 DEF Markers, IsMarker
  <2>3. Parse(m) = v
    BY <1>1, <2>1, <2>2, ParseOne
  <2>4. DOMAIN m \ Markers(m) = DOMAIN n \ Markers(n)
    <3>1. DOMAIN m = 1..(Len(n) + 1) /\ DOMAIN n = 1..Len(n) /\ Len(n) \in Nat
      BY <1>1, <2>1
    <3>2. QED
      BY <1>2, <2>2, <3>1
  <2>5. QED
    BY <1>2, <2>1, <2>3, <2>4 DEF m
<1>3. CASE Markers(n) # {}
  <2> DEFINE i == CHOOSE k \in Markers(n) : TRUE
  <2>1. i \in Markers(n) /\ i \in 1..Len(n) /\ Len(n) \in Nat
    BY <1>3 DEF Markers
  <2>2. m = [n EXCEPT ![i].is = v]
    BY <1>3, <2>1 DEF Merge, Cut
  <2> HIDE DEF i, m
  <2>3. /\ Len(m) = Len(n)
        /\ m[i].is = v
        /\ \A k \in 1..Len(n) : m[k].lf = n[k].lf /\ (k # i => m[k] = n[k])
    <3>1. n[i] \in Line
      BY <2>1
    <3>2. [n[i] EXCEPT !.is = v].is = v /\ [n[i] EXCEPT !.is = v].lf = n[i].lf
      BY <3>1 DEF Line
    <3>3. QED
      BY <2>1, <2>2, <3>2
  <2>4. Markers(n) = {i}
    <3>1. \A j \in Markers(n) : j = i
      BY <2>1, OneMarker
    <3>2. QED
      BY <2>1, <3>1
  <2>5. Markers(m) = {i}
    BY <1>1, <2>1, <2>3, <2>4 DEF Markers, IsMarker
  <2>6. Parse(m) = v
    BY <1>1, <2>3, <2>5, ParseOne
  <2>7. Cut(m)
    BY <2>3 DEF Cut
  <2>8. QED
    BY <1>1, <2>3, <2>4, <2>5, <2>6, <2>7 DEF m
<1>4. QED
  BY <1>2, <1>3

-----------------------------------------------------------------------------
(* Types.                                                                  *)

LEMMA InitType == Init => TypeOK
BY TargetAssumption DEF Init, TypeOK, Config, NoConfig

LEMMA PublishType ==
  ASSUME TypeOK, NEW s \in Savers, Publish(s)
  PROVE  config' \in Config /\ wrote' \subseteq Savers
<1>1. seen[s] \in Config /\ seen[s].notes \in Seq(Line) /\ Wanted[s] \in Values
  BY TargetAssumption DEF TypeOK, Config, Values
<1>2. Merge(seen[s].notes, Wanted[s]) \in Seq(Line)
  BY <1>1, MergeType
<1>3. QED
  BY <1>1, <1>2 DEF Publish, TypeOK, Config

LEMMA EditType ==
  ASSUME TypeOK, EditConfig
  PROVE  TypeOK'
<1>1. config \in Config /\ config.notes \in Seq(Line)
  BY DEF TypeOK, Config
<1>2. ASSUME NEW to \in Config, Edit(to)
      PROVE  TypeOK'
  BY <1>2 DEF Edit, TypeOK
<1>3. \A what \in Values \cup Texts :
        [config EXCEPT !.notes = Appended(@, what)] \in Config
  BY <1>1, AppendedLine DEF Config
<1>4. \A i \in DOMAIN config.notes : [config EXCEPT !.notes = Without(@, i)] \in Config
  BY <1>1, WithoutLine DEF Config
<1>5. [config EXCEPT !.other = ~@] \in Config
  BY <1>1 DEF Config
<1>6. QED
  BY <1>2, <1>3, <1>4, <1>5 DEF EditConfig

LEMMA NextType == TypeOK /\ [Next]_vars => TypeOK'
<1> SUFFICES ASSUME TypeOK, [Next]_vars PROVE TypeOK'
  OBVIOUS
<1>1. ASSUME NEW s \in Savers, Write(s) \/ WriteTimesOut(s)
      PROVE  TypeOK'
  BY <1>1, PublishType DEF Write, WriteTimesOut, Publish, Goto, TypeOK
<1>2. ASSUME NEW s \in Savers,
             CheckStorage(s) \/ ReadConfig(s) \/ Readback(s) \/ Fail(s)
      PROVE  TypeOK'
  BY <1>2 DEF CheckStorage, ReadConfig, Readback, Fail, Goto, TypeOK
<1>3. ASSUME NEW x \in Storages, StorageChanges(x)
      PROVE  TypeOK'
  BY <1>3 DEF StorageChanges, TypeOK
<1>4. CASE UNCHANGED vars
  BY <1>4 DEF vars, TypeOK
<1>5. QED
  BY <1>1, <1>2, <1>3, <1>4, EditType DEF Next

\* The configuration stays a configuration, whatever is merged into it.
THEOREM TypeCorrect == Spec => []TypeOK
<1>1. QED
  BY InitType, NextType, PTL DEF Spec

-----------------------------------------------------------------------------
(* The register.                                                           *)

\* The notes stay cut into lines by newlines, and what a save is about to
\* replace is not malformed.
RegisterInv ==
  /\ TypeOK
  /\ Cut(config.notes)
  /\ \A s \in Savers : pc[s] = "write" => Parse(seen[s].notes) # Invalid

\* A publication sets the target and nothing else.
LEMMA PublishSets ==
  ASSUME RegisterInv, NEW s \in Savers, pc[s] = "write", Publish(s)
  PROVE  /\ Parse(config.notes) # Invalid
         /\ Parse(config'.notes) = Wanted[s]
         /\ Rest(config') = Rest(config)
         /\ Cut(config'.notes)
<1> DEFINE n == config.notes
           m == Merge(n, Wanted[s])
<1>1. /\ n \in Seq(Line) /\ Wanted[s] \in Values
      /\ Parse(n) # Invalid /\ Cut(n)
  BY TargetAssumption DEF RegisterInv, TypeOK, Config, Values, Publish
<1>2. config'.notes = m /\ config'.other = config.other
  BY DEF Publish, RegisterInv, TypeOK, Config
<1> HIDE DEF n
<1>3. /\ Cut(m) /\ Parse(m) = Wanted[s]
      /\ DOMAIN m \ Markers(m) = DOMAIN n \ Markers(n)
      /\ \A i \in DOMAIN n \ Markers(n) : m[i].is = n[i].is
  BY <1>1, MergeSets
<1> HIDE DEF m
<1>4. [i \in DOMAIN m \ Markers(m) |-> m[i].is] = [i \in DOMAIN n \ Markers(n) |-> n[i].is]
  BY <1>3
<1>5. QED
  BY <1>1, <1>2, <1>3, <1>4 DEF Rest, n

LEMMA RegisterInvStep == RegisterInv /\ [Next]_vars => RegisterInv'
<1> SUFFICES ASSUME RegisterInv, [Next]_vars PROVE RegisterInv'
  OBVIOUS
<1>1. TypeOK'
  BY NextType DEF RegisterInv
<1>2. ASSUME NEW s \in Savers, Write(s) \/ WriteTimesOut(s)
      PROVE  RegisterInv'
  <2>1. Cut(config'.notes)
    BY <1>2, PublishSets DEF Write, WriteTimesOut, Goto
  <2>2. QED
    BY <1>1, <1>2, <2>1 DEF Write, WriteTimesOut, Goto, Publish, RegisterInv, TypeOK
<1>3. ASSUME NEW s \in Savers,
             CheckStorage(s) \/ ReadConfig(s) \/ Readback(s) \/ Fail(s)
      PROVE  RegisterInv'
  BY <1>1, <1>3 DEF CheckStorage, ReadConfig, Readback, Fail, Goto, RegisterInv, TypeOK
<1>4. CASE EditConfig
  <2>1. config \in Config /\ config.notes \in Seq(Line) /\ Cut(config.notes)
    BY DEF RegisterInv, TypeOK, Config
  <2>2. ASSUME NEW to, Edit(to), Cut(to.notes)
        PROVE  RegisterInv'
    BY <1>1, <2>2 DEF Edit, RegisterInv
  <2>3. ASSUME NEW n, Cut(n)
        PROVE  Cut([config EXCEPT !.notes = n].notes)
    BY <2>1, <2>3 DEF Config
  <2>4. \A what \in Values \cup Texts :
          Cut([config EXCEPT !.notes = Appended(@, what)].notes)
    BY <2>1, <2>3, AppendedLine
  <2>5. \A i \in DOMAIN config.notes : Cut([config EXCEPT !.notes = Without(@, i)].notes)
    BY <2>1, <2>3, WithoutLine
  <2>6. Cut([config EXCEPT !.other = ~@].notes)
    BY <2>1 DEF Config
  <2>7. QED
    BY <1>4, <2>2, <2>4, <2>5, <2>6 DEF EditConfig
<1>5. ASSUME NEW x \in Storages, StorageChanges(x)
      PROVE  RegisterInv'
  BY <1>1, <1>5 DEF StorageChanges, RegisterInv
<1>6. CASE UNCHANGED vars
  BY <1>1, <1>6 DEF vars, RegisterInv
<1>7. QED
  BY <1>2, <1>3, <1>4, <1>5, <1>6 DEF Next

\* When the notes are cut into lines by newlines to begin with, publishing is
\* setting an atomic register: no save loses the notes, or the target, that
\* somebody else wrote while it was under way.
THEOREM RegisterRefinement ==
  ASSUME \A n \in InitialNotes : Cut(n)
  PROVE  Spec => IsRegister
<1>1. Init => RegisterInv
  <2>1. Init => TypeOK
    BY InitType
  <2>2. Init => Cut(config.notes) /\ \A s \in Savers : pc[s] # "write"
    BY DEF Init
  <2>3. QED
    BY <2>1, <2>2 DEF RegisterInv
<1>2. Init => Register!Init
  BY DEF Init, Register!Init
<1>3. RegisterInv /\ [Next]_vars => [Register!Next]_(Register!vars)
  <2> SUFFICES ASSUME RegisterInv, [Next]_vars
               PROVE  Register!Next \/ UNCHANGED Register!vars
    OBVIOUS
  <2>1. ASSUME NEW s \in Savers, Write(s) \/ WriteTimesOut(s)
        PROVE  Register!Set(s)
    <3>1. pc[s] = "write" /\ Publish(s)
      BY <2>1 DEF Write, WriteTimesOut, Goto
    <3>2. edits' = edits
      BY <3>1 DEF Publish
    <3>3. QED
      BY <3>1, <3>2, PublishSets DEF Register!Set
  <2>2. ASSUME NEW s \in Savers,
               CheckStorage(s) \/ ReadConfig(s) \/ Readback(s) \/ Fail(s)
        PROVE  UNCHANGED <<config, edits>>
    BY <2>2 DEF CheckStorage, ReadConfig, Readback, Fail
  <2>3. CASE EditConfig
    BY <2>3 DEF EditConfig, Edit, Register!Edit, Register!Next
  <2>4. ASSUME NEW x \in Storages, StorageChanges(x)
        PROVE  Register!Edit
    BY <2>4 DEF StorageChanges, Register!Edit
  <2>5. CASE UNCHANGED vars
    BY <2>5 DEF vars, Register!vars
  <2>6. ASSUME UNCHANGED <<config, edits>>
        PROVE  UNCHANGED Register!vars
    BY <2>6 DEF Register!vars
  <2>7. QED
    BY <2>1, <2>2, <2>3, <2>4, <2>5, <2>6 DEF Next, Register!Next
<1>4. QED
  BY <1>1, <1>2, <1>3, RegisterInvStep, PTL DEF Spec, IsRegister, Register!Spec

\* Of two saves at the same time one gives way, however the notes look.
THEOREM KnowingOverride == Spec => OverridesKnowingly
<1>1. ASSUME TypeOK, [Next]_vars, NEW s \in Savers, Overridden(s)
      PROVE  \E t \in Savers : OverrideOf(t, s)
  <2>1. ASSUME NEW t \in Savers, Write(t) \/ WriteTimesOut(t)
        PROVE  OverrideOf(t, s)
    BY <1>1, <2>1 DEF Write, WriteTimesOut, Goto, Publish, TypeOK, Overridden, OverrideOf
  <2>2. ASSUME NEW t \in Savers, CheckStorage(t) \/ ReadConfig(t) \/ Readback(t) \/ Fail(t)
        PROVE  FALSE
    BY <1>1, <2>2 DEF CheckStorage, ReadConfig, Readback, Fail, Overridden
  <2>3. ~EditConfig
    BY <1>1 DEF EditConfig, Edit, TypeOK, Overridden
  <2>4. \A x \in Storages : ~StorageChanges(x)
    BY <1>1 DEF StorageChanges, TypeOK, Overridden
  <2>5. ~UNCHANGED vars
    BY <1>1 DEF vars, Overridden
  <2>6. QED
    BY <1>1, <2>1, <2>2, <2>3, <2>4, <2>5 DEF Next
<1>2. TypeOK /\ [Next]_vars =>
        [\A s \in Savers : Overridden(s) => \E t \in Savers : OverrideOf(t, s)]_vars
  BY <1>1
<1>3. QED
  BY <1>2, TypeCorrect, PTL DEF Spec, OverridesKnowingly

-----------------------------------------------------------------------------
(* Evidence about the storage.                                             *)

FreshInv ==
  /\ TypeOK
  /\ \A s \in Savers :
       /\ Wanted[s] \in usable => fresh[s]
       /\ pc[s] \notin {"storage", "failed"} \/ s \in wrote =>
            Wanted[s] = Unset \/ fresh[s]

\* No save publishes a storage that was never usable while it ran.
THEOREM FreshEvidence == Spec => []PublishedWasUsable
<1>1. Init => FreshInv
  BY InitType DEF Init, FreshInv
<1>2. FreshInv /\ [Next]_vars => FreshInv'
  <2> SUFFICES ASSUME FreshInv, [Next]_vars PROVE FreshInv'
    OBVIOUS
  <2>1. TypeOK'
    BY NextType DEF FreshInv
  <2>2. ASSUME NEW s \in Savers, Write(s) \/ WriteTimesOut(s)
        PROVE  FreshInv'
    BY <2>1, <2>2 DEF Write, WriteTimesOut, Publish, Goto, FreshInv, TypeOK
  <2>3. ASSUME NEW s \in Savers,
               CheckStorage(s) \/ ReadConfig(s) \/ Readback(s) \/ Fail(s)
        PROVE  FreshInv'
    BY <2>1, <2>3 DEF CheckStorage, ReadConfig, Readback, Fail, Goto, FreshInv, TypeOK
  <2>4. CASE EditConfig
    BY <2>1, <2>4 DEF EditConfig, Edit, FreshInv
  <2>5. ASSUME NEW x \in Storages, StorageChanges(x)
        PROVE  FreshInv'
    BY <2>1, <2>5 DEF StorageChanges, FreshInv, TypeOK
  <2>6. CASE UNCHANGED vars
    BY <2>1, <2>6 DEF vars, FreshInv
  <2>7. QED
    BY <2>2, <2>3, <2>4, <2>5, <2>6 DEF Next
<1>3. FreshInv => PublishedWasUsable
  BY DEF FreshInv, TypeOK, PublishedWasUsable
<1>4. QED
  BY <1>1, <1>2, <1>3, PTL DEF Spec
=============================================================================

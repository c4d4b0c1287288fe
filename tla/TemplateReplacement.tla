------------------------ MODULE TemplateReplacement -------------------------
(***************************************************************************)
(* What TemplateEngine promises: a register of templates, one slot per     *)
(* VMID, in which runs replace the templates they are asked for.  A run    *)
(* touches no slot until all its images are ready, has at most one slot in *)
(* hand, and leaves alone what another run at work has made; runs on one   *)
(* node take turns.  Everybody else may change any slot at any time.       *)
(***************************************************************************)
CONSTANTS
  Runs,       \* processes that replace templates
  Vmids,      \* the slots
  Home,       \* Home[r]: the node r works on
  Wanted,     \* Wanted[r]: the slots r is asked for
  Replaces,   \* Replaces[r]: r may remove a template that is there
  Others,     \* whoever else fills slots
  Nobody      \* no maker, and no slot in hand

VARIABLES
  phase,      \* phase[r]: how far r has come
  images,     \* images[r]: the slots for which r has a booted image
  slot,       \* slot[v]: what is there, and who made it
  work,       \* work[r]: the slot r has in hand, or Nobody
  given,      \* given[r]: the slots r has finished with
  loose       \* loose[r]: slots somebody else changed since r looked

vars == <<phase, images, slot, work, given, loose>>

Phases == {"idle", "preparing", "replacing", "failing", "over", "done"}

Free == [state |-> "free", by |-> Nobody]

Made(state, r) == [state |-> state, by |-> r]

Slots ==
  {Free} \cup {Made(s, r) : s \in {"draft", "template", "foreign"},
                            r \in Runs \cup {Others}}

\* r has the node it works on to itself.
AtWork(r) == phase[r] \in {"preparing", "replacing", "failing"}

\* Nobody who is at work made what is in slot v.
Unattended(v) == ~ \E r \in Runs : AtWork(r) /\ slot[v].by = r

Init ==
  /\ phase = [r \in Runs |-> "idle"]
  /\ images = [r \in Runs |-> {}]
  /\ slot \in [Vmids -> {Free, Made("template", Others)}]
  /\ work = [r \in Runs |-> Nobody]
  /\ given = [r \in Runs |-> {}]
  /\ loose = [r \in Runs |-> {}]

-----------------------------------------------------------------------------
Begin(r) ==
  /\ phase[r] = "idle"
  /\ ~ \E q \in Runs : Home[q] = Home[r] /\ AtWork(q)
  /\ phase' = [phase EXCEPT ![r] = "preparing"]
  /\ UNCHANGED <<images, slot, work, given, loose>>

Refuse(r) ==
  /\ phase[r] = "idle"
  /\ phase' = [phase EXCEPT ![r] = "over"]
  /\ UNCHANGED <<images, slot, work, given, loose>>

\* An image is ready, and if it was the last one, slots may change from now on.
Prepare(r, v) ==
  /\ phase[r] = "preparing"
  /\ v \in Wanted[r]
  /\ images' = [images EXCEPT ![r] = @ \cup {v}]
  /\ \/ UNCHANGED phase
     \/ /\ images'[r] = Wanted[r]
        /\ phase' = [phase EXCEPT ![r] = "replacing"]
  /\ UNCHANGED <<slot, work, given, loose>>

\* r turns to a slot it has not finished with.
Turn(r, v) ==
  /\ phase[r] = "replacing"
  /\ v \in Wanted[r] \ given[r]
  /\ UNCHANGED <<phase, images, given>>

\* r looks at the template it is about to remove.
Look(r, v) ==
  /\ Turn(r, v)
  /\ work[r] = Nobody
  /\ Replaces[r]
  /\ slot[v].state = "template"
  /\ Unattended(v)
  /\ loose' = [loose EXCEPT ![r] = @ \ {v}]
  /\ UNCHANGED <<slot, work>>

Retire(r, v) ==
  /\ Turn(r, v)
  /\ work[r] = Nobody
  /\ Replaces[r]
  /\ slot[v] # Free
  /\ Unattended(v)
  /\ slot[v].state = "template" \/ v \in loose[r]
  /\ slot' = [slot EXCEPT ![v] = Free]
  /\ work' = [work EXCEPT ![r] = v]
  /\ UNCHANGED loose

Draft(r, v) ==
  /\ Turn(r, v)
  /\ work[r] \in {Nobody, v}
  /\ slot[v] = Free
  /\ slot' = [slot EXCEPT ![v] = Made("draft", r)]
  /\ work' = [work EXCEPT ![r] = v]
  /\ loose' = [loose EXCEPT ![r] = @ \ {v}]

\* r may work on what it made, and on what somebody put in its place.
Own(r, v) ==
  /\ work[r] = v
  /\ slot[v] # Free
  /\ slot[v].by = r \/ (slot[v].by = Others /\ v \in loose[r])

Complete(r, v) ==
  /\ Turn(r, v)
  /\ Own(r, v)
  /\ slot' = [slot EXCEPT ![v].state = "template"]
  /\ UNCHANGED <<work, loose>>

Give(r, v) ==
  /\ phase[r] = "replacing"
  /\ work[r] = v
  /\ v \in loose[r] \/ slot[v] = Made("template", r)
  /\ given' = [given EXCEPT ![r] = @ \cup {v}]
  /\ work' = [work EXCEPT ![r] = Nobody]
  /\ UNCHANGED <<phase, images, slot, loose>>

Finish(r) ==
  /\ phase[r] = "replacing"
  /\ given[r] = Wanted[r]
  /\ work[r] = Nobody
  /\ phase' = [phase EXCEPT ![r] = "done"]
  /\ UNCHANGED <<images, slot, work, given, loose>>

\* r fails, and may lose sight of the slot it has in hand.
Fall(r) ==
  /\ phase[r] \in {"preparing", "replacing"}
  /\ phase' = [phase EXCEPT ![r] = "failing"]
  /\ work' = [work EXCEPT ![r] = Nobody] \/ UNCHANGED work
  /\ UNCHANGED <<images, slot, given, loose>>

\* r lets go of the slot it has in hand, and may clear it.
Discard(r, v) ==
  /\ phase[r] = "failing"
  /\ work[r] = v
  /\ \/ UNCHANGED slot
     \/ /\ Own(r, v)
        /\ slot[v].state = "draft" \/ v \in loose[r]
        /\ slot' = [slot EXCEPT ![v] = Free]
  /\ work' = [work EXCEPT ![r] = Nobody]
  /\ UNCHANGED <<phase, images, given, loose>>

Stop(r) ==
  /\ AtWork(r)
  /\ phase' = [phase EXCEPT ![r] = "over"]
  /\ work' = [work EXCEPT ![r] = Nobody]
  /\ UNCHANGED <<images, slot, given, loose>>

\* Somebody else fills, spoils or clears a slot; nobody else makes a draft.
Disturb(v) ==
  /\ \/ slot' = [slot EXCEPT ![v] = Free]
     \/ slot[v] # Free /\ slot' = [slot EXCEPT ![v].state = "foreign"]
     \/ /\ slot[v] = Free
        /\ \E s \in {"template", "foreign"} :
             slot' = [slot EXCEPT ![v] = Made(s, Others)]
     \/ UNCHANGED slot
  /\ loose' = [r \in Runs |-> loose[r] \cup {v}]
  /\ UNCHANGED <<phase, images, work, given>>

Next ==
  \/ \E r \in Runs : Begin(r) \/ Refuse(r) \/ Finish(r) \/ Fall(r) \/ Stop(r)
  \/ \E r \in Runs, v \in Vmids :
       \/ Prepare(r, v) \/ Look(r, v) \/ Retire(r, v) \/ Draft(r, v)
       \/ Complete(r, v) \/ Give(r, v) \/ Discard(r, v)
  \/ \E v \in Vmids : Disturb(v)

Spec == Init /\ [][Next]_vars

-----------------------------------------------------------------------------
(* What follows from the rules above alone.                                *)

\* Runs on one node take turns.
OneAtATime ==
  \A r, q \in Runs : AtWork(r) /\ AtWork(q) /\ Home[r] = Home[q] => r = q

\* What a run has finished with is its template, for as long as the run is at
\* work and only runs have been there.
GivenStands ==
  \A r \in Runs :
    AtWork(r) => \A v \in given[r] \ loose[r] : slot[v] = Made("template", r)

\* A run that reports success has filled all the slots it was asked for.
DoneIsComplete == \A r \in Runs : phase[r] = "done" => given[r] = Wanted[r]
=============================================================================

-------------------------- MODULE ImageBuild_proofs --------------------------
(***************************************************************************)
(* Proofs about ImageBuild, for any number of builders on any number of    *)
(* nodes, all images, releases, profiles and guests.                       *)
(*                                                                         *)
(* What the cache, the preparation and the boot check each keep is proved  *)
(* of each part alone; BuildInv joins them, and every property of the run  *)
(* is one of its consequences.                                             *)
(***************************************************************************)
EXTENDS ImageBuild, TLAPS

-----------------------------------------------------------------------------
(* The download cache and the snippets.                                    *)

\* On its second attempt b found nothing in the cache and finds only what it
\* downloads itself, unless another builder changes the cache.
SecondAttempt(b) ==
  /\ attempt[b] = 1 => cpc[b] # "corrupt"
  /\ attempt[b] = 2 /\ b \notin bad \cup rivalled =>
       /\ cpc[b] \notin {"refresh", "corrupt"}
       /\ cpc[b] \in {"sums", "open"} => target = None /\ part = None
       /\ cpc[b] = "curl" => writer[b] = "part" /\ offset[b] = "right"
       /\ cpc[b] = "move" => part = Whole(pin[b])
       /\ cpc[b] = "verify" => target = Whole(pin[b])

\* What b verified is still there, unless another builder replaced it.
StillVerified(b) ==
  cpc[b] \in {"draft", "hash", "place", "ready"} /\ b \notin rivalled =>
    target = Whole(pin[b])

\* The PID matters from the first temporary file on.
OwnPid(b) ==
  /\ cpc[b] \in {"sums", "open", "curl", "move", "verify", "refresh", "draft"} =>
       pid[b] = None
  /\ cpc[b] \in {"hash", "place"} => pid[b] \in Pids

PidsDiffer == \A b, c \in Builders : pid[b] = pid[c] /\ pid[b] # None => b = c

\* The temporary file of a live builder holds its profile.
OwnDraft(b) ==
  /\ cpc[b] \in {"hash", "place"} => drafts[pid[b]] = Profile[b]
  /\ cpc[b] = "place" => named[b] = Profile[b]

CacheInv ==
  /\ CacheTypeOK
  /\ \A b \in Builders : SecondAttempt(b) /\ StillVerified(b) /\ OwnPid(b)
  /\ PidsDiffer => /\ \A b \in Builders : OwnDraft(b)
                   /\ \A p \in Profiles : snippets[p] \in {None, p}

LEMMA CacheInitially == CacheInit => CacheInv
<1> SUFFICES ASSUME CacheInit PROVE CacheInv
  OBVIOUS
<1>1. CacheTypeOK
  <2>1. {target, part} \subseteq Content
    <3>1. \A v \in Versions : Whole(v) \in Content
      BY DEF Content, Whole
    <3>2. None \in Content /\ Mixed \in Content
      BY DEF Content
    <3> QED
      BY <3>1, <3>2 DEF CacheInit
  <2>2. pin \in [Builders -> Versions]
    BY CacheAssumption DEF CacheInit
  <2>3. /\ cpc \in [Builders -> CacheActive \cup CacheEnded]
        /\ attempt \in [Builders -> 1..2]
        /\ offset \in [Builders -> {"right", "wrong", "end"}]
        /\ writer \in [Builders -> {None, "part", "target", "gone"}]
    BY DEF CacheInit, CacheActive, CacheEnded
  <2>4. /\ pid \in [Builders -> Pids \cup {None}]
        /\ drafts \in [Pids -> Profiles \cup {None}]
        /\ named \in [Builders -> Profiles \cup {None}]
        /\ snippets \in [Profiles -> Profiles \cup {None}]
        /\ bad \cup rivalled \subseteq Builders
    BY DEF CacheInit
  <2> QED
    BY <2>1, <2>2, <2>3, <2>4 DEF CacheTypeOK
<1>2. ASSUME NEW b \in Builders
      PROVE  SecondAttempt(b) /\ StillVerified(b) /\ OwnPid(b) /\ OwnDraft(b)
  <2>1. cpc[b] = "sums" /\ attempt[b] = 1 /\ pid[b] = None
    BY DEF CacheInit
  <2> QED
    BY <2>1 DEF SecondAttempt, StillVerified, OwnPid, OwnDraft
<1>3. \A p \in Profiles : snippets[p] \in {None, p}
  BY DEF CacheInit
<1> QED
  BY <1>1, <1>2, <1>3 DEF CacheInv

\* What a file holds after curl is content.
LEMMA AppendedIsContent ==
  ASSUME CacheTypeOK, NEW b \in Builders, NEW content \in Content
  PROVE  Appended(b, content) \in Content
BY DEF CacheTypeOK, Appended, Content, Whole

LEMMA CacheTypes ==
  ASSUME CacheTypeOK, NEW b \in Builders, OwnPid(b), CacheStep(b)
  PROVE  CacheTypeOK'
<1> USE DEF CacheTypeOK, CacheGoto, CacheActive, CacheEnded, sharedVars, snippetVars, Rivals
<1>1. CASE CheckSums(b)
  BY <1>1 DEF CheckSums
<1>2. CASE OpenPart(b)
  BY <1>2 DEF OpenPart, Content, Some
<1>3. CASE CurlEnds(b)
  <2>1. part' \in Content /\ target' \in Content
    BY <1>3, AppendedIsContent DEF CurlEnds
  <2>2. cpc' \in [Builders -> CacheActive \cup CacheEnded]
    BY <1>3 DEF CurlEnds
  <2>3. /\ writer' \in [Builders -> {None, "part", "target", "gone"}]
        /\ offset' \in [Builders -> {"right", "wrong", "end"}]
        /\ bad' \cup rivalled' \subseteq Builders
    BY <1>3 DEF CurlEnds
  <2> QED
    BY <1>3, <2>1, <2>2, <2>3 DEF CurlEnds
<1>4. CASE Move(b)
  <2>1. writer' \in [Builders -> {None, "part", "target", "gone"}]
    BY <1>4 DEF Move
  <2>2. None \in Content
    BY DEF Content
  <2> QED
    BY <1>4, <2>1, <2>2 DEF Move
<1>5. CASE Verify(b)
  BY <1>5 DEF Verify
<1>6. CASE Refresh(b)
  BY <1>6 DEF Refresh, Remove, Content
<1>7. CASE Draft(b)
  <2>1. PICK p \in Pids : /\ pid' = [pid EXCEPT ![b] = p]
                          /\ drafts' = [drafts EXCEPT ![p] = Profile[b]]
    BY <1>7 DEF Draft
  <2>2. pid' \in [Builders -> Pids \cup {None}] /\ drafts' \in [Pids -> Profiles \cup {None}]
    BY <2>1, CacheAssumption
  <2>3. cpc' \in [Builders -> CacheActive \cup CacheEnded]
    BY <1>7 DEF Draft, CacheActive
  <2> QED
    BY <1>7, <2>2, <2>3 DEF Draft
<1>8. CASE Hash(b)
  <2>1. pid[b] \in Pids /\ drafts[pid[b]] \in Profiles
    BY <1>8 DEF Hash, OwnPid
  <2> QED
    BY <1>8, <2>1 DEF Hash
<1>9. CASE Place(b)
  <2>0. pid[b] \in Pids
    BY <1>9 DEF Place, OwnPid
  <2>1. snippets' \in [Profiles -> Profiles \cup {None}]
    BY <1>9, <2>0 DEF Place
  <2>2. drafts' \in [Pids -> Profiles \cup {None}]
    BY <1>9 DEF Place
  <2> QED
    BY <1>9, <2>1, <2>2 DEF Place
<1>10. CASE CacheFails(b)
  BY <1>10 DEF CacheFails
<1>11. CASE CacheKilled(b)
  BY <1>11 DEF CacheKilled
<1> QED
  BY <1>1, <1>2, <1>3, <1>4, <1>5, <1>6, <1>7, <1>8, <1>9, <1>10, <1>11 DEF CacheStep

\* Whatever b does to the cache, another builder has begun neither now nor
\* then, or knows it, or sees no difference.
LEMMA SeenByRivals ==
  ASSUME CacheTypeOK, NEW b \in Builders, CacheStep(b), NEW c \in Builders \ {b}
  PROVE  /\ cpc'[c] = cpc[c] /\ attempt'[c] = attempt[c] /\ pid'[c] = pid[c]
         /\ named'[c] = named[c] /\ (c \in bad' <=> c \in bad)
         /\ c \in rivalled => c \in rivalled'
         /\ \/ c \in rivalled'
            \/ cpc[c] = "sums" /\ attempt[c] = 1
            \/ /\ target' = target /\ part' = part
               /\ writer'[c] = writer[c] /\ offset'[c] = offset[c]
<1> USE DEF CacheTypeOK, CacheGoto, sharedVars, snippetVars, Rivals
<1>0. c # b /\ attempt[c] \in 1..2
  OBVIOUS
<1>1. CASE CheckSums(b)
  BY <1>1, <1>0 DEF CheckSums
<1>2. CASE OpenPart(b)
  BY <1>2, <1>0 DEF OpenPart
<1>3. CASE CurlEnds(b)
  BY <1>3, <1>0 DEF CurlEnds
<1>4. CASE Move(b)
  BY <1>4, <1>0 DEF Move
<1>5. CASE Verify(b)
  BY <1>5, <1>0 DEF Verify
<1>6. CASE Refresh(b)
  BY <1>6, <1>0 DEF Refresh, Remove
<1>7. CASE Draft(b)
  BY <1>7, <1>0 DEF Draft
<1>8. CASE Hash(b)
  BY <1>8, <1>0 DEF Hash
<1>9. CASE Place(b)
  BY <1>9, <1>0 DEF Place
<1>10. CASE CacheFails(b)
  BY <1>10, <1>0 DEF CacheFails
<1>11. CASE CacheKilled(b)
  BY <1>11, <1>0 DEF CacheKilled
<1> QED
  BY <1>1, <1>2, <1>3, <1>4, <1>5, <1>6, <1>7, <1>8, <1>9, <1>10, <1>11 DEF CacheStep

\* The builder that moves keeps its own facts.
LEMMA OwnSecondAttempt ==
  ASSUME CacheTypeOK, NEW b \in Builders, SecondAttempt(b), CacheStep(b)
  PROVE  SecondAttempt(b)'
<1> USE DEF CacheTypeOK, CacheGoto, sharedVars, SecondAttempt
<1>0. attempt[b] \in 1..2 /\ pin[b] \in Versions
  OBVIOUS
<1>1. CASE CheckSums(b)
  BY <1>1, <1>0 DEF CheckSums
<1>2. CASE OpenPart(b)
  BY <1>2, <1>0 DEF OpenPart, Rivals
<1>3. CASE CurlEnds(b)
  <2>1. attempt' = attempt /\ pin' = pin /\ bad \subseteq bad' /\ rivalled \subseteq rivalled'
    BY <1>3 DEF CurlEnds, Rivals
  <2>2. CASE cpc[b] = "killed"
    BY <1>3, <1>0, <2>1, <2>2 DEF CurlEnds
  <2>3. CASE cpc[b] = "curl"
    <3>1. cpc'[b] = "move"
      BY <1>3, <2>3 DEF CurlEnds
    <3>2. ASSUME attempt[b] = 2, b \notin bad' \cup rivalled'
          PROVE  part' = Whole(pin'[b])
      BY <1>3, <2>1, <2>3, <3>2 DEF CurlEnds, Appended
    <3> QED
      BY <3>1, <3>2, <2>1, <1>0
  <2> QED
    BY <1>3, <2>2, <2>3 DEF CurlEnds
<1>4. CASE Move(b)
  BY <1>4, <1>0 DEF Move, Rivals
<1>5. CASE Verify(b)
  BY <1>5, <1>0 DEF Verify
<1>6. CASE Refresh(b)
  BY <1>6, <1>0 DEF Refresh, Remove, Rivals
<1>7. CASE Draft(b)
  BY <1>7, <1>0 DEF Draft
<1>8. CASE Hash(b)
  BY <1>8, <1>0 DEF Hash
<1>9. CASE Place(b)
  BY <1>9, <1>0 DEF Place
<1>10. CASE CacheFails(b)
  BY <1>10, <1>0 DEF CacheFails
<1>11. CASE CacheKilled(b)
  BY <1>11, <1>0 DEF CacheKilled
<1> QED
  BY <1>1, <1>2, <1>3, <1>4, <1>5, <1>6, <1>7, <1>8, <1>9, <1>10, <1>11 DEF CacheStep

\* Its second set of facts: what it verified and which PID it used.
LEMMA OwnVerified ==
  ASSUME CacheTypeOK, NEW b \in Builders, StillVerified(b), OwnPid(b), CacheStep(b)
  PROVE  StillVerified(b)' /\ OwnPid(b)'
<1> USE DEF CacheTypeOK, CacheGoto, sharedVars, snippetVars, StillVerified, OwnPid
<1>1. CASE CheckSums(b)
  BY <1>1 DEF CheckSums
<1>2. CASE OpenPart(b)
  BY <1>2 DEF OpenPart
<1>3. CASE CurlEnds(b)
  BY <1>3 DEF CurlEnds
<1>4. CASE Move(b)
  BY <1>4 DEF Move
<1>5. CASE Verify(b)
  BY <1>5 DEF Verify
<1>6. CASE Refresh(b)
  BY <1>6 DEF Refresh, Remove
<1>7. CASE Draft(b)
  BY <1>7 DEF Draft
<1>8. CASE Hash(b)
  BY <1>8 DEF Hash
<1>9. CASE Place(b)
  BY <1>9 DEF Place
<1>10. CASE CacheFails(b)
  BY <1>10 DEF CacheFails
<1>11. CASE CacheKilled(b)
  BY <1>11 DEF CacheKilled
<1> QED
  BY <1>1, <1>2, <1>3, <1>4, <1>5, <1>6, <1>7, <1>8, <1>9, <1>10, <1>11 DEF CacheStep

\* Steps that leave the snippets alone keep what is known of them.
LEMMA SnippetsRest ==
  ASSUME CacheInv, PidsDiffer,
         UNCHANGED <<pid, snippetVars>>,
         \A b \in Builders : cpc'[b] \in {"hash", "place"} => cpc'[b] = cpc[b]
  PROVE  /\ \A b \in Builders : OwnDraft(b)'
         /\ \A p \in Profiles : snippets'[p] \in {None, p}
BY DEF CacheInv, OwnDraft, snippetVars

\* Temporary files and snippets stay apart while the PIDs do.
LEMMA SnippetSteps ==
  ASSUME CacheInv, NEW b \in Builders, CacheStep(b), PidsDiffer'
  PROVE  /\ \A c \in Builders : OwnDraft(c)'
         /\ \A p \in Profiles : snippets'[p] \in {None, p}
<1> USE DEF CacheGoto
<1>0. /\ CacheTypeOK /\ OwnPid(b) /\ b \in DOMAIN cpc /\ b \in DOMAIN pid
      /\ \A c \in Builders \ {b} : pid'[c] = pid[c] /\ cpc'[c] = cpc[c] /\ named'[c] = named[c]
  BY SeenByRivals DEF CacheInv, CacheTypeOK
<1>1. PidsDiffer
  <2>1. pid[b] = None \/ pid' = pid
    BY <1>0 DEF CacheStep, OwnPid, CheckSums, OpenPart, CurlEnds, Move, Verify, Refresh,
       Remove, Draft, Hash, Place, CacheFails, CacheKilled, snippetVars
  <2> QED
    BY <2>1, <1>0 DEF PidsDiffer
<1>2. CASE Draft(b)
  <2>1. PICK p \in Pids : /\ pid' = [pid EXCEPT ![b] = p]
                          /\ drafts' = [drafts EXCEPT ![p] = Profile[b]]
    BY <1>2 DEF Draft
  <2>2. snippets' = snippets /\ cpc'[b] = "hash"
    BY <1>2, <1>0 DEF Draft
  <2>3. pid'[b] = p /\ p # None /\ drafts'[p] = Profile[b]
    BY <2>1, <1>0, CacheAssumption DEF CacheTypeOK
  <2>4. ASSUME NEW c \in Builders \ {b} PROVE OwnDraft(c)'
    <3>1. cpc[c] \in {"hash", "place"} => drafts[pid[c]] = Profile[c] /\ pid[c] \in Pids
      BY <1>1 DEF CacheInv, OwnDraft, OwnPid
    <3>2. pid'[c] # p
      BY <2>3, <2>4 DEF PidsDiffer
    <3>3. cpc[c] = "place" => named[c] = Profile[c]
      BY <1>1 DEF CacheInv, OwnDraft
    <3> QED
      BY <3>1, <3>2, <3>3, <2>1, <1>0 DEF OwnDraft, CacheTypeOK
  <2> QED
    BY <2>2, <2>3, <2>4, <1>1 DEF OwnDraft, CacheInv
<1>3. CASE Hash(b)
  <2>1. /\ cpc[b] = "hash" /\ cpc'[b] = "place" /\ pid' = pid /\ drafts' = drafts
        /\ snippets' = snippets /\ named'[b] = drafts[pid[b]]
    BY <1>3, <1>0 DEF Hash, CacheTypeOK
  <2>2. \A c \in Builders : OwnDraft(c)
    BY <1>1 DEF CacheInv
  <2> QED
    BY <2>1, <2>2, <1>0, <1>1 DEF OwnDraft, CacheInv
<1>4. CASE Place(b)
  <2>1. /\ cpc[b] = "place" /\ cpc'[b] = "ready" /\ pid' = pid /\ named' = named
        /\ drafts' = [drafts EXCEPT ![pid[b]] = None]
    BY <1>4, <1>0 DEF Place
  <2>2. pid[b] \in Pids /\ pid[b] # None /\ named[b] = Profile[b] /\ drafts[pid[b]] = Profile[b]
    BY <2>1, <1>0, <1>1, CacheAssumption DEF CacheInv, OwnDraft, OwnPid
  <2>3. ASSUME NEW c \in Builders \ {b} PROVE OwnDraft(c)'
    <3>1. pid[c] # pid[b]
      BY <2>2, <1>1 DEF PidsDiffer
    <3>2. OwnDraft(c) /\ OwnPid(c)
      BY <1>1 DEF CacheInv
    <3> QED
      BY <3>1, <3>2, <2>1, <1>0 DEF OwnDraft, OwnPid, CacheTypeOK
  <2>4. ASSUME NEW p \in Profiles PROVE snippets'[p] \in {None, p}
    <3>1. snippets[p] \in {None, p}
      BY <1>1 DEF CacheInv
    <3> QED
      BY <3>1, <2>2, <1>4, <1>0 DEF Place, CacheTypeOK
  <2> QED
    BY <2>1, <2>3, <2>4 DEF OwnDraft
<1>5. CASE ~Draft(b) /\ ~Hash(b) /\ ~Place(b)
  <2>1. /\ UNCHANGED <<pid, snippetVars>>
        /\ cpc'[b] \notin {"hash", "place"}
    BY <1>5, <1>0 DEF CacheStep, CheckSums, OpenPart, CurlEnds, Move, Verify, Refresh, Remove,
       CacheFails, CacheKilled, snippetVars, CacheTypeOK
  <2> QED
    BY <2>1, <1>0, <1>1, SnippetsRest
<1> QED
  BY <1>2, <1>3, <1>4, <1>5

LEMMA CacheKeeps ==
  ASSUME CacheInv, NEW b \in Builders, CacheStep(b)
  PROVE  CacheInv'
<1>1. CacheTypeOK /\ SecondAttempt(b) /\ StillVerified(b) /\ OwnPid(b)
  BY DEF CacheInv
<1>2. CacheTypeOK'
  BY <1>1, CacheTypes
<1>3. SecondAttempt(b)' /\ StillVerified(b)' /\ OwnPid(b)'
  BY <1>1, OwnSecondAttempt, OwnVerified
<1>4. ASSUME NEW c \in Builders \ {b}
      PROVE  SecondAttempt(c)' /\ StillVerified(c)' /\ OwnPid(c)'
  <2>1. SecondAttempt(c) /\ StillVerified(c) /\ OwnPid(c) /\ pin' = pin
    BY DEF CacheInv, CacheStep, CheckSums, OpenPart, CurlEnds, Move, Verify, Refresh, Remove,
       Draft, Hash, Place, CacheFails, CacheKilled
  <2>2. /\ cpc'[c] = cpc[c] /\ attempt'[c] = attempt[c] /\ pid'[c] = pid[c]
        /\ (c \in bad' <=> c \in bad)
        /\ c \in rivalled => c \in rivalled'
        /\ \/ c \in rivalled'
           \/ cpc[c] = "sums" /\ attempt[c] = 1
           \/ /\ target' = target /\ part' = part
              /\ writer'[c] = writer[c] /\ offset'[c] = offset[c]
    BY <1>1, SeenByRivals
  <2>3. OwnPid(c)'
    BY <2>1, <2>2 DEF OwnPid
  <2>4. StillVerified(c)'
    BY <2>1, <2>2 DEF StillVerified
  <2>5. SecondAttempt(c)'
    BY <2>1, <2>2 DEF SecondAttempt
  <2> QED
    BY <2>3, <2>4, <2>5
<1>5. PidsDiffer' => /\ \A c \in Builders : OwnDraft(c)'
                     /\ \A p \in Profiles : snippets'[p] \in {None, p}
  BY SnippetSteps
<1> QED
  BY <1>2, <1>3, <1>4, <1>5 DEF CacheInv

\* A builder that has left download_image and write_snippets stays there.
LEMMA ReadyIsStable ==
  ASSUME CacheTypeOK, NEW b \in Builders, CacheStep(b), NEW c \in Builders,
         cpc[c] = "ready"
  PROVE  cpc'[c] = "ready" /\ pin' = pin
<1>1. pin' = pin
  BY DEF CacheStep, CheckSums, OpenPart, CurlEnds, Move, Verify, Refresh, Remove,
     Draft, Hash, Place, CacheFails, CacheKilled
<1>2. CASE c # b
  BY <1>1, <1>2, SeenByRivals
<1>3. CASE c = b
  BY <1>3 DEF CacheStep, CacheGoto, CheckSums, OpenPart, CurlEnds, Move, Verify, Refresh,
     Remove, Draft, Hash, Place, CacheFails, CacheKilled, CacheActive
<1> QED
  BY <1>1, <1>2, <1>3

-----------------------------------------------------------------------------
(* The preparation.                                                        *)

Prepared == [source : Content, allow : SUBSET Calls, block : SUBSET Calls]

\* What is known of p's image, its lists of calls and its report.
Preparing(p) ==
  /\ ppc[p] # "idle" => guest[p] \in Guests /\ cpc[p] = "ready"
  /\ ppc[p] \in {"customise", "examine", "record", "prepared"} => image[p] \in Prepared
  /\ ppc[p] = "customise" =>
       image[p].allow = guest[p].allow /\ image[p].block = guest[p].block
  /\ ppc[p] \in {"examine", "record", "prepared"} =>
       /\ image[p].allow = Configured(guest[p], guest[p].unseen).allow
       /\ image[p].block = Configured(guest[p], guest[p].unseen).block
  /\ ppc[p] = "prepared" => p \in recorded
  /\ ppc[p] = "refused" => image[p] = NoImage /\ p \notin recorded
  /\ image[p] # NoImage /\ p \notin disturbed => image[p].source = Whole(pin[p])

PrepInv ==
  /\ PrepTypeOK(Content)
  /\ disturbed \subseteq Preparers
  /\ \A p \in Preparers : Preparing(p)

LEMMA PrepInitially == PrepInit /\ disturbed = {} => PrepInv
BY DEF PrepInit, PrepInv, PrepTypeOK, Preparing

\* The cache moves on below the preparation.
LEMMA PrepOverCache == CacheInv /\ PrepInv /\ CachePart => PrepInv'
<1> SUFFICES ASSUME CacheInv, PrepInv, CachePart PROVE PrepInv'
  OBVIOUS
<1>1. PICK b \in Builders : CacheStep(b)
  BY DEF CachePart
<1>2. UNCHANGED <<guest, ppc, image, recorded, disturbed>>
  BY DEF CachePart, prepVars
<1>3. ASSUME NEW p \in Preparers PROVE Preparing(p)'
  <2>1. p \in Builders /\ CacheTypeOK /\ Preparing(p)
    BY CompositionAssumption DEF CacheInv, PrepInv
  <2>2. pin' = pin
    BY <1>1 DEF CacheStep, CheckSums, OpenPart, CurlEnds, Move, Verify, Refresh, Remove,
       Draft, Hash, Place, CacheFails, CacheKilled
  <2>3. cpc[p] = "ready" => cpc'[p] = "ready"
    BY <1>1, <2>1, ReadyIsStable
  <2> QED
    BY <1>2, <2>1, <2>2, <2>3 DEF Preparing
<1> QED
  BY <1>2, <1>3 DEF PrepInv, PrepTypeOK

\* A step of one preparation says nothing of another.
LEMMA OtherPreparing ==
  ASSUME PrepInv, NEW b \in Preparers, NEW p \in Preparers \ {b},
         UNCHANGED <<pin, cpc>>,
         guest'[p] = guest[p], ppc'[p] = ppc[p], image'[p] = image[p],
         p \in recorded' <=> p \in recorded, p \in disturbed' <=> p \in disturbed
  PROVE  Preparing(p)'
<1>1. Preparing(p)
  BY DEF PrepInv
<1> QED
  BY <1>1 DEF Preparing

LEMMA OwnPreparing ==
  ASSUME CacheInv, PrepInv, NEW b \in Preparers, PrepStep(b), UNCHANGED cacheVars,
         ppc[b] = "copy" /\ ppc'[b] = "customise" => target # None,
         disturbed' = IF ppc[b] = "copy" /\ ppc'[b] = "customise" /\ b \in rivalled
                      THEN disturbed \cup {b} ELSE disturbed
  PROVE  PrepTypeOK(Content)' /\ Preparing(b)'
<1> USE DEF PrepTypeOK, PrepGoto, PrepActive, PrepEnded
<1>0. /\ PrepTypeOK(Content) /\ Preparing(b) /\ b \in Builders /\ target \in Content
      /\ UNCHANGED <<pin, cpc>>
      /\ Guests \subseteq Guest /\ Required \subseteq Calls
      /\ NoImage \notin Prepared
  BY CompositionAssumption, GuestAssumption
     DEF PrepInv, CacheInv, CacheTypeOK, cacheVars, Prepared
<1>1. CASE StartPreparing(b) /\ cpc[b] = "ready"
  BY <1>0, <1>1 DEF StartPreparing, Preparing
<1>2. CASE Inspect(b)
  BY <1>0, <1>2 DEF Inspect, Preparing
<1>3. CASE Copy(b, target)
  <2>1. /\ ppc[b] = "copy" /\ ppc'[b] = "customise"
        /\ guest[b] \in Guests /\ guest[b] \in Guest /\ cpc[b] = "ready"
    BY <1>0, <1>3 DEF Copy, Preparing
  <2>2. guest[b].allow \in SUBSET Calls /\ guest[b].block \in SUBSET Calls
    BY <2>1 DEF Guest
  <2>3. image'[b] = [source |-> target, allow |-> guest[b].allow, block |-> guest[b].block]
    BY <1>0, <1>3 DEF Copy
  <2>4. image'[b] \in Prepared
    BY <2>2, <2>3, <1>0 DEF Prepared
  <2>5. b \notin disturbed' => target = Whole(pin[b])
    <3>1. StillVerified(b)
      BY <1>0 DEF CacheInv
    <3> QED
      BY <3>1, <2>1 DEF StillVerified
  <2>6. Preparing(b)'
    BY <1>3, <1>0, <2>1, <2>3, <2>4, <2>5 DEF Copy, Preparing
  <2>7. PrepTypeOK(Content)'
    BY <1>3, <1>0, <2>4 DEF Copy, Prepared
  <2> QED
    BY <2>6, <2>7
<1>4. CASE Customise(b)
  <2>1. /\ ppc[b] = "customise" /\ ppc'[b] = "examine"
        /\ guest[b] \in Guests /\ cpc[b] = "ready" /\ image[b] \in Prepared
        /\ image[b].allow = guest[b].allow /\ image[b].block = guest[b].block
    BY <1>0, <1>4 DEF Customise, Preparing
  <2>2. /\ image'[b] \in Prepared
        /\ image'[b].source = image[b].source
        /\ image'[b].allow = Configured(guest[b], guest[b].unseen).allow
        /\ image'[b].block = Configured(guest[b], guest[b].unseen).block
    <3>1. guest[b] \in Guest
      BY <1>0, <2>1
    <3>2. image'[b] = Configured(image[b], guest[b].unseen)
      BY <1>0, <1>4 DEF Customise
    <3>3. /\ Configured(guest[b], guest[b].unseen).allow =
               IF "allow" \in guest[b].unseen THEN guest[b].allow
               ELSE guest[b].allow \cup Required
          /\ Configured(guest[b], guest[b].unseen).block =
               IF "block" \in guest[b].unseen THEN guest[b].block
               ELSE guest[b].block \ Required
      BY <3>1 DEF Configured, Guest
    <3>4. image'[b] =
            [source |-> image[b].source,
             allow |-> IF "allow" \in guest[b].unseen THEN image[b].allow
                       ELSE image[b].allow \cup Required,
             block |-> IF "block" \in guest[b].unseen THEN image[b].block
                       ELSE image[b].block \ Required]
      BY <2>1, <3>2 DEF Configured, Prepared
    <3>5. image'[b] \in Prepared
      BY <1>0, <2>1, <3>4 DEF Prepared
    <3> QED
      BY <2>1, <3>3, <3>4, <3>5
  <2>3. image[b] # NoImage /\ image'[b] # NoImage
    BY <1>0, <2>1, <2>2
  <2>4. Preparing(b)'
    BY <1>4, <1>0, <2>1, <2>2, <2>3 DEF Customise, Preparing
  <2>5. PrepTypeOK(Content)'
    BY <1>4, <1>0, <2>2 DEF Customise, Prepared
  <2> QED
    BY <2>4, <2>5
<1>5. CASE Examine(b)
  BY <1>0, <1>5 DEF Examine, Preparing
<1>6. CASE RecordHash(b)
  BY <1>0, <1>6 DEF RecordHash, Preparing
<1>7. CASE PrepFails(b)
  BY <1>0, <1>7 DEF PrepFails, Preparing
<1>8. CASE PrepKilled(b)
  BY <1>0, <1>8 DEF PrepKilled, Preparing
<1> QED
  BY <1>1, <1>2, <1>3, <1>4, <1>5, <1>6, <1>7, <1>8 DEF PrepStep, PrepProgress

LEMMA PrepKeeps == CacheInv /\ PrepInv /\ PrepPart => PrepInv'
<1> SUFFICES ASSUME CacheInv, PrepInv, PrepPart PROVE PrepInv'
  OBVIOUS
<1>1. PICK b \in Preparers :
        /\ PrepStep(b)
        /\ ppc'[b] \in {"copy", "customise"} => target # None
        /\ disturbed' = IF ppc[b] = "copy" /\ ppc'[b] = "customise" /\ b \in rivalled
                        THEN disturbed \cup {b} ELSE disturbed
  BY DEF PrepPart
<1>2. UNCHANGED cacheVars
  BY DEF PrepPart
<1>3. PrepTypeOK(Content)' /\ Preparing(b)'
  BY <1>1, <1>2, OwnPreparing
<1>4. ASSUME NEW p \in Preparers \ {b} PROVE Preparing(p)'
  <2>1. /\ guest'[p] = guest[p] /\ ppc'[p] = ppc[p] /\ image'[p] = image[p]
        /\ p \in recorded' <=> p \in recorded
    BY <1>1 DEF PrepInv, PrepTypeOK, PrepStep, PrepProgress, PrepGoto, StartPreparing, Inspect,
       Copy, Customise, Examine, RecordHash, PrepFails, PrepKilled
  <2>2. (p \in disturbed' <=> p \in disturbed) /\ UNCHANGED <<pin, cpc>>
    BY <1>1, <1>2 DEF cacheVars
  <2> QED
    BY <2>1, <2>2, OtherPreparing
<1>5. disturbed' \subseteq Preparers
  BY <1>1 DEF PrepInv
<1> QED
  BY <1>3, <1>4, <1>5 DEF PrepInv

-----------------------------------------------------------------------------
(* The boot check.                                                         *)

\* The agent in c's image answers the calls the check asks for.
Fits(c) == Demanded \subseteq Answers(c)

\* Where c is, its machine, its verdict and its report agree; the script is
\* started only where the agent fits.
Checking(c) ==
  /\ bpc[c] # "idle" => ppc[c] = "prepared"
  /\ bpc[c] \in {"idle", "launch"} => machine[c] = "none"
  /\ bpc[c] \in {"idle", "launch", "launched"} \cup Asking => verdict[c] = "none"
  /\ bpc[c] = "report" => verdict[c] = "passed" /\ machine[c] = "off"
  /\ bpc[c] \in BootEnded /\ c \notin leaked => machine[c] # "running"
  /\ bpc[c] \in {"exec", "status"} => Fits(c)
  /\ verdict[c] = "passed" => script[c] = "ok" /\ Fits(c)
  /\ verdict[c] = "disabled" => c \in stale \/ ~Fits(c)
  /\ c \in reported => verdict[c] = "passed"

BootInv == BootTypeOK /\ \A c \in Checkers : Checking(c)

LEMMA BootInitially == BootInit => BootInv
<1> SUFFICES ASSUME BootInit PROVE BootInv
  OBVIOUS
<1>1. BootTypeOK
  BY QueueAssumption DEF BootInit, BootTypeOK, BootActive, BootEnded, Asking, Verdicts
<1>2. \A c \in Checkers : Checking(c)
  BY DEF BootInit, Checking, BootEnded, Asking
<1> QED
  BY <1>1, <1>2 DEF BootInv

\* An image that is ready to boot answers the calls the panel needs, but for
\* those that a list which was passed over withholds, and of the others those
\* that the upstream image answers.
LEMMA PreparedAnswers ==
  ASSUME PrepInv, NEW b \in Preparers, ppc[b] = "prepared"
  PROVE  /\ Fits(b) \/ Withheld(b) # {}
         /\ Answers(b) \ Required = Enabled(guest[b]) \ Required
<1>1. Preparing(b) /\ Demanded \subseteq Required /\ guest[b] \in Guest
  BY CompositionAssumption, GuestAssumption DEF PrepInv, Preparing
<1>2. /\ image[b].allow = IF "allow" \in guest[b].unseen THEN guest[b].allow
                          ELSE guest[b].allow \cup Required
      /\ image[b].block = IF "block" \in guest[b].unseen THEN guest[b].block
                          ELSE guest[b].block \ Required
  BY <1>1 DEF Preparing, Configured, Guest
<1>3. Answers(b) \ Required = Enabled(guest[b]) \ Required
  BY <1>2 DEF Answers, Enabled
<1>4. ASSUME NEW c \in Demanded, c \notin Answers(b) PROVE c \in Withheld(b)
  BY <1>1, <1>2, <1>4 DEF Answers, Enabled, Withheld
<1> QED
  BY <1>3, <1>4 DEF Fits

\* A step of one check says nothing of another.
OthersRest(b) ==
  \A c \in Checkers \ {b} :
    /\ bpc'[c] = bpc[c] /\ machine'[c] = machine[c] /\ script'[c] = script[c]
    /\ verdict'[c] = verdict[c]
    /\ (c \in reported' <=> c \in reported) /\ (c \in stale' <=> c \in stale)
    /\ (c \in leaked' <=> c \in leaked)

\* What a step of b's check keeps.
BootKept(b) == BootTypeOK' /\ Checking(b)' /\ OthersRest(b)

LEMMA AnswerKeeps ==
  ASSUME BootTypeOK, NEW b \in Checkers, Checking(b), UNCHANGED ppc,
         Fits(b)' <=> Fits(b), NEW enabled, Fits(b) <=> Demanded \subseteq enabled,
         Answered(b, enabled)
  PROVE  BootKept(b)
<1> USE DEF BootTypeOK, BootActive, BootEnded, Asking, Verdicts, Taken, Finish
<1>0. /\ waiting'[b] = FALSE /\ queue[b] \in Seq(Asking) /\ queue[b] # <<>>
      /\ Tail(queue[b]) \in Seq(Asking) /\ Len(Tail(queue[b])) <= MaxQueue
      /\ queue' = [queue EXCEPT ![b] = Tail(@)]
      /\ bpc[b] \in Asking /\ verdict[b] = "none"
  <2>1. queue[b] \in Seq(Asking) /\ queue[b] # <<>> /\ Taken(b)
    BY DEF Answered, PingAnswered, InfoAnswered, ExecAnswered, StatusAnswered
  <2>2. /\ Tail(queue[b]) \in Seq(Asking) /\ Len(Tail(queue[b])) = Len(queue[b]) - 1
        /\ Len(queue[b]) \in Nat /\ Len(queue[b]) <= MaxQueue
    BY <2>1
  <2> QED
    BY <2>1, <2>2, QueueAssumption DEF Checking
<1>1. /\ queue' \in [Checkers -> Seq(Asking)]
      /\ \A c \in Checkers : Len(queue'[c]) <= MaxQueue
  BY <1>0
<1>2. CASE PingAnswered(b, enabled)
  BY <1>0, <1>1, <1>2 DEF PingAnswered, BootKept, Checking, OthersRest
<1>3. CASE InfoAnswered(b, enabled)
  <2>1. /\ script' = script /\ machine' = machine /\ reported' = reported /\ leaked' = leaked
        /\ waiting' = [waiting EXCEPT ![b] = FALSE] /\ expired' = expired
        /\ bpc[b] = "info"
        /\ stale' = IF Head(queue[b]) # "info" THEN stale \cup {b} ELSE stale
    BY <1>3 DEF InfoAnswered
  <2>2. \/ /\ bpc' = [bpc EXCEPT ![b] = "exec"] /\ verdict' = verdict
           /\ Fits(b)
        \/ /\ bpc' = [bpc EXCEPT ![b] = "stop"]
           /\ verdict' = [verdict EXCEPT ![b] = "failed"]
        \/ /\ bpc' = [bpc EXCEPT ![b] = "stop"]
           /\ verdict' = [verdict EXCEPT ![b] = "disabled"]
           /\ Head(queue[b]) # "info" \/ ~Fits(b)
    BY <1>3 DEF InfoAnswered, Listed
  <2>3. CASE /\ bpc' = [bpc EXCEPT ![b] = "exec"] /\ verdict' = verdict
             /\ Fits(b)
    BY <1>0, <1>1, <2>1, <2>3 DEF BootKept, Checking, OthersRest
  <2>4. CASE /\ bpc' = [bpc EXCEPT ![b] = "stop"]
             /\ verdict' = [verdict EXCEPT ![b] = "failed"]
    BY <1>0, <1>1, <2>1, <2>4 DEF BootKept, Checking, OthersRest
  <2>5. CASE /\ bpc' = [bpc EXCEPT ![b] = "stop"]
             /\ verdict' = [verdict EXCEPT ![b] = "disabled"]
             /\ Head(queue[b]) # "info" \/ ~Fits(b)
    BY <1>0, <1>1, <2>1, <2>5 DEF BootKept, Checking, OthersRest
  <2> QED
    BY <2>2, <2>3, <2>4, <2>5
<1>4. CASE ExecAnswered(b, enabled)
  <2>1. /\ UNCHANGED <<machine, expired, reported, leaked>>
        /\ waiting' = [waiting EXCEPT ![b] = FALSE]
        /\ stale' = stale \/ stale' = stale \cup {b}
        /\ bpc[b] = "exec"
    BY <1>4 DEF ExecAnswered
  <2>2. CASE /\ script' = [script EXCEPT ![b] = "running"]
             /\ bpc' = [bpc EXCEPT ![b] = "status"]
             /\ verdict' = verdict
    BY <1>0, <1>1, <2>1, <2>2 DEF BootKept, Checking, OthersRest
  <2>3. CASE /\ bpc' = [bpc EXCEPT ![b] = "stop"]
             /\ verdict' = [verdict EXCEPT ![b] = "failed"]
             /\ script' = script
    BY <1>0, <1>1, <2>1, <2>3 DEF BootKept, Checking, OthersRest
  <2> QED
    BY <1>4, <2>2, <2>3 DEF ExecAnswered
<1>5. CASE StatusAnswered(b)
  <2>1. /\ UNCHANGED <<machine, expired, reported, leaked, script>>
        /\ waiting' = [waiting EXCEPT ![b] = FALSE]
        /\ stale' = stale \/ stale' = stale \cup {b}
        /\ bpc[b] = "status"
    BY <1>5 DEF StatusAnswered
  <2>2. CASE /\ bpc' = [bpc EXCEPT ![b] = "stop"]
             /\ verdict' = [verdict EXCEPT ![b] = "passed"]
             /\ script[b] = "ok"
    BY <1>0, <1>1, <2>1, <2>2 DEF BootKept, Checking, OthersRest
  <2>3. CASE /\ bpc' = [bpc EXCEPT ![b] = "stop"]
             /\ verdict' = [verdict EXCEPT ![b] = "failed"]
    BY <1>0, <1>1, <2>1, <2>3 DEF BootKept, Checking, OthersRest
  <2>4. CASE UNCHANGED <<bpc, verdict>>
    BY <1>0, <1>1, <2>1, <2>4 DEF BootKept, Checking, OthersRest
  <2> QED
    BY <1>5, <2>2, <2>3, <2>4 DEF StatusAnswered, Passed
<1> QED
  BY <1>2, <1>3, <1>4, <1>5 DEF Answered

LEMMA ProgressKeeps ==
  ASSUME BootTypeOK, NEW b \in Checkers, Checking(b), UNCHANGED ppc,
         Fits(b)' <=> Fits(b), NEW enabled, Fits(b) <=> Demanded \subseteq enabled,
         BootProgress(b, enabled)
  PROVE  BootKept(b)
<1> USE DEF BootTypeOK, BootActive, BootEnded, Asking, Verdicts, Finish, BootGoto, talkVars,
    AfterStop, BootKept, Checking, OthersRest
<1>1. CASE LaunchFails(b)
  BY <1>1 DEF LaunchFails
<1>2. CASE Launch(b)
  BY <1>2 DEF Launch
<1>3. CASE EnterTry(b)
  BY <1>3 DEF EnterTry
<1>4. CASE Ask(b)
  <2>1. /\ Append(queue[b], bpc[b]) \in Seq(Asking)
        /\ Len(Append(queue[b], bpc[b])) = Len(queue[b]) + 1
        /\ Len(queue[b]) \in Nat /\ Len(queue[b]) < MaxQueue
    BY <1>4 DEF Ask
  <2>2. /\ queue' \in [Checkers -> Seq(Asking)]
        /\ \A c \in Checkers : Len(queue'[c]) <= MaxQueue
    BY <1>4, <2>1, QueueAssumption DEF Ask
  <2> QED
    BY <1>4, <2>2 DEF Ask
<1>5. CASE Answered(b, enabled)
  BY <1>5, AnswerKeeps
<1>6. CASE AskTimesOut(b)
  <2>1. /\ waiting' = [waiting EXCEPT ![b] = FALSE] /\ bpc[b] \in Asking
        /\ UNCHANGED <<machine, queue, script, expired, reported, stale, leaked>>
    BY <1>6 DEF AskTimesOut
  <2>2. CASE UNCHANGED <<bpc, verdict>>
    BY <2>1, <2>2
  <2>3. CASE /\ bpc' = [bpc EXCEPT ![b] = "stop"]
             /\ verdict' = [verdict EXCEPT ![b] = "failed"]
    BY <2>1, <2>3
  <2> QED
    BY <1>6, <2>2, <2>3 DEF AskTimesOut
<1>7. CASE DeadlineMet(b)
  BY <1>7 DEF DeadlineMet
<1>8. CASE MachineGone(b)
  BY <1>8 DEF MachineGone
<1>9. CASE Terminate(b)
  <2>1. CASE /\ bpc' = [bpc EXCEPT ![b] = AfterStop(b)]
             /\ machine' = [machine EXCEPT ![b] = "off"]
    BY <1>9, <2>1 DEF Terminate
  <2>2. CASE bpc' = [bpc EXCEPT ![b] = "kill"] /\ machine' = machine
    BY <1>9, <2>2 DEF Terminate
  <2> QED
    BY <1>9, <2>1, <2>2 DEF Terminate
<1>10. CASE KillMachine(b)
  BY <1>10 DEF KillMachine
<1>11. CASE ReportBoot(b)
  BY <1>11 DEF ReportBoot
<1> QED
  BY <1>1, <1>2, <1>3, <1>4, <1>5, <1>6, <1>7, <1>8, <1>9, <1>10, <1>11 DEF BootProgress

\* The guest, the clock and the signals.
LEMMA SurroundingsKeep ==
  ASSUME BootTypeOK, NEW b \in Checkers, Checking(b), UNCHANGED ppc,
         Fits(b)' <=> Fits(b), Expire(b) \/ Environment(b)
  PROVE  BootKept(b)
<1> USE DEF BootTypeOK, BootActive, BootEnded, Asking, Verdicts, Finish, BootGoto, talkVars,
    BootKept, Checking, OthersRest
<1>0. <<>> \in Seq(Asking) /\ Len(<<>>) <= MaxQueue
  BY QueueAssumption
<1>1. CASE Expire(b)
  BY <1>1 DEF Expire
<1>2. CASE ScriptEnds(b)
  BY <1>2 DEF ScriptEnds
<1>3. CASE RequestsLost(b)
  BY <1>0, <1>3 DEF RequestsLost
<1>4. CASE MachineDies(b)
  BY <1>0, <1>4 DEF MachineDies
<1>5. CASE CheckKilled(b)
  BY <1>5 DEF CheckKilled
<1>6. CASE Interrupt(b)
  <2>1. UNCHANGED <<machine, queue, script, expired, reported, stale>>
    BY <1>6 DEF Interrupt
  <2>2. CASE /\ bpc[b] \in Asking
             /\ bpc' = [bpc EXCEPT ![b] = "stop"]
             /\ verdict' = [verdict EXCEPT ![b] = "failed"]
             /\ waiting' = [waiting EXCEPT ![b] = FALSE]
             /\ leaked' = leaked
    BY <2>1, <2>2
  <2>3. CASE /\ bpc[b] = "launched"
             /\ bpc' = [bpc EXCEPT ![b] = "rejected"]
             /\ leaked' = leaked \cup {b}
             /\ UNCHANGED <<verdict, waiting>>
    BY <2>1, <2>3
  <2> QED
    BY <1>6, <2>2, <2>3 DEF Interrupt
<1> QED
  BY <1>1, <1>2, <1>3, <1>4, <1>5, <1>6 DEF Environment

-----------------------------------------------------------------------------
(* The three parts together.                                               *)

BuildInv == CacheInv /\ PrepInv /\ BootInv

\* The boot check rests while the cache and the preparations move on: no
\* image is touched once it is prepared.
LEMMA BootBesideOthers == BuildInv /\ (CachePart \/ PrepPart) => BootInv'
<1> SUFFICES ASSUME BuildInv, CachePart \/ PrepPart PROVE BootInv'
  OBVIOUS
<1>1. UNCHANGED bootVars
  BY DEF CachePart, PrepPart
<1>2. ASSUME NEW c \in Checkers, ppc[c] = "prepared"
      PROVE  ppc'[c] = "prepared" /\ (Fits(c)' <=> Fits(c))
  <2>1. CASE CachePart
    BY <1>2, <2>1 DEF CachePart, prepVars, Fits, Answers, Enabled
  <2>2. CASE PrepPart
    <3>1. PICK b \in Preparers : PrepStep(b)
      BY <2>2 DEF PrepPart
    <3>2. ppc' = ppc \/ (ppc[b] # "prepared" /\ \E to : ppc' = [ppc EXCEPT ![b] = to])
      BY <3>1 DEF PrepStep, PrepProgress, PrepGoto, StartPreparing, Inspect, Copy, Customise,
         Examine, RecordHash, PrepFails, PrepKilled, PrepActive
    <3>3. image' = image \/ (ppc[b] # "prepared" /\ \E file : image' = [image EXCEPT ![b] = file])
      BY <3>1 DEF PrepStep, PrepProgress, PrepGoto, StartPreparing, Inspect, Copy, Customise,
         Examine, RecordHash, PrepFails, PrepKilled, PrepActive
    <3>4. ppc'[c] = "prepared" /\ image'[c] = image[c]
      BY <1>2, <3>2, <3>3, CompositionAssumption DEF BuildInv, PrepInv, PrepTypeOK
    <3> QED
      BY <3>4 DEF Fits, Answers, Enabled
  <2> QED
    BY <2>1, <2>2
<1>3. ASSUME NEW c \in Checkers PROVE Checking(c)'
  <2>1. Checking(c) /\ bpc[c] \in {"idle"} \cup BootActive \cup BootEnded
    BY DEF BuildInv, BootInv, BootTypeOK
  <2>2. CASE ppc[c] = "prepared"
    BY <1>1, <1>2, <2>1, <2>2 DEF Checking, bootVars
  <2>3. CASE ppc[c] # "prepared"
    BY <1>1, <2>1, <2>3 DEF Checking, bootVars, Asking, BootEnded
  <2> QED
    BY <2>2, <2>3
<1>4. BootTypeOK'
  BY <1>1 DEF BuildInv, BootInv, BootTypeOK, bootVars
<1> QED
  BY <1>3, <1>4 DEF BootInv

LEMMA BootKeeps == BuildInv /\ BootPart => BootInv'
<1> SUFFICES ASSUME BuildInv, BootPart PROVE BootInv'
  OBVIOUS
<1>1. PICK b \in Checkers : BootStep(b)
  BY DEF BootPart
<1>2. /\ BootTypeOK /\ Checking(b) /\ UNCHANGED ppc
      /\ \A c \in Checkers : Fits(c)' <=> Fits(c)
  BY DEF BuildInv, BootInv, BootPart, prepVars, Fits, Answers, Enabled
<1>3. BootKept(b)
  <2>1. CASE StartChecking(b) /\ ppc[b] = "prepared"
    BY <1>2, <2>1 DEF StartChecking, BootGoto, talkVars, BootKept, OthersRest, Checking,
       BootTypeOK, BootActive, BootEnded, Asking
  <2>2. CASE BootProgress(b, Answers(b))
    BY <2>2, <1>2, ProgressKeeps DEF Fits
  <2>3. CASE Expire(b) \/ Environment(b)
    BY <2>3, <1>2, SurroundingsKeep
  <2> QED
    BY <1>1, <2>1, <2>2, <2>3 DEF BootStep
<1>4. ASSUME NEW c \in Checkers \ {b} PROVE Checking(c)'
  <2>1. Checking(c)
    BY DEF BuildInv, BootInv
  <2>2. UNCHANGED ppc /\ OthersRest(b) /\ (Fits(c)' <=> Fits(c))
    BY <1>2, <1>3 DEF BootKept
  <2> QED
    BY <2>1, <2>2 DEF Checking, OthersRest
<1> QED
  BY <1>3, <1>4 DEF BootInv, BootKept

\* The inductive invariant: the cache, the preparation and the boot check of
\* every builder are in step.
THEOREM BuildInvariant == BuildSpec => []BuildInv
<1>1. BuildInit => BuildInv
  BY CacheInitially, PrepInitially, BootInitially DEF BuildInit, BuildInv
<1>2. BuildInv /\ [BuildNext]_buildVars => BuildInv'
  <2> SUFFICES ASSUME BuildInv, [BuildNext]_buildVars PROVE BuildInv'
    OBVIOUS
  <2>1. CASE CachePart
    <3>1. CacheInv'
      BY <2>1, CacheKeeps DEF CachePart, BuildInv
    <3> QED
      BY <2>1, <3>1, PrepOverCache, BootBesideOthers DEF BuildInv
  <2>2. CASE PrepPart
    <3>1. CacheInv'
      BY <2>2 DEF PrepPart, BuildInv, CacheInv, CacheTypeOK, SecondAttempt, StillVerified, OwnPid,
         PidsDiffer, OwnDraft, cacheVars, sharedVars, snippetVars
    <3> QED
      BY <2>2, <3>1, PrepKeeps, BootBesideOthers DEF BuildInv
  <2>3. CASE BootPart
    <3>1. UNCHANGED <<cacheVars, prepVars, disturbed>>
      BY <2>3 DEF BootPart
    <3>2. CacheInv'
      BY <3>1 DEF BuildInv, CacheInv, CacheTypeOK, SecondAttempt, StillVerified, OwnPid,
         PidsDiffer, OwnDraft, cacheVars, sharedVars, snippetVars
    <3>3. PrepInv'
      BY <3>1 DEF BuildInv, PrepInv, PrepTypeOK, Preparing, cacheVars, prepVars
    <3> QED
      BY <2>3, <3>2, <3>3, BootKeeps DEF BuildInv
  <2>4. CASE UNCHANGED buildVars
    BY <2>4 DEF BuildInv, CacheInv, CacheTypeOK, SecondAttempt, StillVerified, OwnPid, PidsDiffer,
       OwnDraft, PrepInv, PrepTypeOK, Preparing, BootInv, BootTypeOK, Checking, Fits, Answers, Enabled, buildVars,
       cacheVars, sharedVars, snippetVars, prepVars, bootVars
  <2> QED
    BY <2>1, <2>2, <2>3, <2>4 DEF BuildNext
<1> QED
  BY <1>1, <1>2, PTL DEF BuildSpec

-----------------------------------------------------------------------------
(* What follows from it.                                                   *)

\* Every variable of the three parts keeps its type.
THEOREM BuildTypes == BuildSpec => []BuildTypeOK
<1>1. BuildInv => BuildTypeOK
  BY DEF BuildInv, CacheInv, PrepInv, BootInv, BuildTypeOK
<1> QED
  BY <1>1, BuildInvariant, PTL

\* "checksum verification failed" means that the mirror sent other bytes than
\* it lists or that another builder worked on the same file, never that an
\* earlier run left something (download_image).
THEOREM LeftoversAreHarmless == BuildSpec => []LeftoversNeverFatal
<1>1. BuildInv => LeftoversNeverFatal
  <2> SUFFICES ASSUME BuildInv, NEW b \in Builders, cpc[b] = "corrupt"
               PROVE  b \in bad \cup rivalled
    BY DEF LeftoversNeverFatal
  <2>1. SecondAttempt(b) /\ attempt[b] \in 1..2
    BY DEF BuildInv, CacheInv, CacheTypeOK
  <2> QED
    BY <2>1 DEF SecondAttempt
<1> QED
  BY <1>1, BuildInvariant, PTL

\* Whatever the order of the writers, a snippet holds what its name is the
\* hash of, while no two shells have the same PID (write_snippets).
THEOREM SnippetsKeepTheirNames == BuildSpec => []SnippetsAreTheirNames
<1>1. BuildInv => SnippetsAreTheirNames
  BY DEF BuildInv, CacheInv, PidsDiffer, SnippetsAreTheirNames
<1> QED
  BY <1>1, BuildInvariant, PTL

\* The image a template is made from is the pinned release, whole, unless
\* another builder changed the cache between the checksum and the copy.
THEOREM ImagesArePinned == BuildSpec => []CopiedIsPinned
<1>1. BuildInv => CopiedIsPinned
  BY DEF BuildInv, PrepInv, Preparing, CopiedIsPinned
<1> QED
  BY <1>1, BuildInvariant, PTL

\* A boot report means a passed script and an agent that answers what the
\* panel needs, whichever reply was taken for which (verify-guest-boot.py).
THEOREM ReportsAreTrue == BuildSpec => []ReportMeansFit
<1>1. BuildInv => ReportMeansFit
  <2> SUFFICES ASSUME BuildInv, NEW b \in reported
               PROVE  /\ script[b] = "ok"
                      /\ Demanded \subseteq Answers(b)
                      /\ Answers(b) \ Required = Enabled(guest[b]) \ Required
    BY DEF ReportMeansFit
  <2>1. b \in Checkers /\ Checking(b) /\ b \in Preparers /\ PrepInv
    BY CompositionAssumption DEF BuildInv, BootInv, BootTypeOK
  <2>2. b \in reported => script[b] = "ok" /\ Fits(b) /\ bpc[b] # "idle"
    BY <2>1 DEF Checking
  <2>3. ppc[b] = "prepared"
    BY <2>1, <2>2 DEF Checking
  <2> QED
    BY <2>1, <2>2, <2>3, PreparedAnswers DEF Fits
<1> QED
  BY <1>1, BuildInvariant, PTL

\* "Required QGA operations are disabled" is said of a prepared image only
\* because of an answer to an earlier request, or because a list that
\* configure-qga.py passed over withholds a call the panel needs.
THEOREM DisabledIsExplained == BuildSpec => []DisabledHasCause
<1>1. BuildInv => DisabledHasCause
  <2> SUFFICES ASSUME BuildInv, NEW b \in Checkers, verdict[b] = "disabled", b \notin stale
               PROVE  Withheld(b) # {}
    BY DEF DisabledHasCause
  <2>1. Checking(b) /\ b \in Preparers /\ PrepInv
    BY CompositionAssumption DEF BuildInv, BootInv
  <2>2. ~Fits(b) /\ ppc[b] = "prepared"
    BY <2>1 DEF Checking
  <2> QED
    BY <2>1, <2>2, PreparedAnswers
<1> QED
  BY <1>1, BuildInvariant, PTL

\* No file of a failed preparation and no QEMU process of a finished check is
\* left, except where a signal found no handler.
THEOREM NothingIsLeft == BuildSpec => []NothingLeftBehind
<1>1. BuildInv => NothingLeftBehind
  <2> SUFFICES ASSUME BuildInv PROVE FailedLeavesNothing /\ NoMachineLeft
    BY DEF NothingLeftBehind
  <2>1. FailedLeavesNothing
    <3>1. NoImage \notin Prepared
      BY CompositionAssumption DEF Prepared
    <3> QED
      BY <3>1 DEF BuildInv, PrepInv, Preparing, FailedLeavesNothing
  <2>2. NoMachineLeft
    BY DEF BuildInv, BootInv, Checking, NoMachineLeft
  <2> QED
    BY <2>1, <2>2
<1> QED
  BY <1>1, BuildInvariant, PTL

=============================================================================

----------------------------- MODULE ImageBuild -----------------------------
(***************************************************************************)
(* From the pinned download to a template image that has booted: the cache *)
(* shared by several builders, then the preparation and the isolated boot  *)
(* of one image, as download_image, write_snippets and prepare_images call *)
(* them.  The preparation works on private files, so it is followed only   *)
(* for the builders in Preparers; the others matter through the cache.     *)
(***************************************************************************)
EXTENDS ImageCache, ImagePreparation, GuestBootCheck

\* The calls the check demands are among those configure-qga.py is to enable: the
\* two programs have the same list.
ASSUME CompositionAssumption ==
  /\ Checkers = Preparers
  /\ Preparers \subseteq Builders
  /\ Demanded \subseteq Required
  /\ NoImage \notin [source : Content, allow : SUBSET Calls, block : SUBSET Calls]

VARIABLE
  \* history variable, read by no action
  disturbed   \* preparers that copied what others had changed since Verify

buildVars == <<cacheVars, prepVars, bootVars, disturbed>>

BuildInit == CacheInit /\ PrepInit /\ BootInit /\ disturbed = {}

\* The calls the agent in b's prepared image answers.
Answers(b) == Enabled(image[b])

\* Once the copy is made nothing of it depends on the cache, so the cache
\* rests from then on: its other states are those reached before.
CachePart ==
  /\ \A b \in Preparers : ppc[b] \in {"idle", "inspect", "copy"}
  /\ \E b \in Builders : CacheStep(b)
  /\ UNCHANGED <<prepVars, bootVars, disturbed>>

\* prepare_images follows write_snippets.
PrepStep(b) ==
  \/ StartPreparing(b) /\ cpc[b] = "ready"
  \/ PrepProgress(b, target)
  \/ PrepKilled(b)

\* The source must be a file when the preparation begins and is read.
PrepPart ==
  /\ \E b \in Preparers :
       /\ PrepStep(b)
       /\ ppc'[b] \in {"copy", "customise"} => target # None
       /\ disturbed' = IF ppc[b] = "copy" /\ ppc'[b] = "customise" /\ b \in rivalled
                       THEN disturbed \cup {b} ELSE disturbed
  /\ UNCHANGED <<cacheVars, bootVars>>

\* The check of an image follows its preparation.  It shares nothing with
\* other builders, so it is followed where no other builder has begun.
BootStep(b) ==
  \/ /\ StartChecking(b)
     /\ ppc[b] = "prepared"
     /\ \A c \in Builders \ Preparers : cpc[c] = "sums" /\ attempt[c] = 1
  \/ image[b] # NoImage /\ BootProgress(b, Answers(b))
  \/ Expire(b)
  \/ Environment(b)

BootPart ==
  /\ \E b \in Checkers : BootStep(b)
  /\ UNCHANGED <<cacheVars, prepVars, disturbed>>

BuildNext == CachePart \/ PrepPart \/ BootPart

\* prepare-image.py gives every command a timeout, and the check has its
\* deadline; qemu-img info, which has none, is assumed to return.  curl has no
\* overall timeout: nothing is assumed of it.
BuildFairness ==
  \A b \in Preparers :
    /\ WF_buildVars(PrepPart /\ PrepProgress(b, target))
    /\ WF_buildVars(BootPart /\ image[b] # NoImage /\ BootProgress(b, Answers(b)))
    /\ WF_buildVars(BootPart /\ Expire(b))

BuildSpec == BuildInit /\ [][BuildNext]_buildVars /\ BuildFairness

-----------------------------------------------------------------------------
BuildTypeOK ==
  /\ CacheTypeOK
  /\ PrepTypeOK(Content)
  /\ BootTypeOK
  /\ disturbed \subseteq Preparers

\* AGENT-VENDORING: the bytes used satisfy the SHA-256 of the catalog.  What
\* a template is made from is the pinned release, whole, whatever lay in the
\* cache before; that another node changed the shared cache between the
\* checksum and the copy is the exception.
CopiedIsPinned ==
  \A b \in Preparers :
    image[b] # NoImage /\ b \notin disturbed => image[b].source = Whole(pin[b])

\* A boot report means that the script of the check passed in this guest and
\* that its agent answers every call the panel needs and of the other calls
\* exactly those the distribution left enabled.
ReportMeansFit ==
  \A b \in reported :
    /\ script[b] = "ok"
    /\ Demanded \subseteq Answers(b)
    /\ Answers(b) \ Required = Enabled(guest[b]) \ Required

\* The demanded calls that a list configure-qga.py passed over withholds.
Withheld(b) ==
  {c \in Demanded :
     \/ "allow" \in guest[b].unseen /\ c \notin guest[b].allow
     \/ "block" \in guest[b].unseen /\ c \in guest[b].block}

\* "Required QGA operations are disabled" is said only of an answer that was
\* meant for an earlier request, or of an image one of whose lists
\* configure-qga.py passed over without a word: the lists it did edit always
\* satisfy the boot check.
DisabledHasCause ==
  \A b \in Checkers : verdict[b] = "disabled" => b \in stale \/ Withheld(b) # {}

\* Nothing is left that a later step or run could stumble over: no file of a
\* failed preparation, no QEMU process of a finished check.
NothingLeftBehind == FailedLeavesNothing /\ NoMachineLeft

\* The preparation and the check of an image come to an end, whatever the
\* guest does; a guest that never answers costs the deadline.
PreparationEnds ==
  \A b \in Preparers :
    /\ ppc[b] \in PrepActive ~> ppc[b] \in PrepEnded
    /\ bpc[b] \in BootActive ~> bpc[b] \in BootEnded

=============================================================================

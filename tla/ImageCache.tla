----------------------------- MODULE ImageCache -----------------------------
(***************************************************************************)
(* The download cache and the snippets of tools/build-template-engine.sh:  *)
(* download_image, verify_download and write_snippets.                     *)
(*                                                                         *)
(* Both live on a PVE file storage.  The flock keeps two builders of one   *)
(* node apart; the builders here run on different nodes that mount the     *)
(* same storage.  They want an image of the same file name, of the same    *)
(* catalog release or of two.  curl keeps the file open that it opened, so *)
(* it follows a rename and survives an rm, and a killed builder's curl     *)
(* goes on writing.                                                        *)
(***************************************************************************)
EXTENDS Naturals

CONSTANTS
  Builders,   \* engines, each on a node of its own
  Versions,   \* releases of the upstream image
  Profiles,   \* cloud-init profiles; a profile determines its hash
  Profile,    \* Profile[b]: what write_snippets of b writes
  Pids,       \* process IDs
  Pinnings,   \* which release each builder's catalog may pin
  None,       \* no file
  Mixed       \* content that is no release, or of two of them

ASSUME CacheAssumption ==
  /\ Profile \in [Builders -> Profiles]
  /\ Pinnings \subseteq [Builders -> Versions]
  /\ None \notin Pids

VARIABLES
  pin,        \* pin[b]: source_sha256 of b's catalog, as a release
  pid,        \* pid[b]: $$, or None before it is used
  cpc,        \* cpc[b]: where b is in download_image and write_snippets
  attempt,    \* attempt[b]: `for attempt in 1 2'
  target,     \* what the cached image holds
  part,       \* what target.part holds
  writer,     \* writer[b]: the file b's curl has open: "part", "target"
              \* (moved since), "gone" (deleted or replaced since), or None
  offset,     \* offset[b]: that curl continues at the "right" offset, at a
              \* "wrong" one, or finds nothing left to fetch ("end")
  drafts,     \* drafts[p]: .ppflight-...-p.tmp
  named,      \* named[b]: the name b computed for its snippet
  snippets,   \* snippets[p]: ppflight-...-<hash of p>.yaml
  \* history variables, read by no action
  bad,        \* builders that a mirror sent other bytes than it lists
  rivalled    \* builders that began, or verified last, before another
              \* builder changed the cache

sharedVars == <<target, part, writer, offset, rivalled>>
snippetVars == <<drafts, named, snippets>>
cacheVars == <<pin, pid, cpc, attempt, sharedVars, snippetVars, bad>>

CacheActive == {"sums", "open", "curl", "move", "verify", "refresh",
                "draft", "hash", "place"}
CacheEnded  == {"ready", "corrupt", "failed", "killed"}

Some(v)  == [version |-> v, whole |-> FALSE]
Whole(v) == [version |-> v, whole |-> TRUE]
Content  == [version : Versions, whole : BOOLEAN] \cup {None, Mixed}

\* Whatever an earlier run, of this release or another, may have left.
CacheInit ==
  /\ pin \in Pinnings
  /\ pid = [b \in Builders |-> None]
  /\ cpc = [b \in Builders |-> "sums"]
  /\ attempt = [b \in Builders |-> 1]
  /\ target \in {None, Mixed} \cup {Whole(v) : v \in Versions}
  /\ part \in Content
  /\ writer = [b \in Builders |-> None]
  /\ offset = [b \in Builders |-> "right"]
  /\ drafts = [p \in Pids |-> None]
  /\ named = [b \in Builders |-> None]
  /\ snippets = [p \in Profiles |-> None]
  /\ bad = {}
  /\ rivalled = {}

CacheGoto(b, from, to) ==
  /\ cpc[b] = from
  /\ cpc' = [cpc EXCEPT ![b] = to]

\* Builders that have begun, other than b, see b change the cache.
Rivals(b) ==
  rivalled \cup {c \in Builders \ {b} : cpc[c] # "sums" \/ attempt[c] = 2}

-----------------------------------------------------------------------------
\* Bug: a cached image is taken as it is.
CheckSumsTrustCache(b) ==
  /\ CacheGoto(b, "sums", IF target = None THEN "open" ELSE "draft")
  /\ UNCHANGED <<pin, pid, attempt, sharedVars, snippetVars, bad>>

\* The upstream list still has the catalog's checksum; then `-s target'.
CheckSums(b) ==
  /\ CacheGoto(b, "sums", IF target = None THEN "open" ELSE "verify")
  /\ UNCHANGED <<pin, pid, attempt, sharedVars, snippetVars, bad>>

\* curl --continue-at -: what the part holds decides where curl continues.
\* It does not look whose part it is; a part that is no shorter than the
\* image is left alone.
OpenPart(b) ==
  /\ CacheGoto(b, "open", "curl")
  /\ part' = IF part = None THEN Some(pin[b]) ELSE part
  /\ writer' = [writer EXCEPT ![b] = "part"]
  /\ \E o \in IF part \in {None, Some(pin[b])} THEN {"right"}
              ELSE IF part = Whole(pin[b]) THEN {"end"} ELSE {"wrong", "end"} :
       offset' = [offset EXCEPT ![b] = o]
  /\ rivalled' = IF part = None THEN Rivals(b) ELSE rivalled
  /\ UNCHANGED <<pin, pid, attempt, target, snippetVars, bad>>

\* What a file with this content holds once b's curl is through.
Appended(b, content) ==
  IF offset[b] = "end" THEN content
  ELSE IF offset[b] = "right" /\ b \notin bad' THEN Whole(pin[b]) ELSE Mixed

\* curl ends, in a live builder or after it was killed.
CurlEnds(b) ==
  /\ cpc[b] \in {"curl", "killed"}
  /\ writer[b] # None
  /\ cpc' = [cpc EXCEPT ![b] = IF @ = "curl" THEN "move" ELSE @]
  /\ bad' \in {bad, bad \cup {b}}
  /\ part' = IF writer[b] = "part" THEN Appended(b, part) ELSE part
  /\ target' = IF writer[b] = "target" THEN Appended(b, target) ELSE target
  /\ writer' = [writer EXCEPT ![b] = None]
  /\ offset' = [c \in Builders |->
                  IF /\ c # b /\ writer[c] = writer[b]
                     /\ <<part, target>>' # <<part, target>>
                  THEN "wrong" ELSE offset[c]]
  /\ rivalled' = IF <<part, target>>' # <<part, target>>
                 THEN Rivals(b) ELSE rivalled
  /\ UNCHANGED <<pin, pid, attempt, snippetVars>>

\* mv target.part target.
Move(b) ==
  /\ CacheGoto(b, "move", "verify")
  /\ part # None
  /\ target' = part
  /\ part' = None
  /\ writer' = [c \in Builders |-> CASE writer[c] = "part"   -> "target"
                                     [] writer[c] = "target" -> "gone"
                                     [] OTHER                -> writer[c]]
  /\ rivalled' = Rivals(b)
  /\ UNCHANGED <<pin, pid, attempt, offset, snippetVars, bad>>

\* verify_download: both checksums and the size, of whatever is there now.
Verify(b) ==
  /\ CacheGoto(b, "verify", IF target = Whole(pin[b]) THEN "draft" ELSE "refresh")
  /\ rivalled' = IF target = Whole(pin[b]) THEN rivalled \ {b} ELSE rivalled
  /\ UNCHANGED <<pin, pid, attempt, target, part, writer, offset, snippetVars, bad>>

\* Bug: the attempts are not counted.
RemoveForever(b, files) ==
  /\ CacheGoto(b, "refresh", "sums")
  /\ attempt' = [attempt EXCEPT ![b] = @ + 1]
  /\ target' = None
  /\ part' = None
  /\ writer' = [c \in Builders |-> IF writer[c] \in files THEN "gone" ELSE writer[c]]
  /\ rivalled' = Rivals(b)
  /\ UNCHANGED <<pin, pid, offset, snippetVars, bad>>

\* The files removed before the second attempt, or before giving up.
Remove(b, files) ==
  /\ CacheGoto(b, "refresh", IF attempt[b] = 1 THEN "sums" ELSE "corrupt")
  /\ attempt' = [attempt EXCEPT ![b] = 2]
  /\ target' = IF "target" \in files THEN None ELSE target
  /\ part' = IF "part" \in files THEN None ELSE part
  /\ writer' = [c \in Builders |-> IF writer[c] \in files THEN "gone" ELSE writer[c]]
  /\ rivalled' = Rivals(b)
  /\ UNCHANGED <<pin, pid, offset, snippetVars, bad>>

\* Bug: only the finished file is removed.
RefreshTargetOnly(b) == Remove(b, {"target"})

Refresh(b) == Remove(b, {"target", "part"})

\* Bug: one temporary name for everybody.
DraftShared(b) ==
  /\ CacheGoto(b, "draft", "hash")
  /\ \E p \in Pids : pid' = [pid EXCEPT ![b] = p]
  /\ drafts' = [p \in Pids |-> Profile[b]]
  /\ UNCHANGED <<pin, attempt, sharedVars, named, snippets, bad>>

\* write_snippets: the temporary file, whose name carries the PID ...
Draft(b) ==
  /\ CacheGoto(b, "draft", "hash")
  /\ \E p \in Pids :
       /\ pid' = [pid EXCEPT ![b] = p]
       /\ drafts' = [drafts EXCEPT ![p] = Profile[b]]
  /\ UNCHANGED <<pin, attempt, sharedVars, named, snippets, bad>>

\* ... its hash ...
Hash(b) ==
  /\ CacheGoto(b, "hash", "place")
  /\ drafts[pid[b]] # None
  /\ named' = [named EXCEPT ![b] = drafts[pid[b]]]
  /\ UNCHANGED <<pin, pid, attempt, sharedVars, drafts, snippets, bad>>

\* ... and the name that carries the hash, unless that file exists.
Place(b) ==
  /\ CacheGoto(b, "place", "ready")
  /\ \/ /\ snippets[named[b]] # None
        /\ UNCHANGED snippets
     \/ /\ snippets[named[b]] = None
        /\ drafts[pid[b]] # None
        /\ snippets' = [snippets EXCEPT ![named[b]] = drafts[pid[b]]]
  /\ drafts' = [drafts EXCEPT ![pid[b]] = None]
  /\ UNCHANGED <<pin, pid, attempt, sharedVars, named, bad>>

\* The list differs, curl or mv fails, the image is no qcow2, or a signal:
\* the builder's curl ends with it, the files stay as they are.
CacheFails(b) ==
  /\ cpc[b] \in CacheActive
  /\ cpc' = [cpc EXCEPT ![b] = "failed"]
  /\ writer' = [writer EXCEPT ![b] = None]
  /\ UNCHANGED <<pin, pid, attempt, target, part, offset, rivalled, snippetVars, bad>>

\* SIGKILL of the shell: curl lives on (and with it the node's flock).
CacheKilled(b) ==
  /\ cpc[b] \in CacheActive
  /\ cpc' = [cpc EXCEPT ![b] = "killed"]
  /\ UNCHANGED <<pin, pid, attempt, sharedVars, snippetVars, bad>>

CacheStep(b) ==
  \/ CheckSums(b) \/ OpenPart(b) \/ CurlEnds(b) \/ Move(b) \/ Verify(b)
  \/ Refresh(b) \/ Draft(b) \/ Hash(b) \/ Place(b)
  \/ CacheFails(b) \/ CacheKilled(b)

-----------------------------------------------------------------------------
CacheTypeOK ==
  /\ pin \in [Builders -> Versions]
  /\ pid \in [Builders -> Pids \cup {None}]
  /\ cpc \in [Builders -> CacheActive \cup CacheEnded]
  /\ attempt \in [Builders -> 1..2]
  /\ {target, part} \subseteq Content
  /\ writer \in [Builders -> {None, "part", "target", "gone"}]
  /\ offset \in [Builders -> {"right", "wrong", "end"}]
  /\ drafts \in [Pids -> Profiles \cup {None}]
  /\ named \in [Builders -> Profiles \cup {None}]
  /\ snippets \in [Profiles -> Profiles \cup {None}]
  /\ bad \cup rivalled \subseteq Builders

\* Whatever an earlier run left in the cache, half a download of an older
\* release included, the second attempt starts from nothing: "checksum
\* verification failed" means that the mirror sent something else than it
\* lists, or that another node worked on the same file.
LeftoversNeverFatal ==
  \A b \in Builders : cpc[b] = "corrupt" => b \in bad \cup rivalled

\* A snippet never holds anything but what its name is the hash of, so the
\* templates that refer to it keep the profile they were verified with;
\* two shells on two nodes that happen to have one PID are the exception.
SnippetsAreTheirNames ==
  (\A b, c \in Builders : pid[b] = pid[c] /\ pid[b] # None => b = c) =>
    \A p \in Profiles : snippets[p] \in {None, p}

=============================================================================

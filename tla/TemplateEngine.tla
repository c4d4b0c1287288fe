--------------------------- MODULE TemplateEngine ---------------------------
(***************************************************************************)
(* The template build engine, tools/build-template-engine.sh, together     *)
(* with the read-only checks it calls, tools/template-existing.py.         *)
(*                                                                         *)
(* A builder is one process running main().  It owns the node it runs on   *)
(* through a flock in /run/lock, checks the catalog VMIDs it was asked     *)
(* for, downloads and prepares every image away from PVE, and only then    *)
(* walks the selection once more, replacing or creating one template per   *)
(* row.  Several builders may run on one node and on several nodes of the  *)
(* same PVE cluster, while people keep administering that cluster.         *)
(*                                                                         *)
(* The PVE cluster itself (qm, pvesh) is not part of the repository: `vm', *)
(* `inUse' and the Op... actions are modelled from how the engine uses it. *)
(***************************************************************************)
EXTENDS Naturals, Sequences

CONSTANTS
  Builders,   \* processes running the engine, at most one run each
  Nodes,      \* PVE nodes of one cluster
  Vmids,      \* catalog VMIDs; a VMID determines the catalog name
  Ovmf,       \* the VMIDs whose catalog firmware is ovmf, not seabios
  Home,       \* Home[b]: the node builder b runs on
  CacheDir,   \* CacheDir[b]: CACHE_DIR of b, on a FILE_STORAGE that several
              \* nodes may share
  Selection,  \* Selection[b]: SELECTED_ROWS of b, as a sequence of VMIDs
  Replace,    \* Replace[b]: REPLACE_EXISTING = 1
  Cleanup,    \* Cleanup[b]: CLEANUP_FAILED_VM = 1
  Operator,   \* whoever else changes VMs: administrators, earlier releases
  None,       \* no VM, no digest, no CURRENT_VMID
  MaxOps      \* bound on the number of steps of the Operator

ASSUME HomeAssumption    == Home \in [Builders -> Nodes]
ASSUME FlagAssumption    == /\ Replace \in [Builders -> BOOLEAN]
                            /\ Cleanup \in [Builders -> BOOLEAN]
ASSUME BoundAssumption   == MaxOps \in Nat
ASSUME OtherAssumption   == /\ Operator \notin Builders
                            /\ None \notin Builders \cup Vmids

ASSUME FirmwareAssumption == Ovmf \subseteq Vmids

\* select_templates never selects a row twice and dies on an empty match.
ASSUME SelectionAssumption ==
  /\ Selection \in [Builders -> Seq(Vmids)]
  /\ \A b \in Builders :
       /\ Len(Selection[b]) > 0
       /\ \A i, j \in 1..Len(Selection[b]) :
            Selection[b][i] = Selection[b][j] => i = j

(***************************************************************************)
(* A VM as `qm config' shows it.  `id' stands for the uuid PVE puts in     *)
(* every configuration it creates, so the record as a whole stands for the *)
(* digest: PVE hashes the configuration file.  `configured' abstracts the  *)
(* disk, cloud-init and resize settings of create_template; `boot' is the  *)
(* boot order: the system disk alone, the disk and the cloud-init drive,   *)
(* or any other; `maker' is history.                                       *)
(***************************************************************************)
BootOrders == {"disk", "both", "custom"}

Vm == [id : Nat, node : Nodes, name : {"catalog", "foreign"},
       tag : {"build", "project", "none"}, template : BOOLEAN,
       configured : BOOLEAN, lock : BOOLEAN, boot : BootOrders,
       maker : Builders \cup {Operator}]

ASSUME NoneAssumption == None \notin Vm

\* A build manifest: the builder that truncated it last and those that have
\* written to it since, and whether a single writer got to its last row.
Manifest == [writers : SUBSET Builders, whole : BOOLEAN]

Dirs == {CacheDir[b] : b \in Builders}

VARIABLES
  vm,         \* vm[v]: the configuration behind VMID v, or None
  inUse,      \* VMIDs whose disks another VM references or clones
  births,     \* births[v]: how many VMs were created under VMID v
  ops,        \* Operator steps taken so far
  lock,       \* lock[n]: the builder holding the flock of node n, or None
  pc,         \* pc[b]: where builder b is in main()
  pos,        \* pos[b]: index of the row main's current loop works on
  presence,   \* presence[b]: the cluster inventory as b classified it
  checked,    \* checked[b][v]: REPLACEMENT_DIGESTS, or None
  prepared,   \* prepared[b]: rows with a prepared, boot-verified image
  current,    \* current[b]: CURRENT_VMID, or None
  created,    \* created[b]: CREATED_VMIDS
  manifest,   \* manifest[d]: the build manifest in the cache directory d
  ok,         \* ok[b]: main() returned, so on_exit sees rc = 0
  \* history variables, read by no action
  replaced,   \* replaced[b]: old templates b destroyed
  meddled,    \* meddled[b]: VMIDs the Operator changed and b has neither
              \* rechecked nor created since
  excused     \* builders that got a signal or whose cleanup command failed

pveVars     == <<vm, inUse, births>>
runVars     == <<pos, presence, checked, prepared, current, created, ok>>
historyVars == <<replaced, meddled, excused>>
vars == <<pveVars, ops, lock, pc, runVars, manifest, historyVars>>

-----------------------------------------------------------------------------
(* Control states of main(), in program order, and of on_exit.             *)

Running == {"inventory", "check", "download", "prepare", "recheck", "clones",
            "destroy", "create", "claim", "configure", "convert", "finalise",
            "record", "verify", "backup", "manifest", "entries", "report"}
Exiting == {"exit", "cleanup", "leave"}
Ended   == {"succeeded", "failed", "crashed"}
Live    == Running \cup Exiting

Row(b)     == Selection[b][pos[b]]
Rows(b)    == {Selection[b][i] : i \in 1..Len(Selection[b])}

\* Bug: the loops run one row past the end, or stop one row short of it.
LastRowPast(b)  == pos[b] > Len(Selection[b])
LastRowShort(b) == pos[b] + 1 >= Len(Selection[b])

LastRow(b) == pos[b] = Len(Selection[b])

Goto(b, from, to) ==
  /\ pc[b] = from
  /\ pc' = [pc EXCEPT ![b] = to]

\* Bug: a loop that starts over instead of going on.
NextRowAgain(b, from, again, after) ==
  /\ pos' = [pos EXCEPT ![b] = IF LastRow(b) THEN 1 ELSE @ + 1]
  /\ Goto(b, from, again)

\* A `for row in SELECTED_ROWS' loop: the next row, or what follows the loop.
NextRow(b, from, again, after) ==
  /\ pos' = [pos EXCEPT ![b] = IF LastRow(b) THEN 1 ELSE @ + 1]
  /\ Goto(b, from, IF LastRow(b) THEN after ELSE again)

\* Bug: the node of a VM is not looked at.
OnNodeAnywhere(v, n) == vm[v] # None

\* `qm' finds a VM only on the node it is run on.
OnNode(v, n) == vm[v] # None /\ vm[v].node = n

\* locate(): a VMID held by a regular VM or by another node is an error.
Located(v, n) ==
  IF vm[v] = None THEN "missing"
  ELSE IF OnNode(v, n) /\ vm[v].template THEN "present" ELSE "conflict"

\* managed(), without the expected digest: an unlocked project template.
Managed(v, n) ==
  /\ OnNode(v, n)
  /\ vm[v].template
  /\ ~vm[v].lock
  /\ vm[v].name = "catalog"
  /\ vm[v].tag = "project"

\* replace_check(): managed, and no linked clone and no reference to a disk.
Replaceable(v, n) == Managed(v, n) /\ v \notin inUse

\* Bug: the VM carries the final tag from the start.
NewVmTagged(v, n, maker) ==
  [id |-> births[v] + 1, node |-> n, name |-> "catalog", tag |-> "project",
   template |-> FALSE, configured |-> FALSE, lock |-> FALSE, boot |-> "custom",
   maker |-> maker]

NewVm(v, n, maker) ==
  [id |-> births[v] + 1, node |-> n, name |-> "catalog", tag |-> "build",
   template |-> FALSE, configured |-> FALSE, lock |-> FALSE, boot |-> "custom",
   maker |-> maker]

\* As a release that did not yet boot with the cloud-init drive made it.
OldTemplate(n) ==
  [id |-> 0, node |-> n, name |-> "catalog", tag |-> "project",
   template |-> TRUE, configured |-> TRUE, lock |-> FALSE, boot |-> "disk",
   maker |-> Operator]

Init ==
  /\ vm \in [Vmids -> {None} \cup {OldTemplate(n) : n \in Nodes}]
  /\ inUse = {}
  /\ births = [v \in Vmids |-> 0]
  /\ ops = 0
  /\ lock = [n \in Nodes |-> None]
  /\ pc = [b \in Builders |-> "idle"]
  /\ pos = [b \in Builders |-> 1]
  /\ presence = [b \in Builders |-> [v \in Vmids |-> "missing"]]
  /\ checked = [b \in Builders |-> [v \in Vmids |-> None]]
  /\ prepared = [b \in Builders |-> {}]
  /\ current = [b \in Builders |-> None]
  /\ created = [b \in Builders |-> {}]
  /\ manifest = [d \in Dirs |-> [writers |-> {}, whole |-> FALSE]]
  /\ ok = [b \in Builders |-> FALSE]
  /\ replaced = [b \in Builders |-> {}]
  /\ meddled = [b \in Builders |-> {}]
  /\ excused = {}

-----------------------------------------------------------------------------
(* Before the first change of a VMID.                                      *)

\* Bug: the lock is opened and never tested.
AcquireLockUntested(b) ==
  /\ Goto(b, "idle", "inventory")
  /\ lock' = [lock EXCEPT ![Home[b]] = b]
  /\ UNCHANGED <<pveVars, ops, runVars, manifest, historyVars>>

\* flock -n 9 succeeds, after a preflight that only reads.
AcquireLock(b) ==
  /\ Goto(b, "idle", "inventory")
  /\ lock[Home[b]] = None
  /\ lock' = [lock EXCEPT ![Home[b]] = b]
  /\ UNCHANGED <<pveVars, ops, runVars, manifest, historyVars>>

\* An option, the catalog, a storage or the bridge is not acceptable, or a
\* signal arrives: main() ends before it opens the lock file.
PreflightFails(b) ==
  /\ Goto(b, "idle", "failed")
  /\ UNCHANGED <<pveVars, ops, lock, runVars, manifest, historyVars>>

\* flock -n 9 fails: "another ppflight-cloudinit build is already running".
LockBusy(b) ==
  /\ Goto(b, "idle", "failed")
  /\ lock[Home[b]] # None
  /\ UNCHANGED <<pveVars, ops, lock, runVars, manifest, historyVars>>

\* check_existing_vmids reads the cluster inventory once for all rows.
ReadInventory(b) ==
  /\ Goto(b, "inventory", "check")
  /\ presence' = [presence EXCEPT ![b] = [v \in Vmids |-> Located(v, Home[b])]]
  /\ UNCHANGED <<pveVars, ops, lock, pos, checked, prepared, current, created,
                 manifest, ok, historyVars>>

\* One row of check_existing_vmids.  A VMID found present needs --replace and
\* a passing replace-check, whose digest is kept for the whole run.
CheckRow(b) ==
  LET v == Row(b) IN
  /\ \/ /\ presence[b][v] = "missing"
        /\ UNCHANGED checked
     \/ /\ presence[b][v] = "present"
        /\ Replace[b]
        /\ Replaceable(v, Home[b])
        /\ checked' = [checked EXCEPT ![b][v] = vm[v]]
  /\ NextRow(b, "check", "check", "download")
  /\ UNCHANGED <<pveVars, ops, lock, presence, prepared, current, created,
                 manifest, ok, historyVars>>

\* download_image for every row, then write_snippets.
Download(b) ==
  /\ Goto(b, "download", "prepare")
  /\ UNCHANGED <<pveVars, ops, lock, runVars, manifest, historyVars>>

\* Bug: each row is replaced as soon as its own image is ready.
PrepareRowOnly(b) ==
  /\ Goto(b, "prepare", "recheck")
  /\ prepared' = [prepared EXCEPT ![b] = @ \cup {Row(b)}]
  /\ UNCHANGED <<pveVars, ops, lock, pos, presence, checked, current, created,
                 manifest, ok, historyVars>>

\* One row of prepare_images: offline preparation, then the isolated boot.
PrepareRow(b) ==
  /\ NextRow(b, "prepare", "prepare", "recheck")
  /\ prepared' = [prepared EXCEPT ![b] = @ \cup {Row(b)}]
  /\ UNCHANGED <<pveVars, ops, lock, presence, checked, current, created,
                 manifest, ok, historyVars>>

-----------------------------------------------------------------------------
(* create_template for one row, and destroy_existing_template within it.   *)

\* Bug: the digest kept by the first check is not compared.
RecheckAnyDigest(b) ==
  LET v == Row(b) IN
  /\ \/ /\ checked[b][v] # None
        /\ Managed(v, Home[b])
        /\ Goto(b, "recheck", "clones")
        /\ meddled' = [meddled EXCEPT ![b] = @ \ {v}]
     \/ /\ checked[b][v] = None
        /\ Located(v, Home[b]) = "missing"
        /\ Goto(b, "recheck", "create")
        /\ UNCHANGED meddled
  /\ UNCHANGED <<pveVars, ops, lock, runVars, manifest, replaced, excused>>

\* The second check reads inventory and configuration: the template is the
\* one whose digest was kept, or the VMID is still missing.
Recheck(b) ==
  LET v == Row(b) IN
  /\ \/ /\ checked[b][v] # None
        /\ Replace[b]
        /\ Managed(v, Home[b])
        /\ vm[v] = checked[b][v]
        /\ Goto(b, "recheck", "clones")
        /\ meddled' = [meddled EXCEPT ![b] = @ \ {v}]
     \/ /\ checked[b][v] = None
        /\ Located(v, Home[b]) = "missing"
        /\ Goto(b, "recheck", "create")
        /\ UNCHANGED meddled
  /\ UNCHANGED <<pveVars, ops, lock, runVars, manifest, replaced, excused>>

\* The rest of the second check reads snapshots and other configurations,
\* some commands after the digest was compared.
RecheckClones(b) ==
  /\ Goto(b, "clones", "destroy")
  /\ Row(b) \notin inUse
  /\ UNCHANGED <<pveVars, ops, lock, runVars, manifest, historyVars>>

\* Bug: all old templates go first, then the new ones are built.
DestroyAllFirst(b) ==
  LET v == Row(b) IN
  /\ NextRow(b, "destroy", "recheck", "create")
  /\ OnNode(v, Home[b])
  /\ vm' = [vm EXCEPT ![v] = None]
  /\ inUse' = inUse \ {v}
  /\ replaced' = [replaced EXCEPT ![b] = @ \cup {v}]
  /\ UNCHANGED <<births, ops, lock, presence, checked, prepared, current,
                 created, ok, manifest, meddled, excused>>

\* qm destroy takes a VMID and no digest: it may remove whatever is there now.
DestroyOld(b) ==
  LET v == Row(b) IN
  /\ Goto(b, "destroy", "create")
  /\ OnNode(v, Home[b])
  /\ vm' = [vm EXCEPT ![v] = None]
  /\ inUse' = inUse \ {v}
  /\ replaced' = [replaced EXCEPT ![b] = @ \cup {v}]
  /\ UNCHANGED <<births, ops, lock, runVars, manifest, meddled, excused>>

\* qm create refuses a VMID that exists anywhere in the cluster.
CreateVm(b) ==
  LET v == Row(b) IN
  /\ Goto(b, "create", "claim")
  /\ vm[v] = None
  /\ vm' = [vm EXCEPT ![v] = NewVm(v, Home[b], b)]
  /\ births' = [births EXCEPT ![v] = @ + 1]
  /\ meddled' = [meddled EXCEPT ![b] = @ \ {v}]
  /\ UNCHANGED <<inUse, ops, lock, runVars, manifest, replaced, excused>>

\* Bug: CURRENT_VMID is not assigned, so on_exit knows of no VM.
ClaimNothing(b) ==
  /\ Goto(b, "claim", "configure")
  /\ UNCHANGED <<pveVars, ops, lock, runVars, manifest, historyVars>>

\* CURRENT_VMID is assigned only after qm create returned.
Claim(b) ==
  /\ Goto(b, "claim", "configure")
  /\ current' = [current EXCEPT ![b] = Row(b)]
  /\ UNCHANGED <<pveVars, ops, lock, pos, presence, checked, prepared, created,
                 manifest, ok, historyVars>>

\* A qm command of builder b that edits the VM of its current row.
QmEdit(b, config) ==
  /\ OnNode(Row(b), Home[b])
  /\ vm' = [vm EXCEPT ![Row(b)] = config]
  /\ UNCHANGED <<inUse, births, ops, lock, manifest, historyVars>>

\* OVMF has to initialise the cloud-init drive on the first boot.
BootOrder(v) == IF v \in Ovmf THEN "both" ELSE "disk"

\* Disk import, qm set ..., qm resize, qm cloudinit update.
Configure(b) ==
  /\ Goto(b, "configure", "convert")
  /\ QmEdit(b, [vm[Row(b)] EXCEPT !.configured = TRUE,
                                  !.boot = BootOrder(Row(b))])
  /\ UNCHANGED runVars

\* qm template.
Convert(b) ==
  /\ Goto(b, "convert", "finalise")
  /\ QmEdit(b, [vm[Row(b)] EXCEPT !.template = TRUE])
  /\ UNCHANGED runVars

\* qm set --tags ppflight-cloudinit, the last change to the template.
Finalise(b) ==
  /\ Goto(b, "finalise", "record")
  /\ QmEdit(b, [vm[Row(b)] EXCEPT !.tag = "project"])
  /\ UNCHANGED runVars

\* CREATED_VMIDS+=, CURRENT_VMID="", and the next row.
Record(b) ==
  /\ NextRow(b, "record", "recheck", "verify")
  /\ created' = [created EXCEPT ![b] = @ \cup {Row(b)}]
  /\ current' = [current EXCEPT ![b] = None]
  /\ UNCHANGED <<pveVars, ops, lock, presence, checked, prepared, manifest, ok,
                 historyVars>>

-----------------------------------------------------------------------------
(* After the last row.                                                     *)

\* verify_template reads the configuration back.
VerifyRow(b) ==
  LET v == Row(b) IN
  /\ OnNode(v, Home[b])
  /\ vm[v].template /\ vm[v].configured
  /\ vm[v].name = "catalog" /\ vm[v].tag = "project"
  /\ v \in Ovmf => vm[v].boot = "both"
  /\ NextRow(b, "verify", "verify", "backup")
  /\ UNCHANGED <<pveVars, ops, lock, presence, checked, prepared, current,
                 created, manifest, ok, historyVars>>

\* backup_templates writes to the backup storage and to no VM.
Backup(b) ==
  /\ Goto(b, "backup", "manifest")
  /\ UNCHANGED <<pveVars, ops, lock, runVars, manifest, historyVars>>

\* Bug: the manifest is appended to, not written anew.
OpenManifestAppends(b) ==
  /\ Goto(b, "manifest", "entries")
  /\ manifest' = [manifest EXCEPT
                    ![CacheDir[b]] = [writers |-> @.writers \cup {b}, whole |-> FALSE]]
  /\ UNCHANGED <<pveVars, ops, lock, runVars, historyVars>>

\* The redirection of write_manifest truncates whatever manifest is in the
\* cache directory, also one that a run on another node is writing.
OpenManifest(b) ==
  /\ Goto(b, "manifest", "entries")
  /\ manifest' = [manifest EXCEPT ![CacheDir[b]] = [writers |-> {b}, whole |-> FALSE]]
  /\ UNCHANGED <<pveVars, ops, lock, runVars, historyVars>>

\* The lines of one row, into whatever the file has become since it was opened.
WriteEntry(b) ==
  LET writers == manifest[CacheDir[b]].writers \cup {b} IN
  /\ NextRow(b, "entries", "entries", "report")
  /\ manifest' = [manifest EXCEPT
                    ![CacheDir[b]] = [writers |-> writers,
                                      whole |-> LastRow(b) /\ writers = {b}]]
  /\ UNCHANGED <<pveVars, ops, lock, presence, checked, prepared, current,
                 created, ok, historyVars>>

\* `qm list' closes main(): the shell exits with status 0.
Report(b) ==
  /\ Goto(b, "report", "exit")
  /\ ok' = [ok EXCEPT ![b] = TRUE]
  /\ UNCHANGED <<pveVars, ops, lock, pos, presence, checked, prepared, current,
                 created, manifest, historyVars>>

-----------------------------------------------------------------------------
(* Failure and on_exit.                                                    *)

\* die, or a command that fails under `set -e'.  Assignments do not fail.
Fail(b) ==
  /\ pc[b] \in Running \ {"claim", "record"}
  /\ pc' = [pc EXCEPT ![b] = "exit"]
  /\ UNCHANGED <<pveVars, ops, lock, runVars, manifest, historyVars>>

\* SIGINT, SIGTERM or SIGHUP: the shell leaves through the EXIT trap, between
\* any two statements.
Signal(b) ==
  /\ pc[b] \in Running
  /\ pc' = [pc EXCEPT ![b] = "exit"]
  /\ excused' = excused \cup {b}
  /\ UNCHANGED <<pveVars, ops, lock, runVars, manifest, replaced, meddled>>

\* Bug: the lock is a file that outlives its owner.
CrashKeepsLock(b) ==
  /\ pc[b] \in Live
  /\ pc' = [pc EXCEPT ![b] = "crashed"]
  /\ UNCHANGED <<pveVars, ops, lock, runVars, manifest, historyVars>>

\* SIGKILL, a signal inside the trap, or the node going down: the kernel
\* drops the flock and nothing is cleaned up.  A command that outlives the
\* shell has inherited descriptor 9 and with it the flock, so for everybody
\* else it is as if it had ended just before the crash.
Crash(b) ==
  /\ pc[b] \in Live
  /\ pc' = [pc EXCEPT ![b] = "crashed"]
  /\ lock' = [lock EXCEPT ![Home[b]] = None]
  /\ UNCHANGED <<pveVars, ops, runVars, manifest, historyVars>>

\* What on_exit looks for before it destroys anything.
Incomplete(b) ==
  /\ current[b] # None
  /\ Cleanup[b]
  /\ OnNode(current[b], Home[b])
  /\ vm[current[b]].name = "catalog"
  /\ vm[current[b]].tag = "build"

InspectOnExit(b) ==
  /\ Goto(b, "exit", IF Incomplete(b) THEN "cleanup" ELSE "leave")
  /\ UNCHANGED <<pveVars, ops, lock, runVars, manifest, historyVars>>

CleanupVm(b) ==
  /\ Goto(b, "cleanup", "leave")
  /\ OnNode(current[b], Home[b])
  /\ vm' = [vm EXCEPT ![current[b]] = None]
  /\ inUse' = inUse \ {current[b]}
  /\ UNCHANGED <<births, ops, lock, runVars, manifest, historyVars>>

\* qm status or qm config fails, or qm destroy does (`|| true').
CleanupFails(b) ==
  /\ \/ Goto(b, "exit", "leave") /\ current[b] # None
     \/ Goto(b, "cleanup", "leave")
  /\ excused' = excused \cup {b}
  /\ UNCHANGED <<pveVars, ops, lock, runVars, manifest, replaced, meddled>>

\* rm -rf PREPARED_DIR; the process ends and with it the flock.
Leave(b) ==
  /\ Goto(b, "leave", IF ok[b] THEN "succeeded" ELSE "failed")
  /\ lock' = [lock EXCEPT ![Home[b]] = None]
  /\ UNCHANGED <<pveVars, ops, runVars, manifest, historyVars>>

-----------------------------------------------------------------------------
(* Everybody else on the cluster.  Nobody sets the internal build tag by   *)
(* hand.                                                                   *)

\* An Operator step on VMID v, seen by every builder as a change of v.
Meddle(v) ==
  /\ ops < MaxOps
  /\ ops' = ops + 1
  /\ meddled' = [b \in Builders |-> meddled[b] \cup {v}]
  /\ UNCHANGED <<lock, pc, runVars, manifest, replaced, excused>>

\* A new VM or a restored template appears under a free VMID.
OpCreate(v, n) ==
  /\ Meddle(v)
  /\ vm[v] = None
  /\ \E template \in BOOLEAN, tag \in {"project", "none"} :
       vm' = [vm EXCEPT ![v] =
                [NewVm(v, n, Operator) EXCEPT !.tag = tag, !.template = template,
                                              !.configured = TRUE,
                                              !.boot = "disk"]]
  /\ births' = [births EXCEPT ![v] = @ + 1]
  /\ UNCHANGED inUse

\* Renamed, untagged, locked by a backup or unlocked, another boot order.
OpEdit(v) ==
  /\ Meddle(v)
  /\ vm[v] # None
  /\ \/ vm' = [vm EXCEPT ![v].name = "foreign"]
     \/ vm' = [vm EXCEPT ![v].tag = "none"]
     \/ vm' = [vm EXCEPT ![v].lock = ~@]
     \/ \E o \in BootOrders \ {vm[v].boot} : vm' = [vm EXCEPT ![v].boot = o]
  /\ UNCHANGED <<inUse, births>>

OpDestroy(v) ==
  /\ Meddle(v)
  /\ vm[v] # None
  /\ v \notin inUse
  /\ vm' = [vm EXCEPT ![v] = None]
  /\ UNCHANGED <<inUse, births>>

\* A linked clone is made of a template, or the last one goes away.
OpClone(v) ==
  /\ Meddle(v)
  /\ vm[v] # None
  /\ vm[v].template
  /\ inUse' = IF v \in inUse THEN inUse \ {v} ELSE inUse \cup {v}
  /\ UNCHANGED <<vm, births>>

-----------------------------------------------------------------------------
Progress(b) ==
  \/ ReadInventory(b) \/ CheckRow(b) \/ Download(b) \/ PrepareRow(b)
  \/ Recheck(b) \/ RecheckClones(b) \/ DestroyOld(b) \/ CreateVm(b) \/ Claim(b)
  \/ Configure(b) \/ Convert(b) \/ Finalise(b) \/ Record(b) \/ VerifyRow(b)
  \/ Backup(b) \/ OpenManifest(b) \/ WriteEntry(b) \/ Report(b)

OnExit(b) ==
  \/ InspectOnExit(b) \/ CleanupVm(b) \/ CleanupFails(b) \/ Leave(b)

Launch(b) == AcquireLock(b) \/ LockBusy(b) \/ PreflightFails(b)

OpStep ==
  \E v \in Vmids :
    \/ \E n \in Nodes : OpCreate(v, n)
    \/ OpEdit(v)
    \/ OpDestroy(v)
    \/ OpClone(v)

Next ==
  \/ \E b \in Builders : Launch(b)
  \/ \E b \in Builders : Progress(b)
  \/ \E b \in Builders : Fail(b)
  \/ \E b \in Builders : Signal(b)
  \/ \E b \in Builders : Crash(b)
  \/ \E b \in Builders : OnExit(b)
  \/ OpStep

Spec == Init /\ [][Next]_vars

\* Every command the engine runs returns or fails, so a live builder keeps
\* moving.  Nothing obliges anybody to launch one.
Fairness == \A b \in Builders : WF_vars(Progress(b) \/ Fail(b) \/ OnExit(b))

FairSpec == Spec /\ Fairness

-----------------------------------------------------------------------------
(* What the engine promises.                                               *)

TypeOK ==
  /\ vm \in [Vmids -> Vm \cup {None}]
  /\ inUse \subseteq Vmids
  /\ births \in [Vmids -> Nat]
  /\ ops \in Nat
  /\ lock \in [Nodes -> Builders \cup {None}]
  /\ pc \in [Builders -> {"idle"} \cup Live \cup Ended]
  /\ pos \in [Builders -> Nat]
  /\ \A b \in Builders : pos[b] \in 1..Len(Selection[b])
  /\ presence \in [Builders -> [Vmids -> {"missing", "present", "conflict"}]]
  /\ checked \in [Builders -> [Vmids -> Vm \cup {None}]]
  /\ prepared \in [Builders -> SUBSET Vmids]
  /\ current \in [Builders -> Vmids \cup {None}]
  /\ created \in [Builders -> SUBSET Vmids]
  /\ manifest \in [Dirs -> Manifest]
  /\ ok \in [Builders -> BOOLEAN]
  /\ replaced \in [Builders -> SUBSET Vmids]
  /\ meddled \in [Builders -> SUBSET Vmids]
  /\ excused \subseteq Builders

\* A finished template of builder b, as verify_template wants it.
CompleteBy(v, b) ==
  /\ OnNode(v, Home[b])
  /\ vm[v].maker = b
  /\ vm[v].tag = "project" /\ vm[v].template /\ vm[v].configured

\* No VMID is destroyed or created before every selected image is prepared
\* and has booted in isolation (README: replacement starts only after all
\* selected images are ready).
ReadyBeforeReplace ==
  \A b \in Builders :
    replaced[b] \cup created[b] # {} => prepared[b] = Rows(b)

\* A live run has at most one template it has taken away and not yet given
\* back: a failed import costs the row being built and no other row.
AtMostOneLost ==
  \A b \in Builders :
    pc[b] \in Live =>
      \A v, w \in {r \in replaced[b] \ meddled[b] :
                     vm[r] = None \/ vm[r].tag # "project"} : v = w

\* The project tag, by which later runs and the agent helper recognise a
\* template, is on a VM an engine made only if that VM is a configured
\* template: a crash or failed command never leaves a half-built one tagged.
ProjectTagMeansComplete ==
  \A v \in Vmids :
    vm[v] # None /\ vm[v].maker \in Builders /\ vm[v].tag = "project"
      => vm[v].template /\ vm[v].configured

\* What a live run has created stays as created until the run ends, whatever
\* other engines on this node or another one do.
CreatedStillThere ==
  \A b \in Builders :
    pc[b] \in Live => \A v \in created[b] \ meddled[b] : CompleteBy(v, b)

\* A run on another node, which no flock keeps away, has truncated the manifest
\* in b's cache directory, or written to it, after b or whoever truncated it.
ForeignEntries(b) ==
  \E c \in manifest[CacheDir[b]].writers : Home[c] # Home[b]

\* When main() returns, every selected row that nobody meddled with is a
\* template of this run, and the manifest in its cache directory lists all its
\* rows and nobody else's.  The one exception is a directory that nodes share:
\* there a run on another node may have emptied the manifest or written to it,
\* and main() returns all the same.
SuccessMeansBuilt ==
  \A b \in Builders :
    ok[b] /\ pc[b] \in Live =>
      /\ \/ manifest[CacheDir[b]] = [writers |-> {b}, whole |-> TRUE]
         \/ ForeignEntries(b)
      /\ \A v \in Rows(b) \ meddled[b] : CompleteBy(v, b)

\* A run that fails by itself (no signal, no failing cleanup command) leaves
\* no incomplete VM of its own behind: on_exit has removed it.
NoLeftover ==
  \A b \in Builders :
    pc[b] = "failed" /\ b \notin excused /\ Cleanup[b] =>
      ~ \E v \in Vmids : /\ vm[v] # None
                         /\ vm[v].maker = b
                         /\ vm[v].name = "catalog"
                         /\ vm[v].tag = "build"

\* Whatever the engines destroy lies on a node whose flock the destroying run
\* holds, and it is either that run's own incomplete VM, or the very
\* configuration whose digest the run kept before it spent hours preparing
\* images, still unlocked and unreferenced, with all images ready.  The one
\* exception is a VMID an operator changed after the last check of it:
\* qm destroy takes no digest.
DestroyOnlyCheckedOrOwn ==
  [][\A v \in Vmids :
       vm[v] # None /\ vm'[v] = None /\ ops' = ops =>
         \E b \in Builders :
           /\ lock[vm[v].node] = b
           /\ v \in Rows(b)
           /\ \/ v \in meddled[b]
              \/ vm[v].maker = b /\ vm[v].tag = "build"
              \/ /\ vm[v] = checked[b][v]
                 /\ Replaceable(v, Home[b])
                 /\ prepared[b] = Rows(b)]_vars

\* README: "when a download, an update or a dependency check fails, the old
\* templates have not been deleted yet".
CheckFailureKeepsOldTemplates ==
  \A b \in Builders :
    pc[b] = "clones" /\ Row(b) \in inUse => replaced[b] = {}

\* Every launched run comes to an end, whatever fails and whoever interferes.
EveryRunEnds == \A b \in Builders : pc[b] \in Live ~> pc[b] \in Ended

\* The flock of a node is never kept for ever: a later run gets its chance
\* even after this one failed or was killed.
LockIsReleased == \A n \in Nodes : []<>(lock[n] = None)

-----------------------------------------------------------------------------
(* The engine as a register of templates: see TemplateReplacement.         *)

\* What a slot shows of what `qm config' says.
TemplateSlot(config) ==
  IF config = None THEN [state |-> "free", by |-> None]
  ELSE [state |-> IF config.tag = "build" /\ config.maker # Operator THEN "draft"
                  ELSE IF config.tag = "project" /\ config.template THEN "template"
                  ELSE "foreign",
        by |-> config.maker]

Preparing == {"inventory", "check", "download", "prepare"}

Phase(b) ==
  IF ok[b] THEN "done"
  ELSE IF pc[b] = "idle" THEN "idle"
  ELSE IF pc[b] \in Preparing THEN "preparing"
  ELSE IF pc[b] \in Running THEN "replacing"
  ELSE IF pc[b] \in Exiting THEN "failing"
  ELSE "over"

\* From qm destroy, or else qm create, to the end of create_template it is
\* the current row, and in on_exit what CURRENT_VMID says.
InHand(b) ==
  IF \/ pc[b] \in {"claim", "configure", "convert", "finalise", "record"}
     \/ pc[b] = "create" /\ checked[b][Row(b)] # None
    THEN Row(b)
  ELSE IF pc[b] \in {"exit", "cleanup"} THEN current[b] ELSE None

Replacement == INSTANCE TemplateReplacement WITH
  Runs <- Builders, Wanted <- [b \in Builders |-> Rows(b)], Replaces <- Replace,
  Others <- Operator, Nobody <- None,
  phase <- [b \in Builders |-> Phase(b)], images <- prepared,
  slot <- [v \in Vmids |-> TemplateSlot(vm[v])],
  work <- [b \in Builders |-> InHand(b)], given <- created, loose <- meddled

\* The engines replace templates one slot at a time, after all images are
\* ready, leaving alone what another run at work has made, whatever crashes,
\* fails or is changed by others in between.
IsReplacement == Replacement!Spec

=============================================================================

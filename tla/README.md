# Verification of ppflight-cloudinit

ppflight-cloudinit builds cloud-init VM templates on a Proxmox VE (PVE) node:
from official cloud images it makes images that are updated, booted once in
isolation and verified, and then templates with fixed, catalog-given VMIDs. A
menu and a JSON helper for the PPFlight Agent drive the same engine; a few
smaller programs publish settings or repair templates that exist already.

This directory holds TLA+ models of the parts that change state on the cluster,
TLC configurations that check them, and proofs checked by TLAPS. Paths below
are relative to `src/`.

## 1. Inventory

| part | code | state it keeps | operations | status |
|---|---|---|---|---|
| Template build engine | `tools/build-template-engine.sh` | flock of the node, `SELECTED_ROWS`, `REPLACEMENT_DIGESTS`, prepared images, `CURRENT_VMID`, `CREATED_VMIDS`; the manifest in the cache directory; VMs of the cluster | main, on_exit | `TemplateEngine` |
| Replacement checks | `tools/template-existing.py` | none | locate, managed, replace-check | `TemplateEngine` |
| Agent bootstrap helper | `tools/ppflight-template-bootstrap.py` | plan and per-item report, vzdump tasks, backup volumes | catalog, discover, bootstrap, bootstrap --execute | `AgentBootstrap` |
| Customer backup target | `tools/customer-backup-target.py` | a marker line in the notes of a PVE node | show, set | `CustomerBackupTarget` |
| Download cache and snippets | engine, `download_image`, `write_snippets` | image files and snippets on a file storage | download, resume, verify, write | `ImageCache` |
| Image preparation | `tools/prepare-image.py`, `tools/prepare-guest.sh` | the image being prepared and its report | inspect, copy, customise, examine, remove | `ImagePreparation` (not the package manager) |
| QGA policy | `tools/configure-qga.py` | the agent's RPC lists in the guest | edit the lists | `ImagePreparation` (not the file syntax) |
| Boot verification | `tools/verify-guest-boot.py` | a QEMU process, its QGA socket, a deadline | boot, ask, stop | `GuestBootCheck` |
| UEFI boot repair | `tools/repair-uefi-boot.py` | boot order of UEFI templates | preflight, repair, read back | `UefiBootRepair` |
| Catalog and contracts | `catalog/`, `contracts/`, `load_catalog`, `load_template_catalog` | two files, read several times | load, select, compare with what was confirmed | `TemplateCatalog`, `BuildRequest` (not the schemas) |
| Storage roles | helper `discover_storages`, engine `preflight` | none | what a storage may be used for | `StorageRoles` |
| Network selection | `tools/template-network.py` | none | inventory, validate, select | `BridgeChoice` |
| Menu | `build-cloud-templates.sh` | choices of the user | menus, confirmation, build | `BuildRequest` in part |
| Host update policy | `build-cloud-templates.sh` | update settings of the host | apt, systemd | not modelled |
| Installer | `install.sh` | a directory of downloaded files | download, exec | not modelled |
| Cloud-init profiles | `cloud-init/` | none | data | not modelled |

How they interact:

- The menu and the Agent helper start the engine as a child process. The helper
  gives it a stripped environment, no `--replace` and `--no-backup`, reads its
  output until it is closed, takes its exit status and then looks at the cluster
  for itself: nothing but the exit status is handed over.
- Engines on one node exclude each other by a flock in `/run/lock`. Engines on
  two nodes of a cluster, and the helper, which has no lock, meet through the VMIDs of
  the cluster; engines on two nodes also through the cache directory, if `FILE_STORAGE`
  is shared: cached images, snippets and one manifest.
- Everything talks to PVE by commands. PVE offers a digest for some updates
  (`pvesh set --digest`), none for `qm destroy`.
- Administrators, scheduled backups and retention work on the same VMs, volumes
  and notes at the same time.

What is hard here is therefore concurrency without a common lock, the hours
between a check and the action it permits, failures and kills between any two
commands, and commands that time out after taking effect. `PROJECT.json` lists
the hazards at the lines where they bite.

What makes each part correct:

- Engine: nothing is destroyed before every image is ready; what is destroyed is
  the template that was checked, or an own incomplete VM; at most one template is
  missing at any moment; the final tag is on complete templates only; a failed
  run cleans up; success means all rows; the run ends and the flock comes free.
- Helper: success is claimed only for templates its own engine built, a failure
  names all that were completed, a backup counts only if its task ended well and
  the volume named is its own, every request is answered, and the exit code tells
  a refusal from a failure.
- Customer backup target: the marker is an atomic register inside notes that
  belong to others.
- Download cache: a file is used only with the right checksum; what an earlier run
  left there never makes a later one fail; a snippet is what its name says.
- Image preparation, boot verification: no file under the final name after a
  failure; no QEMU left behind; a report means that the script passed in this
  guest; what is configured satisfies what is checked; both come to an end.
- UEFI repair: only the VM that was inspected is edited, nothing but the boot order
  changes, and a run that failed half-way can be repeated.
- Catalog: what is built is what was confirmed, also if the file changes meanwhile.
- Storages and bridges: whatever helper and menu accept, the engine accepts too; a
  bridge of the host is used only after the word USE.

## 2. Modules

| module | models | state and actions |
|---|---|---|
| `TemplateEngine` | engine, replacement checks, PVE as they use it | `pc` and `pos` walk the loops of `main`; `vm`, `inUse`, `births` are the cluster; one action per command or block of commands |
| `MCTemplateEngine` | | instances for TLC |
| `TemplateReplacement` | | abstract specification: a register of templates, replaced one at a time |
| `TemplateEngine_proofs` | | inductive invariant and theorems |
| `EngineReplacement_proofs`, `TemplateReplacement_proofs` | | refinement; what the abstract rules give |
| `AgentBootstrap` | helper; EXTENDS `TemplateEngine` | `apc`, `arow` walk `execute_plan`; `item`, `tvol`, `bvol`, `result` are what it reports; `task`, `volumes` the backups of PVE |
| `MCAgentBootstrap`, `AgentBootstrap_proofs` | | instances; composition, types, backups |
| `BackupTargetRegister` | | abstract specification: an atomic register |
| `CustomerBackupTarget` | `customer-backup-target.py` | `config` is the node's configuration, `pc` and `seen` the position and reading of each `save` |
| `MCCustomerBackupTarget`, `CustomerBackupTarget_proofs` | | instances; refinement and safety |
| `UefiBootRepair` | `repair-uefi-boot.py`; EXTENDS `TemplateEngine` | `rpc`, `rpos` walk the two loops, `before` is what the first one read |
| `ImageCache` | `download_image`, `verify_download`, `write_snippets` | `target`, `part`, `drafts`, `snippets` are the shared storage; `cpc`, `attempt`, `writer`, `offset` each builder and its curl |
| `ImagePreparation` | `prepare-image.py`, `configure-qga.py` | `guest` is the upstream image, `image` the file being made, `ppc` the position |
| `GuestBootCheck` | `verify-guest-boot.py` | `bpc` the position, `machine` QEMU, `queue` and `waiting` the agent's channel, `script` the guest's side |
| `ImageBuild` | the three above, as the engine calls them | `disturbed` (history) |
| `TemplateCatalog` | catalog rules, the helper's and the engine's selection | operators only |
| `StorageRoles` | the helper's and the engine's storage checks | operators only |
| `BridgeChoice` | `template-network.py` | operators only |
| `BuildRequest` | helper, menu and engine from the request to the end of preflight; EXTENDS the three above | `way`, `phase`, `pc`; `ask` the request; `file` and `pve` the changing world and what was read of it |
| `MCUefiBootRepair`, `MCImageBuild`, `MCBuildRequest` | | instances for TLC |
| `UefiBootRepair_proofs`, `ImageBuild_proofs`, `BuildRequest_proofs` | | inductive invariants and theorems |

Operators whose comment begins with `Bug:` are no part of any specification. Each
is a definition of the model as a plausible mistake in the code would have it;
`PROJECT.json` ("mutants") names for every property of a passing run one that
violates it.

### TemplateEngine

A *builder* is one process. `main` is cut where another process can observe or
disturb it: the flock (`AcquireLock`, `LockBusy`, `PreflightFails`), the inventory
(`ReadInventory`) and the check of each row against it (`CheckRow`), the download
phase, `PrepareRow`, then per row `Recheck`, `RecheckClones`, `DestroyOld`,
`CreateVm`, `Claim` (`CURRENT_VMID=`, a statement of its own after `qm create`),
`Configure`, `Convert`, `Finalise`, `Record`, and per row `VerifyRow`, at last
`Backup`, `OpenManifest` (the redirection truncates), `WriteEntry` per row, `Report`.
Every command may fail (`Fail`), the process may get a signal (`Signal`) or be
killed (`Crash`); failing leads through the EXIT trap: `InspectOnExit`,
`CleanupVm` or `CleanupFails`, `Leave`.

Abstractions:

- A VM is a record of what the engine and the boot repair look at: name, tag,
  template flag, lock, boot order (the old one, the new one, another), node, maker,
  and whether it is fully configured. An administrator's edit of the boot order
  stands for an edit of any other setting too. The whole record stands for the digest.
  `id` distinguishes VMs that had the same VMID, as their uuid does. Names and tags
  are members of small sets; a VMID determines the catalog name and the firmware.
- The first replace-check of a row is one step, as nothing is destroyed on its
  strength alone: the second one is what `qm destroy` rests on, and it is two steps
  (configuration and digest; clones and references), since PVE is asked twice.
- `Configure` stands for the commands from the disk import to `qm cloudinit
  update`; between them only the builder's own failure matters, which `Fail` covers.
- `qm destroy` removes whatever VM is behind the VMID on this node. PVE would
  refuse some of them (a locked or referenced one); removing more than PVE does
  makes the safety properties stronger.
- A process that is killed may leave a command running which has inherited
  descriptor 9, and with it the flock. To everybody else that is the same as a
  crash a moment later.
- A signal that reaches the shell while the trap runs is a `Crash`.
- Read-only beginnings (options, settings, storages, network, `preflight`) are
  `PreflightFails` or nothing.
- Nobody but an engine sets the tag of an incomplete build. It is an internal name.

The manifest belongs to a cache directory, `CacheDir[b]`, which builders on any nodes may
share; no lock protects it. It is the set of builders whose lines it holds since it was
last truncated, and whether it is one builder's whole list. A builder that opens it
empties it, also under the hands of a run on another node, whose next line then makes it
a mixture. The JSON reports that are copied beside it row by row are left out.

`replaced`, `meddled` and `excused` are history variables: no action reads them.
`meddled[b]` holds the VMIDs that somebody else changed since builder b last
looked at or created them; properties make exceptions for those only.

`TemplateReplacement` is what the engine promises: each VMID is a slot, free or filled
by somebody with a draft, a template or something foreign. A run changes no slot until
all its images are ready, has one slot in hand at a time (`Retire`, `Draft`, `Complete`,
`Give`), never touches what another run at work has made, and runs on one node take
turns; everybody else may do anything (`Disturb`). Refinement mapping (end of
`TemplateEngine`): `TemplateSlot` reads a VM as the engine's own checks do: absent; a
draft while it has the build tag; a template once it has the final tag and the flag; else
foreign. `Phase` groups the control states; `InHand` is the current row from `qm destroy`, or
else from `qm create`, to the end of `create_template`, and `CURRENT_VMID` in `on_exit`.
`loose` is `meddled`: a slot others have changed is no longer promised anything. Digests and
who clears leftovers are not part of the abstract specification: `DestroyOnlyCheckedOrOwn`
and `NoLeftover` are about them.

### AgentBootstrap

The helper's steps are: plan (refused, a typed error, or executable when no
selected VMID exists), the engine as child, reading each template
(`TemplateVolume`), the verdict (`Judge`), and under `backupPolicy=required` the
loop list, vzdump, wait, list again. The specification composes any number of
helpers with engines that are their children and engines started by somebody
else. A helper's engine starts only once the helper has got there, and the
engine's steps are those of `TemplateEngine` unchanged (`Start`, `Continue`,
`Stop`).

- The two loops that read templates, after success and after failure of the
  engine, do the same per item up to the error code; they are one action. `qm config`
  runs with `check=False`: when it fails, the item is taken for missing like one that is
  no template (`ReadConfig`); when it times out, an error leaves the loops
  (`ReadVolumeError`). `unread` is history: the items that were templates when it failed.
- A backup volume is its VMID, the time in its name, and by whom it was made
  (history). Tasks end well or badly at any time. Other backup jobs and retention
  act at any time.
- A request that timed out may have started its task (`BackupError`).
- `_stream_process` returns when the pipe is closed. A command the engine left
  behind holds it open too, and again that is a crash a moment later.
- Each helper asks once. The helper takes replacement and failed-VM settings out of
  the environment of its engine, hence `~Replace[a]` and `Cleanup[a]` are assumed
  of helpers' engines.

### CustomerBackupTarget

Each `save` is storage check, read, write, read back; the digest is the
configuration itself. Creating the first configuration under PVE's lock and the
update under a digest are the same step: the configuration is what was read. A
write that times out may have happened (`WriteTimesOut`) or not (`Fail`).

Notes are sequences of lines; a line is a marker with its value, or other text,
and a bit says whether it ends in a newline. `Joined` is the value of a marker
line that has another line stuck to it. `parse` and `merge` are translated on
these sequences.

`BackupTargetRegister` is the abstract promise: a target that saves set in one
step, never over a malformed marker, and a remainder that saves leave alone.
The refinement mapping reads the target by `Parse` and the remainder as the
other lines with their positions.

### UefiBootRepair

The tool beside the engine and administrators. `Preflight` is one item of the first
loop, which only reads; `Skip`, `Reinspect`, `Set`, `Readback` are the second. PVE
compares the digest and writes under one lock, so `Set` is one step, enabled while
the configuration is the one that was kept. `RepairFails` is every error and kill;
nothing is undone. A process may run the tool again (`MaxRepairs`).
`touched` and `mended` are history variables.

### ImageBuild: ImageCache, ImagePreparation, GuestBootCheck

- The content of the cached image is a release and whether it is whole, or `Mixed`.
  curl continues at the length of what lies there: at the right place, at a wrong one,
  or nowhere. It keeps the file it opened, so `writer` follows a `mv` and an `rm`, and
  it outlives a killed shell.
- Anything may lie in the cache at the beginning: a whole or half image of this or
  another release, or rubbish. `bad` are builders to which the mirror sent other bytes
  than its list says; `rivalled` those whose file another node changed.
- The builders are on different nodes, since the flock of a node keeps two of one node
  apart. Shells on different nodes may have the same PID.
- One image name and one of the two profiles are followed; the others are the same.
- An upstream image is what `prepare-image.py` and `configure-qga.py` distinguish. The
  lists of agent calls are sets. Of the two file syntaxes one thing is kept: a list that
  the patterns of `configure-qga.py` do not match (`unseen`, one with blanks after its
  commas for instance) stays as it is, and nobody is told. The other lists are edited or
  refused (`known`), whatever else the package manager does.
- The agent's channel is a queue of requests. A request that timed out stays in it and
  is answered first; the next connection may take that answer. It may also be lost.
- The guest may die, its script may never end. `leaked` are checks that ended where
  nothing stops QEMU: killed, or interrupted between `Popen` and `try`.
- `poll()` and a failing connection to a dead QEMU are one action, `MachineGone`. What
  the verification script examines is one result. The diagnostic log is left out.

Two reductions keep the composition small without losing a behaviour the properties
see. Once the copy is made nothing of it depends on the cache, so the cache rests from
then on; and the boot check, which shares nothing with other builders, is followed
only where the other builder has not begun.

### BuildRequest: TemplateCatalog, StorageRoles, BridgeChoice

A request comes from an Agent (plan, confirmation, execution) or from an administrator
at the menu; both end in the engine's `load_template_catalog`, `select_templates`,
`preflight` and the two content directories. Meanwhile the catalog file is replaced
(`SwapCatalog`) and the node is reconfigured (`MoveNode`).

- A catalog file stands for its own revision and digest: equal digest, equal content.
  URLs, checksums and formats of an item are its `pin`.
- `SameCatalog` is `CATALOG_DRIFT`. `Metadata`, `CatalogRows`, `MetadataAgain` are the
  three commands of `load_template_catalog`, each a read of its own; `Settled` compares
  the two readings with each other and, for an Agent's plan, with the confirmed one.
- The helper selects through a table of all selectors (`Lookup`), the engine by the
  rows that match first (`FirstRows`), each once (`EngineSelect`); both are translated as
  they are.
- A storage is what the two sets of checks distinguish; they are translated separately
  (`Allowed`, `EngineAllows`). Discovering the storages is one reading of the node.
- VLAN ranges are pairs of numbers and may be any; `Readable` is the error of
  `inventory`. 0 stands for no tag.
- A menu answer that is not understood is asked for again, and so is no step. Ending
  the input or saying no is `Leave`. Choosing and saving the customers' backup target
  changes nothing the rest depends on and is left to `CustomerBackupTarget`.
- VMIDs that exist already are the business of `AgentBootstrap` and `TemplateEngine`.
- `moved` tells what of the node has changed since it was discovered, `swapsThen` how
  often the file had been replaced when the engine began to load it. Both are history.

## 3. Runs

| run | question | instance | states |
|---|---|---|---|
| `engine_one_node` | safety of two engines contending for one node | 2 builders, 1 node, 2 rows, 1 foreign change, crashes anywhere | 1,436,000 |
| `engine_two_nodes` | engines that share no flock; the abstract specification | 1 builder on each of 2 nodes, rows in opposite order, one cache directory | 1,322,000 |
| `engine_operator` | boot repair and administrators during a run; termination | 1 builder, 2 runs of the repair, 2 items, 1 foreign change, fairness | 883,000 |
| `engine_check_failure` | a claim of README.md about failing dependency checks | violation expected | |
| `agent_rows` | what the helper says of templates | helper with 2 rows, a replacing engine with one of them, 1 foreign change | 4,067,000 |
| `agent_backup` | backups and answering | helper with required backups, a foreign backup, retention, fairness | 344,000 |
| `agent_exit_code` | exit codes of docs/AGENT-BOOTSTRAP.md | violation expected | |
| `image_build` | from a dirty cache to a verified image | 2 builders on a shared cache, 2 releases, 2 PIDs, 8 kinds of upstream image, two of them with a list that is passed over, queue of 2, fairness | 704,000 |
| `build_request` | what is confirmed, offered and accepted against what is built | 4 catalog files replaced twice, 5 states of the node changing twice, 5 requests, the menu | 2,743,000 |
| `customer_target` | register, evidence, overriding | 2 saves, 2 edits, five initial notes | 146,000 |
| `customer_not_saved` | what the menu says of a failed save | violation expected | |
| `customer_notes` | the other notes are kept | violation expected | |

Bounds, all of them constants of the modules:

- Two rows are enough for a first, a last and a "next" row: for replacing one
  while another waits, for failing between two, for orders that differ.
- Two builders are all that can meet at a flock, a VMID or a manifest; a third adds only
  further losers. In `agent_rows` the other engine
  has one row: it meets the helper's engine at the second row, where the first has
  already been built; at the first only administrators interfere.
- `MaxOps` bounds foreign changes. One suffices to disturb any single check or
  command; the repair tool changes configurations besides.
- `MaxRepairs` = 2: a run that fails half-way and the one that repeats it.
- `MaxQueue` = 2: a late answer before the one that is waited for.
- `MaxSwaps` = 2: the file replaced, or replaced and put back. `MaxMoves` = 2: the
  node changes and changes again, or back.
- The catalogs of `build_request` are two valid releases, in which a VMID has changed
  hands and a reference has another image, one with an ambiguous selector and an empty
  one. Its node states have storages that are disabled, inactive, missing, full, or
  without safe paths, and bridges of every kind the checks tell apart.
- `MaxBackups` bounds when *others* back up; one foreign backup is enough to be
  confused with an own one.
- `MaxEdits` bounds administrators' edits of notes and storages.

Each builder, helper, save and check runs once. A second run by the same user is a
second builder, which may start after the first has ended; so every sequence of
two runs is covered.

`CHECK_DEADLOCK FALSE` is set throughout: these programs end, and when all have
ended and the bounds are used up nothing need happen any more.

### Fairness

- Engine: weak fairness of "progress, fail or go on with on_exit" of each
  builder. Each command returns or fails at some time; which of the two is
  not assumed, nor that anybody starts a run. This is an assumption about PVE,
  libguestfs and QEMU: the engine itself sets no deadline for them.
- Helper: weak fairness of its own steps (its PVE commands have timeouts and
  waiting for a task has a deadline, so `BackupError` is always possible), of
  starting its child, and of the engines.
- `ImageBuild`: weak fairness of the preparation (each of its commands has a timeout),
  of the boot check's own steps, its timeouts included, and of the clock (`Expire`). One
  command of the boot check, `qemu-img info` before QEMU is started, has no timeout: that
  it returns is an assumption.
  None of the cache: curl has no overall timeout, and none of the guest.
- `UefiBootRepair` and `BuildRequest`: none beyond the engine's.
- No fairness for signals, crashes, administrators, tasks, or retention.

### Violations, and what they mean

- `engine_check_failure`: README.md says that when a dependency check fails the
  old templates have not been deleted yet. The check is repeated row by row
  between replacements; if a clone of a later template appears meanwhile, the run
  fails with earlier rows replaced already. The template with the clone is safe.
- `agent_exit_code`: `qm config` can time out after the engine has built
  templates. The helper then returns 2, documented as a refusal, with an error
  object that does not name the templates that exist now.
- `customer_not_saved`: the menu says that nothing was saved whenever `set`
  fails. It can fail after its write took effect.
- `customer_notes`: a marker line that ends in another separator of `splitlines`
  than a newline swallows the line after it.

## 4. Proofs

For every value of the constants that satisfies the named assumptions of the
modules, with no bound on builders, nodes, rows or edits (the bounds of the
models are arbitrary numbers there):

`TemplateEngine_proofs`. The properties are not inductive by themselves: that
`qm destroy` meets the checked template depends on what the control state says
of digests, locks and the VM. `IInv` adds one named part per relation: a live run
holds its flock (`LockOf`), prepared images by phase (`PreparedOf`), created rows are
those the loop has passed (`CreatedOf`), `CURRENT_VMID` is the row being built
(`CurrentOf`), the window between the digest and the destruction (`WindowOf`), the VM
under construction (`BuildingOf`, `StageOf`), finished ones (`KeptOf`), loss
(`LostOf`), the end of `main` (`DoneOf`), incomplete VMs and who may remove them
(`LeftoverOf`, `CleanupOf`). The proof is per run: steps of other runs
(`OtherStep`; two engines on one node exclude each other by the flock, on two nodes
by `OnNode`), of administrators and other tools (`ForeignStepRun`), and own steps by phase. From it follow
`TypeCorrect`, `Readiness`, `LossBound`, `TagSoundness`, `Isolation`,
`SuccessSoundness`, `CleanupComplete`, and the action property `DestroySafety`. What
`SuccessSoundness` says of the manifest holds for any assignment of runs to nodes and
directories: on one node the flock keeps another run from opening it, so from
`OpenManifest` on it holds this run's lines and no others, or those of a run on another
node (`BegunOf`, `WholeOf`, parts of `DoneOf`). A second
invariant, `EndInv`, looks past the end of a run, where the flock protects nothing any
more: the VM a live run works on was made by no other run (`HeldOf`: whoever built on
the node before had ended when this run created its own), so no step of another run but
a replacement touches a template of a run that has ended (`EndedStays`), and what a
successful run built stands (`SuccessLasts`). Two theorems are the safety half of liveness
properties. `RunsAreBounded`: the variant `StepsLeft`, a function of control state, loop
position and number of rows, drops with each step of the run's own and is raised by nobody, so a
run of n rows takes at most 13n + 9 steps however it fails and whoever interferes; the
engine's loops, its trap included, never start over, and no step waits for another run
(`flock -n` gives up). `FlockBelongsToLive`: whoever has a flock works on that node and has not ended,
so a killed run blocks no later one.

`EngineReplacement_proofs`. `EngineRefinement`: `TemplateEngine` implements
`TemplateReplacement`. Initial states map to initial states, and each action of a builder or
an administrator to one named action of the register or to a stutter (one lemma per group of
actions, `LaunchView` to `ExitView`). The steps must be shown to leave alone what other runs
made and to finish with the slot in hand, for which `EndInv` is not enough: `ViewInv` adds
that a run's VMs are on its node and behind the rows it has passed or the current one
(`MadeOf`), and that only a run with `--replace` that has checked the row goes on to
destroy (`ChosenOf`). Two lines are not the abstract specification's to decide and were
learnt from TLC: a run that fails or gets a signal between `qm create` and
`CURRENT_VMID=` loses sight of the slot in hand (`Fall`), and a run may work on a VM that somebody put in
place of its own (`Own`).

`TemplateReplacement_proofs`. `RulesSuffice`: from the rules alone follow the promises a reader
of the abstract specification expects: runs on one node take turns, what a run has
finished with is its template as long as it is at work and nobody else was there, and success
means every wanted slot. `RegisterInv` adds the types and that a slot is finished with
only once (`GivenOnce`).

`AgentBootstrap_proofs`. Each step of the composition is a step of the engine's
specification or leaves its variables alone (`EngineUnderneath`), so all of the above
holds in the composition too; two such corollaries are stated. On top:
`AgentTypeCorrect`, `BackupSoundness` and `BackupAttribution`, from `OwnBackup`: the
task waited for is the current item's, a backup is recorded before the second
listing, and unless others made backups whatever was not listed before is the
helper's own. `CompletedAreReported` and `SuccessIsOwn` follow from `EndedStays` and
`ReportOf`: the engine has ended when the helper looks, what it has looked for and found
complete is noted, or its `qm config` failed, and backups begin only with the full set of a successful engine.
`RequestsAreBounded` is the variant of the helper: at most 5n + 3 steps of its own for n items,
whatever the engine, PVE's tasks and other runs do.

`CustomerBackupTarget_proofs`. `TypeCorrect`; `RegisterRefinement` (a save's write
is the register's `Set`, an edit its `Edit`, all else stutters), under the assumption
that a marker line in the initial notes ends in a newline or comes last, which
edits preserve and without which `customer_notes` shows it false; `KnowingOverride`;
`FreshEvidence`.

`BuildRequest_proofs`. First facts about the operators: a storage the helper allows
passes the engine's checks (`HelperAllowsEngineAllows`); the recommended bridge is safe,
the default VLAN valid; in a valid catalog no selector stands for two items. The
inductive invariant adds to the types what each control state has read (`PhaseInv`),
that a plan without errors found its storages allowed and its device present as long
as the node has not moved (`PlanInv`), the same for what was chosen at the menu
(`MenuStorageInv`, `MenuBridgeInv`), and that rows and metadata come from one file
unless it was replaced twice while it was loaded (`OriginInv`). From it follow
`TypesAreCorrect`, `ReadyPlansAreAccepted`, `OffersAreAccepted`, `HostBridgesNeedUse`
and `ConfirmedRowsOnly`. That the engine works on the confirmed items (`BuiltAsConfirmed`)
needs in addition that helper and engine select alike: in a valid catalog the reference
of an item matches its row only (`ReferenceMatchesItsRow`), distinct references pick
distinct rows, so none is dropped and none moved (`AllRowsFresh`), hence `SelectionsAgree`
for every catalog and every list of selectors. `RequestInv` says that a plan which was accepted
had a valid catalog and a request the helper takes. Both theorems assume `PlainNames`: no
item is called `all`, `ovmf` or `seabios`. `load_catalog` does not ask for that; the
catalog in `catalog/` satisfies it, and so do those of the runs.

`UefiBootRepair_proofs`. An edit of the tool is a `ForeignStep` of the engine's proof, so
`IInv` is kept whatever the repairs do (`EnginesBesideRepairs`, `DestroySafetyBesideRepairs`).
The tool's own properties need what it remembers: an inspected VM is as it was read,
or mended by now, or others changed it (`RememberedOf`); what the second loop has
passed is mended (`FinishedOf`); what is about to be written was accepted
(`AcceptedOf`); and what was mended still passes `validate()` (`MendedIsValid`). From
these follow `RepairTypesCorrect`, `RepairsAreComplete`, `EditsAreInspected` and
`RepairsAreRepeatable`, for any number of repairs on any nodes.

`ImageBuild_proofs`. The inductive invariant has one part per program. `CacheInv`: on a
second attempt nothing of an earlier run is left at each step (`SecondAttempt`), a
verified image stays (`StillVerified`), a shell's temporary file is its own while PIDs
differ (`OwnPid`, `OwnDraft`). `PrepInv`: what each step of the preparation has made of
the upstream image (`Preparing`). `BootInv`: what each position of the boot check means for
QEMU, the script and the verdict (`Checking`): the script is started only where the agent
answers the calls that are asked for (`Fits`), and in a prepared image it does, unless a
list that was passed over withholds one (`PreparedAnswers`). Each part is kept by its own program
and by the steps of the others. It relies on the composition's assumptions: `Demanded`
is within `Required`, as the two programs' lists are, and every checked image is one the
same builder prepared. From it follow `BuildTypes`, `LeftoversAreHarmless`,
`SnippetsKeepTheirNames`, `ImagesArePinned`, `ReportsAreTrue`, `DisabledIsExplained` and
`NothingIsLeft`, for any number of builders, releases, requests and transfers.

Only model-checked: the liveness properties (`EveryRunEnds`, `LockIsReleased`,
`EveryRequestAnswered`, `PreparationEnds`), because fairness and ENABLED are out of the
prover's reach. For the first three the bounded number of steps and the owner of the flock
are proved, as said above; what TLC adds is that before its end a run or a helper always
has a step it may take, and takes it. And the four violations.

## 5. Limits, and what is not modelled

Met while modelling, and outside what any property claims:

- Two nodes on one storage: between the checksum and the copy another node may change
  the cached image (`disturbed`), and both write the list of checksums to one temporary
  name. docs/AGENT-VENDORING.md promises bytes that satisfy the catalog's SHA-256; that
  holds on one node, and on two while nobody else downloads.
- Two nodes with one `CACHE_DIR` write one manifest. Both runs may end with success while
  the file lists the rows of one of them, or parts of both; the templates of both stand.
  `SuccessMeansBuilt` excepts just that (`ForeignEntries`).
- Two shells on two nodes with the same PID may exchange their snippets' contents.
- A slow guest: an answer to an earlier `guest-ping` may be taken for `guest-info`, and
  the check then fails with "operations are disabled". It never passes for that reason.
- `configure-qga.py` says nothing of a list its patterns do not match. The image is then
  prepared with calls still disabled, and the boot check turns it down, rightly, with
  "operations are disabled". These are the only two reasons for that message
  (`DisabledHasCause`); no report is ever written for such an image (`ReportMeansFit`).
- An allow list with nothing in it allows everything in QEMU and only the four
  required calls once it was edited. No distribution ships one.
- `ip link show dev` accepts any device: a plan may be ready for one that is no bridge,
  and the engine then refuses it. A host address on a VLAN device above a bridge does
  not make the bridge a host bridge.
- `_template_volume` takes a `qm config` that fails for a template that does not exist: an
  item the engine has completed is then reported as failed. docs/SECURITY-AUDIT-V3.md:37
  promises that successful templates are reported per item when a later one fails.
  `CompleteAreReported` says that there is no other way to lose one (`unread`).
- `verify_template` runs after the final tags are set; a template that fails it keeps its
  tag, which means complete, not verified.
- The engine's `--only` takes the last field of a row for the aliases; that is the
  firmware. Aliases are not found, and `--only ovmf` selects the first OVMF row. Helper
  and menu pass references and VMIDs, which are found, and the usage text promises only
  those.
- `load_catalog` accepts an item called `all`, `ovmf` or `seabios`. The engine would take
  such a reference in `--only` for everything, or for the first row with that firmware. No
  shipped item has such a name (`PlainNames`).
- The menu passes no expected catalog to the engine: VMIDs chosen from one file select
  rows of the file that lies there when the engine starts.
- The sum of the minima is compared with each storage separately, also if one
  storage plays several roles.

Not modelled: the installer (a sequential download), cloud-init profiles (data), the
host's update policy (apt and systemd), what package managers, libguestfs and QEMU do
inside a guest, wording and layout of messages, JSON schemas and the syntax of names and
configuration files, disk space beyond the one comparison of the helper.

## 6. Running

```
tlc -config engine_one_node.cfg MCTemplateEngine
tlc -config engine_operator.cfg MCUefiBootRepair
tlc -config image_build.cfg MCImageBuild
tlc -config build_request.cfg MCBuildRequest
tlc -config agent_rows.cfg MCAgentBootstrap
tlc -config customer_target.cfg MCCustomerBackupTarget
tlapm TemplateEngine_proofs.tla
tlapm EngineReplacement_proofs.tla
tlapm TemplateReplacement_proofs.tla
tlapm AgentBootstrap_proofs.tla
tlapm CustomerBackupTarget_proofs.tla
tlapm BuildRequest_proofs.tla
tlapm UefiBootRepair_proofs.tla
tlapm ImageBuild_proofs.tla
```

`PROJECT.json` lists module and configuration of every run, the code behind
every definition, the mutants, the findings and the theorems.

----------------------------- MODULE BuildRequest -----------------------------
(***************************************************************************)
(* How a request to build templates reaches the engine, and what becomes   *)
(* of it when the catalog or the node changes on the way.                  *)
(*                                                                         *)
(* The Agent runs the helper twice: a plan, which it has confirmed, and    *)
(* the execution, which starts the engine.  An administrator answers the   *)
(* menu of build-cloud-templates.sh, which then runs the engine's main().  *)
(* Both end in load_template_catalog, select_templates and preflight.      *)
(* A catalog file stands for its own revision and SHA-256; what PVE says   *)
(* of the node is one of several states, read anew by every step.          *)
(* VMIDs in use are AgentBootstrap's and TemplateEngine's.                 *)
(***************************************************************************)
EXTENDS TemplateCatalog, StorageRoles, BridgeChoice

CONSTANTS
  Ids,        \* IDs of storages and names of network devices
  Files,      \* possible contents of the catalog file
  Catalog,    \* Catalog[f]: the items in f
  Pves,       \* possible states of the node
  Storage,    \* Storage[p]: the storages of p, by ID
  Network,    \* Network[p]: the bridges of p
  Links,      \* Links[p]: every network device of p
  Requests,   \* what an Agent asks for
  Vlans,      \* VLANs an administrator types
  None,
  MaxSwaps,   \* bound on the replacements of the catalog file
  MaxMoves    \* bound on the changes of the node

\* A request: selectors, three storages, a bridge and a VLAN (0: no tag).
IsRequest(r) ==
  r \in [items : {r.items}, image : Ids \cup {None}, template : Ids \cup {None},
         backup : Ids \cup {None}, bridge : Ids \cup {None}, vlan : 0..MaxVlan]

\* The helper passes no VLAN to the engine; the selectors of a request are a
\* list, and so are the items of a catalog.
ASSUME BuildRequestAssumption ==
  /\ None \notin Files
  /\ \A f \in Files : Catalog[f] \in Seq(Range(Catalog[f]))
  /\ \A p \in Pves : /\ DOMAIN Storage[p] \subseteq Ids
                     /\ DOMAIN Network[p].bridge \subseteq Ids \cap Links[p]
  /\ \A r \in Requests : IsRequest(r) /\ r.vlan = 0 /\ r.items \in Seq(STRING)
  /\ MaxSwaps \in Nat /\ MaxMoves \in Nat

VARIABLES
  file,       \* the catalog file in the repository directory
  pve,        \* the node as PVE sees it
  swaps,      \* replacements of the file
  moves,      \* changes of the node
  way,        \* "agent" or "menu"
  phase,      \* the run: "plan", "execute", "menu", "build" (the engine)
  pc,         \* where the run is
  ask,        \* the request: items, storages, bridge and VLAN
  expected,   \* the file of the confirmed plan, or None
  loaded,     \* the file the helper loaded, or None
  blocked,    \* the plan has errors
  listed,     \* the node when its storages were discovered
  surveyed,   \* the node when its bridges were discovered
  metadata,   \* load_template_catalog: the file before the rows
  rowsOf,     \* load_template_catalog: the file the rows are from
  selected,   \* SELECTED_ROWS
  \* history variables, read by no action
  swapsThen,  \* swaps when the engine began to load the catalog
  moved,      \* what changed on the node after it was discovered
  enter,      \* the bridge is the one Enter stands for
  used        \* the administrator answered USE for this bridge

world    == <<file, pve, swaps, moves>>
helper   == <<expected, loaded, blocked>>
survey   == <<listed, surveyed>>
engine   == <<metadata, rowsOf, selected>>
choosing == <<enter, used>>
vars == <<world, way, phase, pc, ask, helper, survey, engine, swapsThen, moved, choosing>>

Step(from, to) == pc = from /\ pc' = to

\* Whoever is asked may leave; no run goes on from these.
Final == {"begun", "refused", "unknown", "rejected"}

NoAnswers == [items |-> All, image |-> None, template |-> None, backup |-> None,
              bridge |-> None, vlan |-> 0]

Init ==
  /\ file \in Files /\ pve \in Pves
  /\ swaps = 0 /\ moves = 0
  /\ \/ way = "agent" /\ phase = "plan" /\ pc = "load" /\ ask \in Requests
     \/ way = "menu" /\ phase = "menu" /\ pc = "meta" /\ ask = NoAnswers
  /\ expected = None /\ loaded = None /\ blocked = FALSE
  /\ listed = None /\ surveyed = None
  /\ metadata = None /\ rowsOf = None /\ selected = <<>>
  /\ swapsThen = 0 /\ moved = {} /\ enter = FALSE /\ used = FALSE

-----------------------------------------------------------------------------
\* The repository directory is updated; somebody configures the node.
SwapCatalog ==
  /\ pc \notin Final
  /\ swaps < MaxSwaps
  /\ file' \in Files \ {file}
  /\ swaps' = swaps + 1
  /\ UNCHANGED <<pve, moves, way, phase, pc, ask, helper, survey, engine, swapsThen,
                 moved, choosing>>

MoveNode ==
  /\ pc \notin Final
  /\ moves < MaxMoves
  /\ pve' \in Pves \ {pve}
  /\ moves' = moves + 1
  /\ moved' = {"storages", "bridges"}
  /\ UNCHANGED <<file, swaps, way, phase, pc, ask, helper, survey, engine, swapsThen,
                 choosing>>

-----------------------------------------------------------------------------
(* The helper: main() and prepare_plan(), once to plan and once to execute. *)

\* Bug: an execution that does not compare the catalog with the plan's.
SameCatalogUnchecked == TRUE

\* build_request(): CATALOG_DRIFT otherwise.
SameCatalog == phase = "execute" => file = expected

Loadable == ValidCatalog(Catalog[file]) /\ HelperAccepts(Catalog[file], ask.items)
                                        /\ SameCatalog

Load ==
  /\ Step("load", "storages")
  /\ Loadable
  /\ loaded' = file
  /\ blocked' = FALSE
  /\ UNCHANGED <<world, way, phase, ask, expected, survey, engine, swapsThen, moved, choosing>>

RefuseLoad ==
  /\ Step("load", "refused")
  /\ ~Loadable
  /\ UNCHANGED <<world, way, phase, ask, helper, survey, engine, swapsThen, moved, choosing>>

MayPlay(p, id, role) == id \in DOMAIN Storage[p] /\ Allowed(Storage[p][id], role)

Total(items) == MapThenSumSet(LAMBDA k : items[k].bytes, DOMAIN items)

\* The storage for a role is there, fit, and large enough.
Fit(id, role) ==
  /\ MayPlay(pve, id, role)
  /\ HasRoom(Storage[pve][id], Total(HelperSelect(Catalog[loaded], ask.items)))

\* discover_storages() and the checks of every role; errors are collected.
PlanStorages ==
  /\ Step("storages", IF MayPlay(pve, ask.image, "image") THEN "cache" ELSE "link")
  /\ listed' = pve
  /\ moved' = moved \ {"storages"}
  /\ blocked' = ~ /\ Fit(ask.image, "image")
                  /\ Fit(ask.template, "template")
                  /\ ask.backup # None => Fit(ask.backup, "backup")
  /\ UNCHANGED <<world, way, phase, ask, expected, loaded, surveyed, engine, swapsThen, choosing>>

\* _resolve_image_cache().
PlanCache ==
  /\ Step("cache", "link")
  /\ blocked' = (blocked \/ ask.image \notin DOMAIN Storage[pve]
                         \/ ~SafePaths(Storage[pve][ask.image]))
  /\ UNCHANGED <<world, way, phase, ask, expected, loaded, survey, engine, swapsThen,
                 moved, choosing>>

\* ip link show dev: any device of that name will do.
PlanLink ==
  /\ Step("link", "planned")
  /\ blocked' = (blocked \/ ask.bridge \notin Links[pve])
  /\ surveyed' = pve
  /\ moved' = moved \ {"bridges"}
  /\ UNCHANGED <<world, way, phase, ask, expected, loaded, listed, engine, swapsThen, choosing>>

\* The plan is printed; the Agent shows it and is told to go on.
Confirm ==
  /\ phase = "plan"
  /\ Step("planned", "load")
  /\ ~blocked
  /\ phase' = "execute"
  /\ expected' = loaded
  /\ UNCHANGED <<world, way, ask, loaded, blocked, survey, engine, swapsThen, moved, choosing>>

\* execute_plan() starts the engine with the command of the plan.
StartEngine ==
  /\ phase = "execute"
  /\ Step("planned", "meta")
  /\ ~blocked
  /\ phase' = "build"
  /\ UNCHANGED <<world, way, ask, helper, survey, engine, swapsThen, moved, choosing>>

RefusePlan ==
  /\ Step("planned", "refused")
  /\ blocked
  /\ UNCHANGED <<world, way, phase, ask, helper, survey, engine, swapsThen, moved, choosing>>

-----------------------------------------------------------------------------
(* load_template_catalog() of the engine, which the menu calls as well.     *)

Metadata ==
  /\ Step("meta", "rows")
  /\ ValidCatalog(Catalog[file])
  /\ metadata' = file
  /\ swapsThen' = swaps
  /\ UNCHANGED <<world, way, phase, ask, helper, survey, rowsOf, selected, moved, choosing>>

CatalogRows ==
  /\ Step("rows", "again")
  /\ ValidCatalog(Catalog[file])
  /\ rowsOf' = file
  /\ UNCHANGED <<world, way, phase, ask, helper, survey, metadata, selected, swapsThen,
                 moved, choosing>>

\* Bug: the engine does not compare the catalog with the one of the plan.
SettledUnconfirmed == ValidCatalog(Catalog[file]) /\ file = metadata

\* The metadata read once more is the same, and the one of the plan if the
\* engine was given one (the menu gives none).
Settled ==
  /\ ValidCatalog(Catalog[file])
  /\ file = metadata
  /\ phase = "build" /\ loaded # None => file = loaded

MetadataAgain ==
  /\ Step("again", IF phase = "menu" THEN "templates" ELSE "select")
  /\ Settled
  /\ UNCHANGED <<world, way, phase, ask, helper, survey, engine, swapsThen, moved, choosing>>

RefuseCatalog ==
  /\ \/ Step("meta", "refused") /\ ~ValidCatalog(Catalog[file])
     \/ Step("rows", "refused") /\ ~ValidCatalog(Catalog[file])
     \/ Step("again", "refused") /\ ~Settled
  /\ UNCHANGED <<world, way, phase, ask, helper, survey, engine, swapsThen, moved, choosing>>

-----------------------------------------------------------------------------
(* The menu.  An answer it does not understand is asked for again.          *)

\* choose_templates(): VMIDs of the rows shown, each once, or ALL.
ChooseTemplates ==
  /\ Step("templates", "discover")
  /\ \/ ask' = [ask EXCEPT !.items = All]
     \/ \E T \in SUBSET {row.vmid : row \in Range(Rows(Catalog[rowsOf]))} :
          T # {} /\ \E tokens \in SetToSeqs(T) : ask' = [ask EXCEPT !.items = tokens]
  /\ UNCHANGED <<world, way, phase, helper, survey, engine, swapsThen, moved, choosing>>

DiscoverStorages ==
  /\ Step("discover", "image")
  /\ listed' = pve
  /\ moved' = moved \ {"storages"}
  /\ UNCHANGED <<world, way, phase, ask, helper, surveyed, engine, swapsThen, choosing>>

\* choose_storage(), for the role the menu is at.
ChooseStorage ==
  /\ pc \in {"image", "template"}
  /\ \E id \in DOMAIN Storage[listed] :
       \/ /\ Step("image", "template")
          /\ MayPlay(listed, id, "image")
          /\ ask' = [ask EXCEPT !.image = id]
       \/ /\ Step("template", "survey")
          /\ MayPlay(listed, id, "template")
          /\ ask' = [ask EXCEPT !.template = id]
  /\ UNCHANGED <<world, way, phase, helper, survey, engine, swapsThen, moved, choosing>>

\* choose_network(): discover and menu.
SurveyBridges ==
  /\ Step("survey", "bridge")
  /\ Readable(Network[pve])
  /\ \E name \in DOMAIN Network[pve].bridge : Network[pve].bridge[name].active
  /\ surveyed' = pve
  /\ moved' = moved \ {"bridges"}
  /\ UNCHANGED <<world, way, phase, ask, helper, listed, engine, swapsThen, choosing>>

\* What follows once the bridge is settled.
AfterBridge(name) == IF Network[surveyed].bridge[name].aware THEN "vlan" ELSE "summary"

\* Bug: the number of a bridge that is down is taken.
PickDown(name) == TRUE

\* select: Enter for the recommendation, or the number of an active bridge.
Pick(name) == ValidBridge(Network[surveyed], name)

ChooseBridge ==
  /\ pc = "bridge"
  /\ \E name \in DOMAIN Network[surveyed].bridge, quick \in BOOLEAN :
       /\ Step("bridge", IF Management(Network[surveyed], name)
                         THEN "use" ELSE AfterBridge(name))
       /\ quick => Recommended(Network[surveyed], name)
       /\ Pick(name)
       /\ ask' = [ask EXCEPT !.bridge = name, !.vlan = 0]
       /\ enter' = quick
  /\ used' = FALSE
  /\ UNCHANGED <<world, way, phase, helper, survey, engine, swapsThen, moved>>

\* A bridge with a host address or default route takes the word USE; any
\* other answer leads back to the list.
AnswerUse ==
  /\ \/ Step("use", AfterBridge(ask.bridge)) /\ used' = TRUE
     \/ Step("use", "bridge") /\ UNCHANGED used
  /\ UNCHANGED <<world, way, phase, ask, helper, survey, engine, swapsThen, moved, enter>>

\* The VLAN is checked against the bridges as they are now.
ChooseVlan ==
  /\ Step("vlan", "summary")
  /\ \E vlan \in Vlans \cup {DefaultVlan(Network[surveyed], ask.bridge)} :
       /\ ValidChoice(Network[pve], ask.bridge, vlan)
       /\ ask' = [ask EXCEPT !.vlan = vlan]
  /\ UNCHANGED <<world, way, phase, helper, survey, engine, swapsThen, moved, choosing>>

\* confirm_install().
ConfirmInstall ==
  /\ Step("summary", "revalidate")
  /\ UNCHANGED <<world, way, phase, ask, helper, survey, engine, swapsThen, moved, choosing>>

\* run_template_build(): the network is read once more, then main() starts.
Revalidate ==
  /\ Step("revalidate", IF ValidChoice(Network[pve], ask.bridge, ask.vlan)
                        THEN "meta" ELSE "rejected")
  /\ phase' = IF ValidChoice(Network[pve], ask.bridge, ask.vlan) THEN "build" ELSE phase
  /\ UNCHANGED <<world, way, ask, helper, survey, engine, swapsThen, moved, choosing>>

\* The end of the input, a no, or nothing to choose from.
Leave ==
  /\ \/ \E from \in {"templates", "image", "template", "bridge", "use", "vlan", "summary"} :
          Step(from, "refused")
     \/ /\ Step("survey", "refused")
        /\ ~ /\ Readable(Network[pve])
             /\ \E name \in DOMAIN Network[pve].bridge : Network[pve].bridge[name].active
  /\ UNCHANGED <<world, way, phase, ask, helper, survey, engine, swapsThen, moved, choosing>>

-----------------------------------------------------------------------------
(* The engine: select_templates(), preflight() and the paths of main().     *)

\* --only: the helper passes the references of the plan's items.
Only ==
  IF way = "menu" THEN ask.items
  ELSE LET items == HelperSelect(Catalog[loaded], ask.items) IN
       [k \in DOMAIN items |-> items[k].ref]

SelectTemplates ==
  /\ Step("select", "storage")
  /\ EngineKnows(Rows(Catalog[rowsOf]), Only)
  /\ selected' = EngineSelect(Rows(Catalog[rowsOf]), Only)
  /\ UNCHANGED <<world, way, phase, ask, helper, survey, metadata, rowsOf, swapsThen,
                 moved, choosing>>

UnknownTemplate ==
  /\ Step("select", "unknown")
  /\ ~EngineKnows(Rows(Catalog[rowsOf]), Only)
  /\ UNCHANGED <<world, way, phase, ask, helper, survey, engine, swapsThen, moved, choosing>>

\* Bug: the two storages of builder_argv are passed the other way round.
TakesSwapped(role) ==
  LET id == IF role = "image" THEN ask.template ELSE ask.image IN
  id \in DOMAIN Storage[pve] /\ EngineAllows(Storage[pve][id], role)

\* IMAGE_STORAGE of the engine is the template storage of the request.
Takes(role) ==
  LET id == IF role = "image" THEN ask.image ELSE ask.template IN
  id \in DOMAIN Storage[pve] /\ EngineAllows(Storage[pve][id], role)

FindsPaths == ask.image \in DOMAIN Storage[pve] /\ EngineFindsPaths(Storage[pve][ask.image])

\* One check of preflight() or main(): it holds, or the engine dies.
Check(from, to, holds) == Step(from, IF holds THEN to ELSE "rejected")

Preflight ==
  /\ \/ Check("storage", "net", Takes("template") /\ Takes("image"))
     \/ Check("net", "paths", ValidChoice(Network[pve], ask.bridge, ask.vlan))
     \/ Check("paths", "begun", FindsPaths)
  /\ UNCHANGED <<world, way, phase, ask, helper, survey, engine, swapsThen, moved, choosing>>

Next ==
  \/ SwapCatalog \/ MoveNode
  \/ Load \/ RefuseLoad \/ PlanStorages \/ PlanCache \/ PlanLink
  \/ Confirm \/ StartEngine \/ RefusePlan
  \/ Metadata \/ CatalogRows \/ MetadataAgain \/ RefuseCatalog
  \/ ChooseTemplates \/ DiscoverStorages \/ ChooseStorage
  \/ SurveyBridges \/ ChooseBridge \/ AnswerUse \/ ChooseVlan
  \/ ConfirmInstall \/ Revalidate \/ Leave
  \/ SelectTemplates \/ UnknownTemplate \/ Preflight

Spec == Init /\ [][Next]_vars

-----------------------------------------------------------------------------
\* Control states once the templates are selected.
Selected == {"storage", "net", "paths", "begun"}

\* Every variable holds what its comment says, and the engine of a confirmed
\* plan is started with the catalog of that plan: a catalog that changed
\* after the confirmation ends the execution with CATALOG_DRIFT.
BuildRequestTypeOK ==
  /\ file \in Files /\ pve \in Pves
  /\ swaps \in 0..MaxSwaps /\ moves \in 0..MaxMoves /\ swapsThen \in 0..swaps
  /\ way \in {"agent", "menu"}
  /\ phase \in {"menu", "build"} \cup IF way = "agent" THEN {"plan", "execute"} ELSE {}
  /\ expected \in Files \cup {None} /\ loaded \in Files \cup {None}
  /\ blocked \in BOOLEAN /\ enter \in BOOLEAN /\ used \in BOOLEAN
  /\ listed \in Pves \cup {None} /\ surveyed \in Pves \cup {None}
  /\ metadata \in Files \cup {None} /\ rowsOf \in Files \cup {None}
  /\ moved \subseteq {"storages", "bridges"}
  /\ IsRequest(ask)
  /\ way = "agent" /\ phase = "build" => loaded = expected /\ loaded # None

\* AGENT-VENDORING: what is built is what was confirmed.  The engine of a
\* confirmed plan works on exactly the items of that plan, in their order,
\* although catalog, selectors and rows are read four more times after the
\* confirmation.  Exception: the file replaced and put back between the
\* three reads of load_template_catalog.
BuiltIsConfirmed ==
  way = "agent" /\ pc \in Selected \cup {"unknown"} /\ swaps < swapsThen + 2 =>
    /\ pc # "unknown"
    /\ selected = Rows(HelperSelect(Catalog[expected], ask.items))

\* The helper's checks of storages and bridge suffice for the engine's: a
\* plan that was ready is turned down by preflight or main only if the node
\* changed since, or the device asked for is not an active bridge of a network
\* that template-network.py can read.
ReadyIsAccepted ==
  way = "agent" /\ pc = "rejected" =>
    moved # {} \/ ~ValidBridge(Network[pve], ask.bridge)

\* Whatever the menu offers and takes is accepted later, unless the node
\* changed after it was discovered.
OfferIsAccepted == way = "menu" /\ pc = "rejected" => moved # {}

\* INTERACTIVE-INSTALL, step 4: a bridge with a host address or a default
\* route is used only after the word USE, and Enter never stands for one.  Only
\* a change of the node after the list was read makes an exception.
HostBridgeNeedsUse ==
  way = "menu" /\ phase = "build" /\ "bridges" \notin moved =>
    LET b == Network[pve].bridge[ask.bridge] IN
      b.address = "host" \/ b.gateway \/ ask.bridge \in Network[pve].routes
        => used /\ ~enter

=============================================================================

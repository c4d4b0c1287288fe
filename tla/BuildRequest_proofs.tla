------------------------- MODULE BuildRequest_proofs -------------------------
(***************************************************************************)
(* Proofs about BuildRequest and the operators it is built from, for every *)
(* catalog, every node and any number of changes of both.                  *)
(***************************************************************************)
EXTENDS BuildRequest, FiniteSetTheorems, TLAPS

-----------------------------------------------------------------------------
(* Storages.                                                               *)

\* What the helper allows for a role the engine allows as well, and it finds
\* the directories of an image storage.
THEOREM HelperAllowsEngineAllows ==
  ASSUME NEW s, NEW role \in StorageRoleNames, Allowed(s, role)
  PROVE  EngineAllows(s, role) /\ (role = "image" => EngineFindsPaths(s))
<1>1. CASE role = "image"
  BY <1>1 DEF Allowed, EngineAllows, SafePaths, EngineFindsPaths
<1>2. CASE role # "image"
  BY <1>2 DEF Allowed, EngineAllows
<1> QED
  BY <1>1, <1>2

\* The command offered for a storage that lacks content types takes none of
\* the types it has, and makes it an image storage if its paths are safe.
THEOREM RemedyHelps ==
  ASSUME NEW s, s = [f \in DOMAIN s |-> s[f]],
         {"disable", "status", "content", "files", "path"} \subseteq DOMAIN s,
         Remediable(s)
  PROVE  /\ s.content \subseteq Remedied(s).content
         /\ SafePaths(s) => Allowed(Remedied(s), "image")
<1>1. /\ Remedied(s).content = s.content \cup Demands("image")
      /\ Remedied(s).path = s.path
      /\ Remedied(s).disable = s.disable /\ Remedied(s).status = s.status
  BY DEF Remedied
<1>2. SafePaths(s) => SafePaths(Remedied(s))
  BY <1>1 DEF SafePaths
<1> QED
  BY <1>1, <1>2 DEF Remediable, Allowed, StorageEnabled, StorageActive

-----------------------------------------------------------------------------
(* Bridges.                                                                *)

\* The bridge Enter stands for is active, has ports, no host address and no
\* default route, and there is no other such bridge.
THEOREM RecommendedIsSafe ==
  ASSUME NEW net, NEW name, Readable(net), Recommended(net, name)
  PROVE  /\ ValidBridge(net, name)
         /\ ~Management(net, name)
         /\ \A other : Recommended(net, other) => other = name
  BY DEF Recommended, Candidates, ValidBridge

\* The VLAN offered for a bridge is accepted for it, as is no tag at all.
THEOREM DefaultVlanIsValid ==
  ASSUME NEW net, NEW name \in DOMAIN net.bridge, Readable(net),
         net.bridge[name].vids \in Seq(Int \X Int)
  PROVE  ValidVlan(net, name, DefaultVlan(net, name)) /\ ValidVlan(net, name, 0)
<1> DEFINE ranges == AllowedVlans(net.bridge[name])
<1>1. CASE Len(ranges) = 1 /\ ranges[1][1] = ranges[1][2]
  <2>1. ranges \in Seq(Int \X Int)
    BY DEF AllowedVlans, MaxVlan
  <2>2. 1 \in DOMAIN ranges
    BY <1>1, <2>1
  <2>3. ranges[1][1] \in Int /\ ranges[1][2] \in Int
    BY <2>1, <2>2
  <2>4. net.bridge[name].aware
    BY <1>1 DEF AllowedVlans
  <2>5. GoodRange(ranges[1])
    BY <2>2 DEF Readable
  <2>6. DefaultVlan(net, name) = ranges[1][1]
    BY <1>1 DEF DefaultVlan
  <2>7. 1 <= ranges[1][1] /\ ranges[1][1] <= MaxVlan
    <3> HIDE DEF ranges
    <3> QED
      BY <2>3, <2>5, <1>1 DEF GoodRange, MaxVlan
  <2>8. ranges[1][1] <= ranges[1][1] /\ ranges[1][1] <= ranges[1][2]
    <3> HIDE DEF ranges
    <3> QED
      BY <2>3, <1>1
  <2> HIDE DEF ranges
  <2>9. \E k \in DOMAIN ranges : ranges[k][1] <= ranges[1][1] /\ ranges[1][1] <= ranges[k][2]
    BY <2>2, <2>8, Zenon
  <2>10. ranges[1][1] \in 1..MaxVlan
    <3>1. \A v \in Int : 1 <= v /\ v <= MaxVlan => v \in 1..MaxVlan
      BY DEF MaxVlan
    <3> QED
      BY <2>3, <2>7, <3>1, Zenon
  <2> QED
    BY <2>4, <2>6, <2>9, <2>10 DEF ValidVlan, ranges
<1>2. CASE ~(Len(ranges) = 1 /\ ranges[1][1] = ranges[1][2])
  <2>1. DefaultVlan(net, name) = 0
    BY <1>2 DEF DefaultVlan
  <2> QED
    BY <2>1 DEF ValidVlan
<1> QED
  BY <1>1, <1>2

-----------------------------------------------------------------------------
(* Selectors.                                                              *)

\* In a valid catalog no token stands for two items: that the last entry of
\* the table of select_items() stays is never seen.
THEOREM TokenIsUnambiguous ==
  ASSUME NEW items, ValidCatalog(items), NEW token,
         NEW i \in Known(items, token), NEW j \in Known(items, token)
  PROVE  i = j
  BY DEF ValidCatalog, Known, Names, Selectors

\* The reference the helper passes for an item of a valid catalog matches
\* the row of that item only, if no item is called like a firmware.
THEOREM ReferenceMatchesItsRow ==
  ASSUME NEW items, ValidCatalog(items), NEW i \in DOMAIN items,
         \A j \in DOMAIN items : items[j].firmware # items[i].ref
  PROVE  Matching(Rows(items), items[i].ref) = {i}
<1>1. DOMAIN Rows(items) = DOMAIN items
  BY DEF Rows
<1>2. ASSUME NEW j \in DOMAIN items
      PROVE  Matches(Rows(items)[j], items[i].ref) <=> j = i
  BY <1>2 DEF Rows, Row, Matches, ValidCatalog, Selectors
<1> QED
  BY <1>1, <1>2 DEF Matching

\* A number is the least and the greatest of a set of one.
LEMMA OnlyOne == \A n \in Nat : Min({n}) = n /\ Max({n}) = n
  BY DEF Min, Max

\* No item is called like a firmware, which the engine takes for an alias, or
\* like the word for everything.  load_catalog does not ask for it; it is so
\* in the catalog that is shipped.
PlainNames(items) == \A i \in DOMAIN items : items[i].ref \notin Firmwares \cup Range(All)

\* The reference of an item with a plain name matches the row of that item.
LEMMA PlainReference ==
  ASSUME NEW items, ValidCatalog(items), PlainNames(items), NEW i \in DOMAIN items
  PROVE  Matching(Rows(items), items[i].ref) = {i}
<1>1. \A j \in DOMAIN items : items[j].firmware # items[i].ref
  BY DEF ValidCatalog, PlainNames
<1> QED
  BY <1>1, ReferenceMatchesItsRow

\* If every token stands for another row, no row is left out and none moved.
LEMMA AllRowsFresh ==
  ASSUME NEW rows, NEW tokens, tokens # All,
         NEW n \in Nat, DOMAIN tokens = 1..n,
         \A j, k \in 1..n : j # k => FirstRows(rows, tokens)[j] # FirstRows(rows, tokens)[k]
  PROVE  EngineSelect(rows, tokens) = FirstRows(rows, tokens)
<1> DEFINE picks == FirstRows(rows, tokens)
           fresh == {k \in DOMAIN tokens : \A j \in 1..k - 1 : picks[j] # picks[k]}
           place(k) == Cardinality(fresh \cap 1..k)
           nth(m) == CHOOSE k \in fresh : place(k) = m
<1>1. fresh = 1..n
  <2>1. ASSUME NEW k \in 1..n, NEW j \in 1..k - 1
        PROVE  j \in 1..n /\ j # k
    OBVIOUS
  <2> QED
    BY <2>1
<1>2. ASSUME NEW k \in 1..n
      PROVE  place(k) = k
  <2>1. fresh \cap 1..k = 1..k
    BY <1>1
  <2>2. Cardinality(1..k) = k
    BY FS_Interval
  <2> QED
    BY <2>1, <2>2
<1>3. Cardinality(fresh) = n
  <2>1. Cardinality(1..n) = n
    BY FS_Interval
  <2> HIDE DEF fresh
  <2> QED
    BY <1>1, <2>1
<1>4. ASSUME NEW m \in 1..n
      PROVE  nth(m) = m
  <2> HIDE DEF place, fresh
  <2> QED
    BY <1>1, <1>2
<1>5. EngineSelect(rows, tokens) = [m \in 1..Cardinality(fresh) |-> picks[nth(m)]]
  BY DEF EngineSelect
<1>6. picks = [m \in 1..n |-> picks[m]]
  BY DEF FirstRows
<1> HIDE DEF picks, fresh, nth
<1>7. EngineSelect(rows, tokens) = [m \in 1..n |-> picks[m]]
  BY <1>3, <1>4, <1>5
<1> QED
  BY <1>6, <1>7 DEF picks

\* The helper selects n items of the catalog, no item twice.
Picks(items, tokens, n, at) ==
  /\ HelperSelect(items, tokens) = [k \in 1..n |-> items[at[k]]]
  /\ \A j, k \in 1..n : j # k => at[j] # at[k]

LEMMA HelperSelects ==
  ASSUME NEW items, items \in Seq(Range(items)), ValidCatalog(items),
         NEW tokens \in Seq(STRING), HelperAccepts(items, tokens)
  PROVE  \E n \in Nat : \E at \in [1..n -> DOMAIN items] : Picks(items, tokens, n, at)
<1>1. CASE tokens = All
  <2>1. Len(items) \in Nat /\ DOMAIN items = 1..Len(items)
    OBVIOUS
  <2>2. items = [k \in 1..Len(items) |-> items[[i \in 1..Len(items) |-> i][k]]]
    BY <2>1
  <2> WITNESS Len(items) \in Nat
  <2> WITNESS [i \in 1..Len(items) |-> i] \in [1..Len(items) -> DOMAIN items]
  <2> QED
    BY <1>1, <2>1, <2>2 DEF HelperSelect, Picks
<1>2. CASE tokens # All
  <2>1. Len(tokens) \in Nat /\ DOMAIN tokens = 1..Len(tokens)
    OBVIOUS
  <2> DEFINE at == [k \in 1..Len(tokens) |-> Max(Known(items, tokens[k]))]
  <2>2. ASSUME NEW k \in 1..Len(tokens)
        PROVE  at[k] \in DOMAIN items
    <3>1. PICK i \in DOMAIN items : i \in Known(items, tokens[k])
      BY <1>2, <2>1 DEF HelperAccepts, Known
    <3>2. Known(items, tokens[k]) = {i}
      BY <3>1, TokenIsUnambiguous
    <3>3. i \in Nat
      OBVIOUS
    <3> QED
      BY <3>1, <3>2, <3>3, OnlyOne
  <2>3. HelperSelect(items, tokens) = [k \in 1..Len(tokens) |-> items[at[k]]]
    BY <1>2, <2>1 DEF HelperSelect, Lookup
  <2>4. \A j, k \in 1..Len(tokens) : j # k => at[j] # at[k]
    BY <1>2, <2>1 DEF HelperAccepts, Lookup
  <2>5. at \in [1..Len(tokens) -> DOMAIN items]
    BY <2>2
  <2> HIDE DEF at
  <2>6. Picks(items, tokens, Len(tokens), at)
    BY <2>3, <2>4 DEF Picks
  <2> QED
    BY <2>1, <2>5, <2>6
<1> QED
  BY <1>1, <1>2

\* The engine, given the references of what the helper selected, finds them
\* all and selects just these items in the same order.
THEOREM SelectionsAgree ==
  ASSUME NEW items, items \in Seq(Range(items)), ValidCatalog(items), PlainNames(items),
         NEW tokens \in Seq(STRING), HelperAccepts(items, tokens),
         NEW refs, refs = [k \in DOMAIN HelperSelect(items, tokens) |->
                             HelperSelect(items, tokens)[k].ref]
  PROVE  /\ EngineKnows(Rows(items), refs)
         /\ EngineSelect(Rows(items), refs) = Rows(HelperSelect(items, tokens))
<1>1. PICK n \in Nat : \E at \in [1..n -> DOMAIN items] : Picks(items, tokens, n, at)
  BY HelperSelects
<1>2. PICK at \in [1..n -> DOMAIN items] : Picks(items, tokens, n, at)
  BY <1>1
<1>3. refs = [k \in 1..n |-> items[at[k]].ref]
  BY <1>2 DEF Picks
<1>4. ASSUME NEW k \in 1..n
      PROVE  Matching(Rows(items), refs[k]) = {at[k]}
  <2>1. at[k] \in DOMAIN items /\ refs[k] = items[at[k]].ref
    BY <1>3
  <2> QED
    BY <2>1, PlainReference
<1>5. refs # All
  <2>1. SUFFICES ASSUME refs = All PROVE FALSE
    OBVIOUS
  <2>2. 1 \in DOMAIN All /\ All[1] \in Range(All)
    BY DEF All, Range
  <2>3. 1 \in 1..n /\ refs[1] = items[at[1]].ref
    BY <1>3, <2>1, <2>2
  <2> QED
    BY <2>1, <2>2, <2>3 DEF PlainNames
<1>6. FirstRows(Rows(items), refs) = [k \in 1..n |-> Row(items[at[k]])]
  <2>1. ASSUME NEW k \in 1..n
        PROVE  Rows(items)[Min(Matching(Rows(items), refs[k]))] = Row(items[at[k]])
    <3>1. at[k] \in DOMAIN items /\ at[k] \in Nat
      OBVIOUS
    <3>2. Min(Matching(Rows(items), refs[k])) = at[k]
      BY <1>4, <3>1, OnlyOne
    <3> QED
      BY <3>1, <3>2 DEF Rows
  <2>2. DOMAIN refs = 1..n
    BY <1>3
  <2> QED
    BY <2>1, <2>2 DEF FirstRows
<1>7. Rows(HelperSelect(items, tokens)) = [k \in 1..n |-> Row(items[at[k]])]
  BY <1>2 DEF Rows, Picks
<1>8. ASSUME NEW j \in 1..n, NEW k \in 1..n, j # k
      PROVE  FirstRows(Rows(items), refs)[j] # FirstRows(Rows(items), refs)[k]
  <2>1. items[at[j]].vmid # items[at[k]].vmid
    BY <1>2, <1>8 DEF ValidCatalog, Picks
  <2>2. \A i \in DOMAIN items : Row(items[i]).vmid = items[i].vmid
    BY DEF Row
  <2> QED
    BY <1>6, <2>1, <2>2, SMTT(30)
<1>9. EngineSelect(Rows(items), refs) = FirstRows(Rows(items), refs)
  <2>1. DOMAIN refs = 1..n
    BY <1>3
  <2> QED
    BY <1>5, <1>8, <2>1, AllRowsFresh
<1>10. EngineKnows(Rows(items), refs)
  BY <1>3, <1>4 DEF EngineKnows
<1> QED
  BY <1>6, <1>7, <1>9, <1>10

-----------------------------------------------------------------------------
(* The inductive invariant.                                                *)

HelperPcs == {"load", "storages", "cache", "link", "planned", "refused"}
LoaderPcs == {"meta", "rows", "again", "refused"}
MenuPcs   == LoaderPcs \cup {"templates", "discover", "image", "template", "survey", "bridge",
                             "use", "vlan", "summary", "revalidate", "rejected"}
EnginePcs == LoaderPcs \cup {"select", "unknown", "rejected"} \cup Selected

\* Which program runs, and with which catalog.
PhaseInv ==
  /\ phase \in {"plan", "execute"} => pc \in HelperPcs
  /\ phase = "menu" => pc \in MenuPcs
  /\ phase = "build" => pc \in EnginePcs
  /\ way = "agent" => phase # "menu" /\ ask.vlan = 0
  /\ way = "menu" => loaded = None
  /\ phase = "execute" => expected \in Files
  /\ way = "agent" /\ pc \in {"storages", "cache", "link", "planned"} =>
       loaded \in Files /\ (phase = "execute" => loaded = expected)
  /\ phase = "build" /\ pc \in {"rows", "again", "select"} => metadata \in Files

\* What a plan without errors says of the storages.
PlanInv ==
  way = "agent" =>
    /\ phase = "build" => ~blocked
    /\ /\ ~blocked /\ "storages" \notin moved
       /\ phase = "build" \/ pc \in {"cache", "link", "planned"}
       => MayPlay(pve, ask.image, "image") /\ MayPlay(pve, ask.template, "template")

\* The menu is past a choice.
BridgeChosen  == phase = "build" \/ pc \in {"use", "vlan", "summary", "revalidate", "rejected"}
StorageChosen == BridgeChosen \/ pc \in {"survey", "bridge"}

\* What the menu has been told of the storages it takes ...
MenuStorageInv ==
  way = "menu" =>
    /\ pc \in {"image", "template"} \/ StorageChosen =>
         listed \in Pves /\ ("storages" \notin moved => listed = pve)
    /\ pc = "template" \/ StorageChosen => MayPlay(listed, ask.image, "image")
    /\ StorageChosen => MayPlay(listed, ask.template, "template")

\* ... and of the bridge.
MenuBridgeInv ==
  way = "menu" =>
    /\ pc = "bridge" \/ BridgeChosen =>
         surveyed \in Pves /\ ("bridges" \notin moved => surveyed = pve)
    /\ BridgeChosen => /\ ValidBridge(Network[surveyed], ask.bridge)
                       /\ enter => Recommended(Network[surveyed], ask.bridge)
                       /\ pc = "use" \/ used \/ ~Management(Network[surveyed], ask.bridge)
    /\ pc \in {"use", "vlan"} => ask.vlan = 0
    /\ /\ "bridges" \notin moved
       /\ phase = "build" \/ pc \in {"summary", "revalidate"}
       => ValidChoice(Network[pve], ask.bridge, ask.vlan)

\* Where the rows come from, and how often the file was replaced meanwhile.
OriginInv ==
  phase = "build" =>
    /\ pc = "rows" /\ file # metadata => swaps >= swapsThen + 1
    /\ pc = "again" /\ rowsOf # metadata =>
         /\ swaps >= swapsThen + 1
         /\ file # rowsOf => swaps >= swapsThen + 2
    /\ pc \in {"select", "unknown"} \cup Selected /\ swaps < swapsThen + 2 =>
         loaded \in {None, rowsOf}

IInv ==
  /\ BuildRequestTypeOK /\ PhaseInv /\ PlanInv /\ MenuStorageInv /\ MenuBridgeInv
  /\ OriginInv /\ ReadyIsAccepted /\ OfferIsAccepted

\* A storage the helper allows passes preflight and has its directories.
LEMMA EngineTakesAllowed ==
  ASSUME NEW p, NEW id, NEW role \in StorageRoleNames, MayPlay(p, id, role)
  PROVE  /\ id \in DOMAIN Storage[p] /\ EngineAllows(Storage[p][id], role)
         /\ role = "image" => EngineFindsPaths(Storage[p][id])
  BY HelperAllowsEngineAllows DEF MayPlay

\* Without a VLAN a choice is valid if its bridge is.
LEMMA UntaggedIsValid ==
  ASSUME NEW net, NEW name, ValidBridge(net, name)
  PROVE  ValidChoice(net, name, 0)
  BY DEF ValidChoice, ValidVlan

\* A request stays one when a bridge is chosen.
LEMMA RequestWithBridge ==
  ASSUME NEW r, IsRequest(r), NEW name \in Ids
  PROVE  IsRequest([r EXCEPT !.bridge = name, !.vlan = 0])
<1> DEFINE named == [r EXCEPT !.bridge = name]
<1>1. IsRequest(named)
  BY DEF IsRequest
<1>2. 0 \in 0..MaxVlan
  BY DEF MaxVlan
<1>3. [r EXCEPT !.bridge = name, !.vlan = 0] = [named EXCEPT !.vlan = 0]
  BY DEF IsRequest
<1> QED
  BY <1>1, <1>2, <1>3 DEF IsRequest

\* A request stays one when the items are chosen.
LEMMA RequestWithItems ==
  ASSUME NEW r, IsRequest(r), NEW items
  PROVE  IsRequest([r EXCEPT !.items = items])
  BY DEF IsRequest

\* A request stays one when a VLAN is chosen.
LEMMA RequestWithVlan ==
  ASSUME NEW r, IsRequest(r), NEW vlan \in 0..MaxVlan
  PROVE  IsRequest([r EXCEPT !.vlan = vlan])
  BY DEF IsRequest

\* A VLAN that is accepted is one.
LEMMA ValidVlanType ==
  ASSUME NEW net, NEW name, NEW vlan, ValidChoice(net, name, vlan)
  PROVE  vlan \in 0..MaxVlan
  BY DEF ValidChoice, ValidVlan, MaxVlan

\* Every step keeps the types.
LEMMA TypeStep ==
  ASSUME IInv, [Next]_vars
  PROVE  BuildRequestTypeOK'
<1> USE BuildRequestAssumption
    DEF IInv, BuildRequestTypeOK, PhaseInv, IsRequest, HelperPcs, LoaderPcs, MenuPcs,
        EnginePcs, Selected, Step, vars, world, helper, survey, engine, choosing
<1>1. CASE SwapCatalog
  BY <1>1 DEF SwapCatalog, Final
<1>2. CASE MoveNode
  BY <1>2 DEF MoveNode, Final
<1>3. CASE Load
  <2>1. /\ pc = "load" /\ pc' = "storages" /\ loaded' = file /\ blocked' = FALSE
        /\ phase = "execute" => file = expected
        /\ UNCHANGED <<file, pve, swaps, moves, swapsThen, way, phase, ask, expected, listed,
                       surveyed, metadata, rowsOf, moved, enter, used>>
    BY <1>3 DEF Load, Loadable, SameCatalog
  <2>2. loaded' \in Files /\ blocked' \in BOOLEAN /\ phase' # "build"
    BY <2>1
  <2>3. IsRequest(ask')
    BY <2>1
  <2>4. /\ file' \in Files /\ pve' \in Pves /\ swaps' \in 0..MaxSwaps /\ moves' \in 0..MaxMoves
        /\ swapsThen' \in 0..swaps' /\ way' \in {"agent", "menu"}
        /\ phase' \in {"menu", "build"} \cup IF way' = "agent" THEN {"plan", "execute"} ELSE {}
    BY <2>1
  <2> QED
    BY <2>1, <2>2, <2>3, <2>4
<1>4. CASE RefuseLoad
  BY <1>4 DEF RefuseLoad
<1>5. CASE PlanStorages
  BY <1>5 DEF PlanStorages, Fit
<1>6. CASE PlanCache
  BY <1>6 DEF PlanCache
<1>7. CASE PlanLink
  BY <1>7 DEF PlanLink
<1>8. CASE Confirm
  BY <1>8 DEF Confirm
<1>9. CASE StartEngine
  BY <1>9 DEF StartEngine
<1>10. CASE RefusePlan
  BY <1>10 DEF RefusePlan
<1>11. CASE Metadata
  BY <1>11 DEF Metadata
<1>12. CASE CatalogRows
  BY <1>12 DEF CatalogRows
<1>13. CASE MetadataAgain
  BY <1>13 DEF MetadataAgain, Settled
<1>14. CASE RefuseCatalog
  BY <1>14 DEF RefuseCatalog, Settled
<1>15. CASE ChooseTemplates
  <2>1. PICK items : ask' = [ask EXCEPT !.items = items]
    BY <1>15 DEF ChooseTemplates
  <2>2. IsRequest(ask')
    BY <2>1, RequestWithItems
  <2> QED
    BY <1>15, <2>2 DEF ChooseTemplates
<1>16. CASE DiscoverStorages
  BY <1>16 DEF DiscoverStorages
<1>17. CASE ChooseStorage
  BY <1>17 DEF ChooseStorage, MenuStorageInv, StorageChosen, BridgeChosen
<1>18. CASE SurveyBridges
  BY <1>18 DEF SurveyBridges
<1>19. CASE ChooseBridge
  <2>1. PICK name \in DOMAIN Network[surveyed].bridge :
              ask' = [ask EXCEPT !.bridge = name, !.vlan = 0]
    BY <1>19 DEF ChooseBridge
  <2>2. name \in Ids
    BY <1>19, <2>1 DEF ChooseBridge, MenuBridgeInv
  <2>3. IsRequest(ask')
    BY <2>1, <2>2, RequestWithBridge
  <2> QED
    BY <1>19, <2>3 DEF ChooseBridge
<1>20. CASE AnswerUse
  <2>1. used' \in BOOLEAN
    BY <1>20 DEF AnswerUse
  <2>2. UNCHANGED <<world, way, phase, ask, helper, survey, engine, swapsThen, moved, enter>>
    BY <1>20 DEF AnswerUse
  <2> QED
    BY <2>1, <2>2 DEF world, helper, survey, engine
<1>21. CASE ChooseVlan
  <2>1. PICK vlan : ValidChoice(Network[pve], ask.bridge, vlan)
                    /\ ask' = [ask EXCEPT !.vlan = vlan]
    BY <1>21 DEF ChooseVlan
  <2>2. IsRequest(ask')
    BY <2>1, ValidVlanType, RequestWithVlan
  <2> QED
    BY <1>21, <2>2 DEF ChooseVlan
<1>22. CASE ConfirmInstall
  BY <1>22 DEF ConfirmInstall
<1>23. CASE Revalidate
  BY <1>23 DEF Revalidate
<1>24. CASE Leave
  BY <1>24 DEF Leave
<1>25. CASE SelectTemplates
  BY <1>25 DEF SelectTemplates
<1>26. CASE UnknownTemplate
  BY <1>26 DEF UnknownTemplate
<1>27. CASE Preflight
  BY <1>27 DEF Preflight, Check, Takes, FindsPaths
<1>28. CASE UNCHANGED vars
  BY <1>28
<1> QED
  BY <1>1, <1>2, <1>3, <1>4, <1>5, <1>6, <1>7, <1>8, <1>9, <1>10, <1>11, <1>12, <1>13, <1>14,
     <1>15, <1>16, <1>17, <1>18, <1>19, <1>20, <1>21, <1>22, <1>23, <1>24, <1>25, <1>26, <1>27,
     <1>28 DEF Next

\* Every step keeps program and control state in agreement.
LEMMA PhaseStep ==
  ASSUME IInv, [Next]_vars
  PROVE  PhaseInv'
<1> USE BuildRequestAssumption
    DEF IInv, BuildRequestTypeOK, PhaseInv, HelperPcs, LoaderPcs, MenuPcs, EnginePcs,
        Selected, IsRequest, Step, vars, world, helper, survey, engine, choosing
<1>1. CASE SwapCatalog
  BY <1>1 DEF SwapCatalog, Final
<1>2. CASE MoveNode
  BY <1>2 DEF MoveNode, Final
<1>3. CASE Load
  BY <1>3 DEF Load, Loadable, SameCatalog
<1>4. CASE RefuseLoad
  BY <1>4 DEF RefuseLoad
<1>5. CASE PlanStorages
  BY <1>5 DEF PlanStorages, Fit
<1>6. CASE PlanCache
  BY <1>6 DEF PlanCache
<1>7. CASE PlanLink
  BY <1>7 DEF PlanLink
<1>8. CASE Confirm
  BY <1>8 DEF Confirm
<1>9. CASE StartEngine
  BY <1>9 DEF StartEngine
<1>10. CASE RefusePlan
  BY <1>10 DEF RefusePlan
<1>11. CASE Metadata
  BY <1>11 DEF Metadata
<1>12. CASE CatalogRows
  BY <1>12 DEF CatalogRows
<1>13. CASE MetadataAgain
  BY <1>13 DEF MetadataAgain, Settled
<1>14. CASE RefuseCatalog
  BY <1>14 DEF RefuseCatalog, Settled
<1>15. CASE ChooseTemplates
  BY <1>15 DEF ChooseTemplates
<1>16. CASE DiscoverStorages
  BY <1>16 DEF DiscoverStorages
<1>17. CASE ChooseStorage
  BY <1>17 DEF ChooseStorage
<1>18. CASE SurveyBridges
  BY <1>18 DEF SurveyBridges
<1>19. CASE ChooseBridge
  BY <1>19 DEF ChooseBridge, AfterBridge, Pick
<1>20. CASE AnswerUse
  BY <1>20 DEF AnswerUse, AfterBridge
<1>21. CASE ChooseVlan
  BY <1>21 DEF ChooseVlan
<1>22. CASE ConfirmInstall
  BY <1>22 DEF ConfirmInstall
<1>23. CASE Revalidate
  BY <1>23 DEF Revalidate
<1>24. CASE Leave
  BY <1>24 DEF Leave
<1>25. CASE SelectTemplates
  BY <1>25 DEF SelectTemplates
<1>26. CASE UnknownTemplate
  BY <1>26 DEF UnknownTemplate
<1>27. CASE Preflight
  BY <1>27 DEF Preflight, Check, Takes, FindsPaths
<1>28. CASE UNCHANGED vars
  BY <1>28
<1> QED
  BY <1>1, <1>2, <1>3, <1>4, <1>5, <1>6, <1>7, <1>8, <1>9, <1>10, <1>11, <1>12, <1>13, <1>14,
     <1>15, <1>16, <1>17, <1>18, <1>19, <1>20, <1>21, <1>22, <1>23, <1>24, <1>25, <1>26, <1>27,
     <1>28 DEF Next

\* What a plan without errors found lasts until the node changes.
LEMMA PlanStep ==
  ASSUME IInv, [Next]_vars
  PROVE  PlanInv'
<1> USE BuildRequestAssumption
    DEF IInv, BuildRequestTypeOK, PhaseInv, PlanInv, HelperPcs, LoaderPcs, MenuPcs,
        EnginePcs, Selected, IsRequest, Step, vars, world, helper, survey, engine,
        choosing
<1>1. CASE SwapCatalog
  BY <1>1 DEF SwapCatalog, Final
<1>2. CASE MoveNode
  BY <1>2 DEF MoveNode, Final
<1>3. CASE Load
  BY <1>3 DEF Load, Loadable, SameCatalog
<1>4. CASE RefuseLoad
  BY <1>4 DEF RefuseLoad
<1>5. CASE PlanStorages
  BY <1>5 DEF PlanStorages, Fit
<1>6. CASE PlanCache
  BY <1>6 DEF PlanCache
<1>7. CASE PlanLink
  BY <1>7 DEF PlanLink
<1>8. CASE Confirm
  BY <1>8 DEF Confirm
<1>9. CASE StartEngine
  BY <1>9 DEF StartEngine
<1>10. CASE RefusePlan
  BY <1>10 DEF RefusePlan
<1>11. CASE Metadata
  BY <1>11 DEF Metadata
<1>12. CASE CatalogRows
  BY <1>12 DEF CatalogRows
<1>13. CASE MetadataAgain
  BY <1>13 DEF MetadataAgain, Settled
<1>14. CASE RefuseCatalog
  BY <1>14 DEF RefuseCatalog, Settled
<1>15. CASE ChooseTemplates
  BY <1>15 DEF ChooseTemplates
<1>16. CASE DiscoverStorages
  BY <1>16 DEF DiscoverStorages
<1>17. CASE ChooseStorage
  BY <1>17 DEF ChooseStorage
<1>18. CASE SurveyBridges
  BY <1>18 DEF SurveyBridges
<1>19. CASE ChooseBridge
  BY <1>19 DEF ChooseBridge, AfterBridge, Pick
<1>20. CASE AnswerUse
  BY <1>20 DEF AnswerUse, AfterBridge
<1>21. CASE ChooseVlan
  BY <1>21 DEF ChooseVlan
<1>22. CASE ConfirmInstall
  BY <1>22 DEF ConfirmInstall
<1>23. CASE Revalidate
  BY <1>23 DEF Revalidate
<1>24. CASE Leave
  BY <1>24 DEF Leave
<1>25. CASE SelectTemplates
  BY <1>25 DEF SelectTemplates
<1>26. CASE UnknownTemplate
  BY <1>26 DEF UnknownTemplate
<1>27. CASE Preflight
  BY <1>27 DEF Preflight, Check, Takes, FindsPaths
<1>28. CASE UNCHANGED vars
  BY <1>28
<1> QED
  BY <1>1, <1>2, <1>3, <1>4, <1>5, <1>6, <1>7, <1>8, <1>9, <1>10, <1>11, <1>12, <1>13, <1>14,
     <1>15, <1>16, <1>17, <1>18, <1>19, <1>20, <1>21, <1>22, <1>23, <1>24, <1>25, <1>26, <1>27,
     <1>28 DEF Next

\* The storages the menu has taken are those it was told of.
LEMMA MenuStorageStep ==
  ASSUME IInv, [Next]_vars
  PROVE  MenuStorageInv'
<1> USE BuildRequestAssumption
    DEF IInv, BuildRequestTypeOK, PhaseInv, MenuStorageInv, StorageChosen, BridgeChosen,
        HelperPcs, LoaderPcs, MenuPcs, EnginePcs, Selected, IsRequest, Step, vars,
        world, helper, survey, engine, choosing
<1>1. CASE SwapCatalog
  BY <1>1 DEF SwapCatalog, Final
<1>2. CASE MoveNode
  BY <1>2 DEF MoveNode, Final
<1>3. CASE Load
  BY <1>3 DEF Load, Loadable, SameCatalog
<1>4. CASE RefuseLoad
  BY <1>4 DEF RefuseLoad
<1>5. CASE PlanStorages
  BY <1>5 DEF PlanStorages, Fit
<1>6. CASE PlanCache
  BY <1>6 DEF PlanCache
<1>7. CASE PlanLink
  BY <1>7 DEF PlanLink
<1>8. CASE Confirm
  BY <1>8 DEF Confirm
<1>9. CASE StartEngine
  BY <1>9 DEF StartEngine
<1>10. CASE RefusePlan
  BY <1>10 DEF RefusePlan
<1>11. CASE Metadata
  BY <1>11 DEF Metadata
<1>12. CASE CatalogRows
  BY <1>12 DEF CatalogRows
<1>13. CASE MetadataAgain
  BY <1>13 DEF MetadataAgain, Settled
<1>14. CASE RefuseCatalog
  BY <1>14 DEF RefuseCatalog, Settled
<1>15. CASE ChooseTemplates
  BY <1>15 DEF ChooseTemplates
<1>16. CASE DiscoverStorages
  BY <1>16 DEF DiscoverStorages
<1>17. CASE ChooseStorage
  BY <1>17 DEF ChooseStorage
<1>18. CASE SurveyBridges
  BY <1>18 DEF SurveyBridges
<1>19. CASE ChooseBridge
  BY <1>19 DEF ChooseBridge, AfterBridge, Pick
<1>20. CASE AnswerUse
  BY <1>20 DEF AnswerUse, AfterBridge
<1>21. CASE ChooseVlan
  BY <1>21 DEF ChooseVlan
<1>22. CASE ConfirmInstall
  BY <1>22 DEF ConfirmInstall
<1>23. CASE Revalidate
  BY <1>23 DEF Revalidate
<1>24. CASE Leave
  BY <1>24 DEF Leave
<1>25. CASE SelectTemplates
  BY <1>25 DEF SelectTemplates
<1>26. CASE UnknownTemplate
  BY <1>26 DEF UnknownTemplate
<1>27. CASE Preflight
  BY <1>27 DEF Preflight, Check, Takes, FindsPaths
<1>28. CASE UNCHANGED vars
  BY <1>28
<1> QED
  BY <1>1, <1>2, <1>3, <1>4, <1>5, <1>6, <1>7, <1>8, <1>9, <1>10, <1>11, <1>12, <1>13, <1>14,
     <1>15, <1>16, <1>17, <1>18, <1>19, <1>20, <1>21, <1>22, <1>23, <1>24, <1>25, <1>26, <1>27,
     <1>28 DEF Next

\* So is the bridge, and one of the host was confirmed.
LEMMA MenuBridgeStep ==
  ASSUME IInv, [Next]_vars
  PROVE  MenuBridgeInv'
<1> USE BuildRequestAssumption
    DEF IInv, BuildRequestTypeOK, PhaseInv, MenuBridgeInv, BridgeChosen, HelperPcs,
        LoaderPcs, MenuPcs, EnginePcs, Selected, IsRequest, Step, vars, world, helper,
        survey, engine, choosing
<1>1. CASE SwapCatalog
  BY <1>1 DEF SwapCatalog, Final
<1>2. CASE MoveNode
  BY <1>2 DEF MoveNode, Final
<1>3. CASE Load
  BY <1>3 DEF Load, Loadable, SameCatalog
<1>4. CASE RefuseLoad
  BY <1>4 DEF RefuseLoad
<1>5. CASE PlanStorages
  BY <1>5 DEF PlanStorages, Fit
<1>6. CASE PlanCache
  BY <1>6 DEF PlanCache
<1>7. CASE PlanLink
  BY <1>7 DEF PlanLink
<1>8. CASE Confirm
  BY <1>8 DEF Confirm
<1>9. CASE StartEngine
  BY <1>9 DEF StartEngine
<1>10. CASE RefusePlan
  BY <1>10 DEF RefusePlan
<1>11. CASE Metadata
  BY <1>11 DEF Metadata
<1>12. CASE CatalogRows
  BY <1>12 DEF CatalogRows
<1>13. CASE MetadataAgain
  BY <1>13 DEF MetadataAgain, Settled
<1>14. CASE RefuseCatalog
  BY <1>14 DEF RefuseCatalog, Settled
<1>15. CASE ChooseTemplates
  BY <1>15 DEF ChooseTemplates
<1>16. CASE DiscoverStorages
  BY <1>16 DEF DiscoverStorages
<1>17. CASE ChooseStorage
  BY <1>17 DEF ChooseStorage
<1>18. CASE SurveyBridges
  BY <1>18 DEF SurveyBridges
<1>19. CASE ChooseBridge
  BY <1>19, UntaggedIsValid DEF ChooseBridge, AfterBridge, Pick
<1>20. CASE AnswerUse
  BY <1>20, UntaggedIsValid DEF AnswerUse, AfterBridge
<1>21. CASE ChooseVlan
  BY <1>21 DEF ChooseVlan
<1>22. CASE ConfirmInstall
  BY <1>22 DEF ConfirmInstall
<1>23. CASE Revalidate
  BY <1>23 DEF Revalidate
<1>24. CASE Leave
  BY <1>24 DEF Leave
<1>25. CASE SelectTemplates
  BY <1>25 DEF SelectTemplates
<1>26. CASE UnknownTemplate
  BY <1>26 DEF UnknownTemplate
<1>27. CASE Preflight
  BY <1>27 DEF Preflight, Check, Takes, FindsPaths
<1>28. CASE UNCHANGED vars
  BY <1>28
<1> QED
  BY <1>1, <1>2, <1>3, <1>4, <1>5, <1>6, <1>7, <1>8, <1>9, <1>10, <1>11, <1>12, <1>13, <1>14,
     <1>15, <1>16, <1>17, <1>18, <1>19, <1>20, <1>21, <1>22, <1>23, <1>24, <1>25, <1>26, <1>27,
     <1>28 DEF Next

\* Rows of another catalog take two replacements of the file.
LEMMA OriginStep ==
  ASSUME IInv, [Next]_vars
  PROVE  OriginInv'
<1> USE BuildRequestAssumption
    DEF IInv, BuildRequestTypeOK, PhaseInv, OriginInv, HelperPcs, LoaderPcs, MenuPcs,
        EnginePcs, Selected, Step, vars, world, helper, survey, engine, choosing
<1>1. CASE SwapCatalog
  BY <1>1 DEF SwapCatalog, Final
<1>2. CASE MoveNode
  BY <1>2 DEF MoveNode, Final
<1>3. CASE Load
  BY <1>3 DEF Load, Loadable, SameCatalog
<1>4. CASE RefuseLoad
  BY <1>4 DEF RefuseLoad
<1>5. CASE PlanStorages
  BY <1>5 DEF PlanStorages, Fit
<1>6. CASE PlanCache
  BY <1>6 DEF PlanCache
<1>7. CASE PlanLink
  BY <1>7 DEF PlanLink
<1>8. CASE Confirm
  BY <1>8 DEF Confirm
<1>9. CASE StartEngine
  BY <1>9 DEF StartEngine
<1>10. CASE RefusePlan
  BY <1>10 DEF RefusePlan
<1>11. CASE Metadata
  BY <1>11 DEF Metadata
<1>12. CASE CatalogRows
  BY <1>12 DEF CatalogRows
<1>13. CASE MetadataAgain
  BY <1>13 DEF MetadataAgain, Settled
<1>14. CASE RefuseCatalog
  BY <1>14 DEF RefuseCatalog, Settled
<1>15. CASE ChooseTemplates
  BY <1>15 DEF ChooseTemplates, IsRequest
<1>16. CASE DiscoverStorages
  BY <1>16 DEF DiscoverStorages
<1>17. CASE ChooseStorage
  BY <1>17 DEF ChooseStorage, IsRequest
<1>18. CASE SurveyBridges
  BY <1>18 DEF SurveyBridges
<1>19. CASE ChooseBridge
  BY <1>19 DEF ChooseBridge, IsRequest, AfterBridge, Pick
<1>20. CASE AnswerUse
  BY <1>20 DEF AnswerUse, AfterBridge
<1>21. CASE ChooseVlan
  BY <1>21 DEF ChooseVlan, IsRequest
<1>22. CASE ConfirmInstall
  BY <1>22 DEF ConfirmInstall
<1>23. CASE Revalidate
  BY <1>23 DEF Revalidate
<1>24. CASE Leave
  BY <1>24 DEF Leave
<1>25. CASE SelectTemplates
  BY <1>25 DEF SelectTemplates
<1>26. CASE UnknownTemplate
  BY <1>26 DEF UnknownTemplate
<1>27. CASE Preflight
  BY <1>27 DEF Preflight, Check, Takes, FindsPaths
<1>28. CASE UNCHANGED vars
  BY <1>28
<1> QED
  BY <1>1, <1>2, <1>3, <1>4, <1>5, <1>6, <1>7, <1>8, <1>9, <1>10, <1>11, <1>12, <1>13, <1>14,
     <1>15, <1>16, <1>17, <1>18, <1>19, <1>20, <1>21, <1>22, <1>23, <1>24, <1>25, <1>26, <1>27,
     <1>28 DEF Next

\* The engine rejects only what changed since it was looked at.
LEMMA AcceptedStep ==
  ASSUME IInv, [Next]_vars
  PROVE  ReadyIsAccepted' /\ OfferIsAccepted'
<1> USE BuildRequestAssumption
    DEF IInv, BuildRequestTypeOK, PhaseInv, PlanInv, MenuStorageInv, MenuBridgeInv,
        StorageChosen, BridgeChosen, ReadyIsAccepted, OfferIsAccepted, HelperPcs,
        LoaderPcs, MenuPcs, EnginePcs, Selected, Step, vars, world, helper, survey,
        engine, choosing
<1>1. CASE SwapCatalog
  BY <1>1 DEF SwapCatalog, Final
<1>2. CASE MoveNode
  BY <1>2 DEF MoveNode, Final
<1>3. CASE Load
  BY <1>3 DEF Load, Loadable, SameCatalog
<1>4. CASE RefuseLoad
  BY <1>4 DEF RefuseLoad
<1>5. CASE PlanStorages
  BY <1>5 DEF PlanStorages, Fit
<1>6. CASE PlanCache
  BY <1>6 DEF PlanCache
<1>7. CASE PlanLink
  BY <1>7 DEF PlanLink
<1>8. CASE Confirm
  BY <1>8 DEF Confirm
<1>9. CASE StartEngine
  BY <1>9 DEF StartEngine
<1>10. CASE RefusePlan
  BY <1>10 DEF RefusePlan
<1>11. CASE Metadata
  BY <1>11 DEF Metadata
<1>12. CASE CatalogRows
  BY <1>12 DEF CatalogRows
<1>13. CASE MetadataAgain
  BY <1>13 DEF MetadataAgain, Settled
<1>14. CASE RefuseCatalog
  BY <1>14 DEF RefuseCatalog, Settled
<1>15. CASE ChooseTemplates
  BY <1>15 DEF ChooseTemplates, IsRequest
<1>16. CASE DiscoverStorages
  BY <1>16 DEF DiscoverStorages
<1>17. CASE ChooseStorage
  BY <1>17 DEF ChooseStorage, IsRequest
<1>18. CASE SurveyBridges
  BY <1>18 DEF SurveyBridges
<1>19. CASE ChooseBridge
  BY <1>19 DEF ChooseBridge, IsRequest, AfterBridge, Pick
<1>20. CASE AnswerUse
  BY <1>20 DEF AnswerUse, AfterBridge
<1>21. CASE ChooseVlan
  BY <1>21 DEF ChooseVlan, IsRequest
<1>22. CASE ConfirmInstall
  BY <1>22 DEF ConfirmInstall
<1>23. CASE Revalidate
  BY <1>23 DEF Revalidate
<1>24. CASE Leave
  BY <1>24 DEF Leave
<1>25. CASE SelectTemplates
  BY <1>25 DEF SelectTemplates
<1>26. CASE UnknownTemplate
  BY <1>26 DEF UnknownTemplate
<1>27. CASE Preflight
  <2>1. CASE Check("storage", "net", Takes("template") /\ Takes("image"))
    BY <1>27, <2>1, EngineTakesAllowed DEF Preflight, Check, Takes, StorageRoleNames
  <2>2. CASE Check("net", "paths", ValidChoice(Network[pve], ask.bridge, ask.vlan))
    BY <1>27, <2>2, UntaggedIsValid DEF Preflight, Check
  <2>3. CASE Check("paths", "begun", FindsPaths)
    BY <1>27, <2>3, EngineTakesAllowed DEF Preflight, Check, FindsPaths, StorageRoleNames
  <2> QED
    BY <1>27, <2>1, <2>2, <2>3 DEF Preflight
<1>28. CASE UNCHANGED vars
  BY <1>28
<1> QED
  BY <1>1, <1>2, <1>3, <1>4, <1>5, <1>6, <1>7, <1>8, <1>9, <1>10, <1>11, <1>12, <1>13, <1>14,
     <1>15, <1>16, <1>17, <1>18, <1>19, <1>20, <1>21, <1>22, <1>23, <1>24, <1>25, <1>26, <1>27,
     <1>28 DEF Next

LEMMA InitInv == Init => IInv
<1> SUFFICES ASSUME Init PROVE IInv
  OBVIOUS
<1>1. IsRequest(ask) /\ ask.vlan = 0
  <2>1. IsRequest(NoAnswers) /\ NoAnswers.vlan = 0
    <3>1. NoAnswers.items = All /\ NoAnswers.vlan = 0
      BY DEF NoAnswers
    <3>2. 0 \in 0..MaxVlan
      BY DEF MaxVlan
    <3>3. NoAnswers \in [items : {All}, image : Ids \cup {None}, template : Ids \cup {None},
                         backup : Ids \cup {None}, bridge : Ids \cup {None},
                         vlan : 0..MaxVlan]
      BY <3>2 DEF NoAnswers
    <3> QED
      BY <3>1, <3>3 DEF IsRequest
  <2> QED
    BY <2>1, BuildRequestAssumption DEF Init
<1>2. BuildRequestTypeOK
  <2>1. swaps \in 0..MaxSwaps /\ moves \in 0..MaxMoves /\ swapsThen \in 0..swaps
    BY BuildRequestAssumption DEF Init
  <2>2. /\ way \in {"agent", "menu"}
        /\ phase \in {"menu", "build"} \cup IF way = "agent" THEN {"plan", "execute"} ELSE {}
        /\ phase # "build"
    BY DEF Init
  <2> QED
    BY <1>1, <2>1, <2>2 DEF Init, BuildRequestTypeOK
<1>3. PhaseInv /\ PlanInv
  BY <1>1 DEF Init, PhaseInv, PlanInv, HelperPcs, MenuPcs, LoaderPcs, EnginePcs
<1>4. MenuStorageInv /\ MenuBridgeInv
  BY DEF Init, MenuStorageInv, MenuBridgeInv, StorageChosen, BridgeChosen
<1>5. OriginInv
  BY DEF Init, OriginInv, Selected
<1>6. ReadyIsAccepted /\ OfferIsAccepted
  BY DEF Init, ReadyIsAccepted, OfferIsAccepted
<1> QED
  BY <1>2, <1>3, <1>4, <1>5, <1>6 DEF IInv

LEMMA Invariance == Spec => []IInv
<1>1. IInv /\ [Next]_vars => IInv'
  BY TypeStep, PhaseStep, PlanStep, MenuStorageStep, MenuBridgeStep, OriginStep, AcceptedStep
     DEF IInv
<1> QED
  BY InitInv, <1>1, PTL DEF Spec

-----------------------------------------------------------------------------
(* What the runs check, for every catalog and node.                        *)

\* Types, and the engine of a confirmed plan gets the catalog of that plan.
THEOREM TypesAreCorrect == Spec => []BuildRequestTypeOK
<1>1. IInv => BuildRequestTypeOK
  BY DEF IInv
<1> QED
  BY Invariance, <1>1, PTL

\* A ready plan is turned down only by a node that changed or a device that
\* is no active bridge.
THEOREM ReadyPlansAreAccepted == Spec => []ReadyIsAccepted
<1>1. IInv => ReadyIsAccepted
  BY DEF IInv
<1> QED
  BY Invariance, <1>1, PTL

\* What the menu offered is turned down only by a node that changed.
THEOREM OffersAreAccepted == Spec => []OfferIsAccepted
<1>1. IInv => OfferIsAccepted
  BY DEF IInv
<1> QED
  BY Invariance, <1>1, PTL

\* No build starts on a bridge of the host without the word USE.
THEOREM HostBridgesNeedUse == Spec => []HostBridgeNeedsUse
<1>1. ASSUME NEW net, NEW name, Recommended(net, name)
      PROVE  ~Management(net, name)
  BY <1>1 DEF Recommended, Candidates
<1>2. IInv => HostBridgeNeedsUse
  BY <1>1 DEF IInv, PhaseInv, MenuBridgeInv, BridgeChosen, HostBridgeNeedsUse, Management,
              DefaultRoute, EnginePcs, LoaderPcs, Selected
<1> QED
  BY Invariance, <1>2, PTL

\* The rows the engine of a confirmed plan selects from are those of the
\* confirmed catalog.  BuiltIsConfirmed adds what is selected of them.
RowsAreConfirmed ==
  way = "agent" /\ pc \in Selected \cup {"unknown"} /\ swaps < swapsThen + 2 =>
    rowsOf = expected

\* The three readings of load_template_catalog and the confirmed revision and
\* SHA-256 leave no other way than a file replaced and put back meanwhile.
THEOREM ConfirmedRowsOnly == Spec => []RowsAreConfirmed
<1>1. IInv => RowsAreConfirmed
  BY DEF IInv, BuildRequestTypeOK, PhaseInv, OriginInv, RowsAreConfirmed, Selected,
         HelperPcs, LoaderPcs, MenuPcs, EnginePcs
<1> QED
  BY Invariance, <1>1, PTL

-----------------------------------------------------------------------------
(* What is built is what was confirmed.                                    *)

\* The helper has accepted the request, and the engine has selected.
Accepted == phase # "plan" \/ pc \in {"storages", "cache", "link", "planned"}
HasSelected == pc \in Selected \cup {"unknown"}

\* What was accepted is a list the helper selects from the file it loaded.
RequestInv ==
  way = "agent" =>
    /\ ask.items \in Seq(STRING)
    /\ Accepted => /\ loaded \in Files
                   /\ ValidCatalog(Catalog[loaded])
                   /\ HelperAccepts(Catalog[loaded], ask.items)

\* An Agent's request never changes, its catalog is loaded by Load only, and
\* what the engine has selected stays.
LEMMA AgentSteps ==
  ASSUME IInv, [Next]_vars, way' = "agent"
  PROVE  /\ way = "agent" /\ ask' = ask
         /\ Load \/ (loaded' = loaded /\ (Accepted' => Accepted))
         /\ HasSelected' =>
              \/ SelectTemplates \/ UnknownTemplate
              \/ /\ HasSelected /\ pc # "unknown" => pc' # "unknown"
                 /\ HasSelected /\ UNCHANGED <<selected, expected, swapsThen>>
                 /\ swaps <= swaps'
<1> USE DEF IInv, BuildRequestTypeOK, PhaseInv, HelperPcs, LoaderPcs, MenuPcs, EnginePcs,
            Selected, Accepted, HasSelected, Step, vars, world, helper, survey, engine, choosing
<1>1. CASE SwapCatalog
  BY <1>1 DEF SwapCatalog, Final
<1>2. CASE MoveNode
  BY <1>2 DEF MoveNode, Final
<1>3. CASE Load
  BY <1>3 DEF Load
<1>4. CASE RefuseLoad
  BY <1>4 DEF RefuseLoad
<1>5. CASE PlanStorages
  BY <1>5 DEF PlanStorages
<1>6. CASE PlanCache
  BY <1>6 DEF PlanCache
<1>7. CASE PlanLink
  BY <1>7 DEF PlanLink
<1>8. CASE Confirm
  BY <1>8 DEF Confirm
<1>9. CASE StartEngine
  BY <1>9 DEF StartEngine
<1>10. CASE RefusePlan
  BY <1>10 DEF RefusePlan
<1>11. CASE Metadata
  BY <1>11 DEF Metadata
<1>12. CASE CatalogRows
  BY <1>12 DEF CatalogRows
<1>13. CASE MetadataAgain
  BY <1>13 DEF MetadataAgain
<1>14. CASE RefuseCatalog
  BY <1>14 DEF RefuseCatalog
<1>15. CASE ChooseTemplates
  BY <1>15 DEF ChooseTemplates
<1>16. CASE DiscoverStorages
  BY <1>16 DEF DiscoverStorages
<1>17. CASE ChooseStorage
  BY <1>17 DEF ChooseStorage
<1>18. CASE SurveyBridges
  BY <1>18 DEF SurveyBridges
<1>19. CASE ChooseBridge
  BY <1>19 DEF ChooseBridge
<1>20. CASE AnswerUse
  BY <1>20 DEF AnswerUse
<1>21. CASE ChooseVlan
  BY <1>21 DEF ChooseVlan
<1>22. CASE ConfirmInstall
  BY <1>22 DEF ConfirmInstall
<1>23. CASE Revalidate
  BY <1>23 DEF Revalidate
<1>24. CASE Leave
  BY <1>24 DEF Leave
<1>25. CASE SelectTemplates
  BY <1>25 DEF SelectTemplates
<1>26. CASE UnknownTemplate
  BY <1>26 DEF UnknownTemplate
<1>27. CASE Preflight
  BY <1>27 DEF Preflight, Check
<1>28. CASE UNCHANGED vars
  BY <1>28
<1> QED
  BY <1>1, <1>2, <1>3, <1>4, <1>5, <1>6, <1>7, <1>8, <1>9, <1>10, <1>11, <1>12, <1>13, <1>14,
     <1>15, <1>16, <1>17, <1>18, <1>19, <1>20, <1>21, <1>22, <1>23, <1>24, <1>25, <1>26, <1>27,
     <1>28 DEF Next

LEMMA RequestInit == Init => RequestInv
  BY BuildRequestAssumption DEF Init, RequestInv, Accepted

LEMMA RequestStep ==
  ASSUME IInv, RequestInv, [Next]_vars
  PROVE  RequestInv'
<1> SUFFICES ASSUME way' = "agent"
             PROVE  /\ ask'.items \in Seq(STRING)
                    /\ Accepted' => /\ loaded' \in Files
                                    /\ ValidCatalog(Catalog[loaded'])
                                    /\ HelperAccepts(Catalog[loaded'], ask'.items)
  BY DEF RequestInv
<1>1. CASE Load
  BY <1>1, AgentSteps DEF Load, Loadable, RequestInv, IInv, BuildRequestTypeOK
<1>2. CASE ~Load
  BY <1>2, AgentSteps DEF RequestInv
<1> QED
  BY <1>1, <1>2

\* The references the engine is given are those of what the helper selected.
LEMMA BuiltStep ==
  ASSUME IInv, RequestInv, BuiltIsConfirmed, [Next]_vars,
         \A f \in Files : PlainNames(Catalog[f])
  PROVE  BuiltIsConfirmed'
<1> SUFFICES ASSUME way' = "agent", HasSelected', swaps' < swapsThen' + 2
             PROVE  /\ pc' # "unknown"
                    /\ selected' = Rows(HelperSelect(Catalog[expected'], ask'.items))
  BY DEF BuiltIsConfirmed, HasSelected
<1>1. way = "agent" /\ ask' = ask
  BY AgentSteps
<1>2. ASSUME Step("select", "storage") \/ Step("select", "unknown"), phase = "build",
             UNCHANGED <<swaps, swapsThen>>
      PROVE  /\ EngineKnows(Rows(Catalog[rowsOf]), Only)
             /\ EngineSelect(Rows(Catalog[rowsOf]), Only)
                  = Rows(HelperSelect(Catalog[expected], ask.items))
  <2>1. loaded = expected /\ loaded = rowsOf /\ loaded \in Files
    BY <1>1, <1>2 DEF IInv, OriginInv, BuildRequestTypeOK, Step
  <2>2. /\ ValidCatalog(Catalog[loaded]) /\ HelperAccepts(Catalog[loaded], ask.items)
        /\ ask.items \in Seq(STRING)
    BY <1>1, <1>2 DEF RequestInv, Accepted
  <2>3. Catalog[loaded] \in Seq(Range(Catalog[loaded])) /\ PlainNames(Catalog[loaded])
    BY <2>1, BuildRequestAssumption
  <2>4. Only = [k \in DOMAIN HelperSelect(Catalog[loaded], ask.items) |->
                  HelperSelect(Catalog[loaded], ask.items)[k].ref]
    BY <1>1 DEF Only
  <2>5. /\ EngineKnows(Rows(Catalog[loaded]), Only)
        /\ EngineSelect(Rows(Catalog[loaded]), Only)
             = Rows(HelperSelect(Catalog[loaded], ask.items))
    BY <2>2, <2>3, <2>4, SelectionsAgree
  <2> QED
    BY <2>1, <2>5
<1>3. pc = "select" => phase = "build"
  BY DEF IInv, BuildRequestTypeOK, PhaseInv, HelperPcs, MenuPcs, LoaderPcs
<1>4. CASE SelectTemplates
  <2>1. /\ Step("select", "storage") /\ phase = "build" /\ UNCHANGED <<swaps, swapsThen, expected>>
        /\ selected' = EngineSelect(Rows(Catalog[rowsOf]), Only)
    BY <1>3, <1>4 DEF SelectTemplates, Step, world, helper
  <2> QED
    BY <1>1, <1>2, <2>1 DEF Step
<1>5. CASE UnknownTemplate
  <2>1. /\ Step("select", "unknown") /\ phase = "build" /\ UNCHANGED <<swaps, swapsThen>>
        /\ ~EngineKnows(Rows(Catalog[rowsOf]), Only)
    BY <1>3, <1>5 DEF UnknownTemplate, Step, world
  <2> QED
    BY <1>2, <2>1
<1>6. CASE ~SelectTemplates /\ ~UnknownTemplate
  <2>1. /\ HasSelected /\ pc # "unknown" => pc' # "unknown"
        /\ HasSelected /\ UNCHANGED <<selected, expected, swapsThen>>
        /\ swaps <= swaps'
    BY <1>6, AgentSteps
  <2>2. swaps < swapsThen + 2
    <3>1. swaps \in Nat /\ swapsThen \in Nat
      BY BuildRequestAssumption DEF IInv, BuildRequestTypeOK
    <3>2. swaps' \in Nat
      BY TypeStep, BuildRequestAssumption DEF BuildRequestTypeOK
    <3> QED
      BY <2>1, <3>1, <3>2
  <2>3. pc # "unknown" /\ selected = Rows(HelperSelect(Catalog[expected], ask.items))
    BY <1>1, <2>1, <2>2 DEF BuiltIsConfirmed, HasSelected
  <2>4. selected' = selected /\ expected' = expected
    BY <2>1
  <2> QED
    BY <1>1, <2>1, <2>3, <2>4
<1> QED
  BY <1>4, <1>5, <1>6

\* What the engine of a confirmed plan works on is exactly what was confirmed,
\* for every request and every catalog with plain names: an item called "all"
\* would have the engine build everything, one called "ovmf" the first row.
THEOREM BuiltAsConfirmed ==
  ASSUME \A f \in Files : PlainNames(Catalog[f])
  PROVE  Spec => []BuiltIsConfirmed
<1>1. Init => RequestInv /\ BuiltIsConfirmed
  BY RequestInit DEF Init, BuiltIsConfirmed, Selected
<1>2. IInv /\ RequestInv /\ BuiltIsConfirmed /\ [Next]_vars => RequestInv' /\ BuiltIsConfirmed'
  BY RequestStep, BuiltStep
<1> QED
  BY Invariance, <1>1, <1>2, PTL DEF Spec

=============================================================================

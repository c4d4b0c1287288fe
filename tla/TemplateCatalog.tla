--------------------------- MODULE TemplateCatalog ---------------------------
(***************************************************************************)
(* The template catalog and the two programs that select from it: the      *)
(* helper (load_catalog, select_items) and the template build engine       *)
(* (select_templates), which reads the helper's rows.                      *)
(*                                                                         *)
(* An item is a record [ref, vmid, aliases, firmware, ip, bytes, pin]; all *)
(* selectors are strings, a VMID included.  Formats, URLs and digests of   *)
(* an item are its pin.                                                    *)
(***************************************************************************)
EXTENDS Integers, Sequences, FiniteSetsExt, SequencesExt

\* What --items or --only holds when everything is meant.
All == <<"all">>

\* Names the helper accepts for an item.
Selectors(item) == {item.ref} \cup Range(item.aliases)
Names(item)     == Selectors(item) \cup {item.vmid}

Firmwares == {"ovmf", "seabios"}

\* load_catalog(): every selector, VMID and placeholder address is unique.
ValidCatalog(items) ==
  /\ items # <<>>
  /\ \A i \in DOMAIN items :
       /\ items[i].ref \notin Range(items[i].aliases)
       /\ IsInjective(items[i].aliases)
       /\ items[i].firmware \in Firmwares
  /\ \A i, j \in DOMAIN items :
       /\ items[i].vmid \notin Selectors(items[j])
       /\ i # j => /\ items[i].vmid # items[j].vmid
                   /\ items[i].ip # items[j].ip
                   /\ Selectors(items[i]) \cap Selectors(items[j]) = {}

\* The items a token stands for in select_items().
Known(items, token) == {i \in DOMAIN items : token \in Names(items[i])}

\* select_items() writes its table in catalog order: the last entry stays.
Lookup(items, token) == items[Max(Known(items, token))]

HelperAccepts(items, tokens) ==
  \/ tokens = All
  \/ /\ \A k \in DOMAIN tokens : Known(items, tokens[k]) # {}
     /\ \A j, k \in DOMAIN tokens :
          j # k => Lookup(items, tokens[j]).ref # Lookup(items, tokens[k]).ref

HelperSelect(items, tokens) ==
  IF tokens = All THEN items
  ELSE [k \in DOMAIN tokens |-> Lookup(items, tokens[k])]

\* catalog_rows(): what the engine reads of an item.  templateName is ref.
Row(item) == [vmid |-> item.vmid, name |-> item.ref, pin |-> item.pin,
              aliases |-> item.aliases, firmware |-> item.firmware]
Rows(items) == [i \in DOMAIN items |-> Row(items[i])]

\* The field select_templates takes for the aliases (${row##*|}) is the last
\* one, the firmware.
Matches(row, token) == token \in {row.vmid, row.name, row.firmware}

Matching(rows, token) == {i \in DOMAIN rows : Matches(rows[i], token)}

EngineKnows(rows, tokens) ==
  tokens = All \/ \A k \in DOMAIN tokens : Matching(rows, tokens[k]) # {}

\* The first row that matches each token.
FirstRows(rows, tokens) == [k \in DOMAIN tokens |-> rows[Min(Matching(rows, tokens[k]))]]

\* Each of these rows at the first token that stands for it.
EngineSelect(rows, tokens) ==
  LET picks    == FirstRows(rows, tokens)
      fresh    == {k \in DOMAIN tokens : \A j \in 1..k - 1 : picks[j] # picks[k]}
      place(k) == Cardinality(fresh \cap 1..k)
  IN IF tokens = All THEN rows
     ELSE [n \in 1..Cardinality(fresh) |-> picks[CHOOSE k \in fresh : place(k) = n]]

=============================================================================

-------------------------- MODULE MCUefiBootRepair --------------------------
(***************************************************************************)
(* An instance of UefiBootRepair for TLC: one tool and one engine on one   *)
(* node.                                                                   *)
(***************************************************************************)
EXTENDS UefiBootRepair

CONSTANTS b1, n1, r1, v1, v2

OneNode    == [b \in Builders |-> n1]
OwnCache   == [b \in Builders |-> "cache"]
BothRows   == [b \in Builders |-> <<v1, v2>>]
Always     == [b \in Builders |-> TRUE]
SameNode   == [r \in Repairers |-> n1]
BothItems  == <<v1, v2>>
Applied    == [r \in Repairers |-> TRUE]
=============================================================================

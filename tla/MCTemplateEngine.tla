-------------------------- MODULE MCTemplateEngine --------------------------
(***************************************************************************)
(* Instances of TemplateEngine for TLC.                                    *)
(***************************************************************************)
EXTENDS TemplateEngine, TLC

CONSTANTS b1, b2, n1, n2, v1, v2

\* Two engines contending for one node, over the same selection.
OneNode  == [b \in Builders |-> n1]
\* One engine on each of two nodes.
TwoNodes == (b1 :> n1) @@ (b2 :> n2)

\* All builders keep their cache on the same storage.
SharedCache == [b \in Builders |-> "shared"]

BothRows  == [b \in Builders |-> <<v1, v2>>]
OneRow    == [b \in Builders |-> <<v1>>]
\* The second run is asked for the rows in the opposite order.
Reversed  == [b \in Builders |-> IF b = b1 THEN <<v1, v2>> ELSE <<v2, v1>>]

Always    == [b \in Builders |-> TRUE]
OnlyFirst == [b \in Builders |-> b = b1]

BuilderSymmetry == Permutations(Builders)
=============================================================================

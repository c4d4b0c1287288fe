-------------------------- MODULE MCAgentBootstrap --------------------------
(***************************************************************************)
(* Instances of AgentBootstrap for TLC.                                    *)
(***************************************************************************)
EXTENDS AgentBootstrap, TLC

CONSTANTS b1, b2, n1, v1, v2

OneNode    == [b \in Builders |-> n1]
OneCache   == [b \in Builders |-> "cache"]
BothRows   == [b \in Builders |-> <<v1, v2>>]
\* The run beside the helper is asked for one template.
BesideOne  == [b \in Builders |-> IF b = b1 THEN <<v1, v2>> ELSE <<v2>>]

Never      == [b \in Builders |-> FALSE]
Always     == [b \in Builders |-> TRUE]
OnlySecond == [b \in Builders |-> b = b2]
AllBackup  == [a \in Agents |-> TRUE]
NoBackup   == [a \in Agents |-> FALSE]
=============================================================================

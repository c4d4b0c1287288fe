----------------------------- MODULE BridgeChoice -----------------------------
(***************************************************************************)
(* tools/template-network.py: what it reads of the bridges of a node,      *)
(* which one it recommends, and which bridge and VLAN it accepts.          *)
(*                                                                         *)
(* A network is a record: bridge is a function from the names of the       *)
(* node's bridges to what PVE says of each, and routes are the devices of  *)
(* the default routes.  Of a bridge: whether it is active, its address     *)
(* ("none", "unspecified", "host", "unreadable"), whether it has a         *)
(* gateway, is VLAN-aware and has ports, and vids, its VLAN ranges as      *)
(* pairs, empty if none are configured.                                    *)
(***************************************************************************)
EXTENDS Integers, Sequences

MaxVlan == 4094

\* vlan_ranges() raises on any other range.
GoodRange(r) == 1 <= r[1] /\ r[1] <= r[2] /\ r[2] <= MaxVlan

AllowedVlans(row) ==
  IF ~row.aware THEN <<>>
  ELSE IF row.vids = <<>> THEN << <<2, MaxVlan>> >> ELSE row.vids

\* inventory() raises unless it can read every address and every range.
Readable(net) ==
  \A name \in DOMAIN net.bridge :
    /\ net.bridge[name].address # "unreadable"
    /\ \A k \in DOMAIN AllowedVlans(net.bridge[name]) :
         GoodRange(AllowedVlans(net.bridge[name])[k])

DefaultRoute(net, name) == net.bridge[name].gateway \/ name \in net.routes

\* Bug: only an address of its own makes a bridge the host's.
ManagementByAddress(net, name) == net.bridge[name].address = "host"

Management(net, name) == net.bridge[name].address = "host" \/ DefaultRoute(net, name)

Candidates(net) ==
  {name \in DOMAIN net.bridge :
     net.bridge[name].active /\ ~Management(net, name) /\ net.bridge[name].ports}

\* The bridge Enter stands for, if there is exactly one candidate.
Recommended(net, name) == Candidates(net) = {name}

ValidBridge(net, name) ==
  Readable(net) /\ name \in DOMAIN net.bridge /\ net.bridge[name].active

\* validate(): 0 stands for no tag.
ValidVlan(net, name, vlan) ==
  \/ vlan = 0
  \/ /\ vlan \in 1..MaxVlan
     /\ net.bridge[name].aware
     /\ \E k \in DOMAIN AllowedVlans(net.bridge[name]) :
          LET r == AllowedVlans(net.bridge[name])[k] IN r[1] <= vlan /\ vlan <= r[2]

ValidChoice(net, name, vlan) == ValidBridge(net, name) /\ ValidVlan(net, name, vlan)

\* The VLAN select offers: the only one there is, or none.
DefaultVlan(net, name) ==
  LET ranges == AllowedVlans(net.bridge[name]) IN
  IF Len(ranges) = 1 /\ ranges[1][1] = ranges[1][2] THEN ranges[1][1] ELSE 0

=============================================================================

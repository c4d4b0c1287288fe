---------------------------- MODULE MCBuildRequest ----------------------------
(***************************************************************************)
(* An instance of BuildRequest for TLC: two releases of a catalog and a    *)
(* broken one, on a node whose storages and bridges change.                *)
(***************************************************************************)
EXTENDS BuildRequest, TLC

CONSTANTS first, later, broken, none, p1, p2, p3, p4, p5

Item(ref, vmid, aliases, firmware, ip, pin) ==
  [ref |-> ref, vmid |-> vmid, aliases |-> aliases, firmware |-> firmware,
   ip |-> ip, pin |-> pin, bytes |-> 1]

Noble(pin) == Item("ubuntu-2404", "9001", <<"noble">>, "ovmf", "192.0.2.11", pin)
Legacy     == Item("debian-12-legacy", "9011", <<>>, "seabios", "192.0.2.21", "pin2")
Trixie     == Item("debian-13", "9003", <<"trixie">>, "ovmf", "192.0.2.13", "pin3")

\* The later release pins another image under an old reference and gives an
\* old VMID to a new item; the broken one has an alias that is also a VMID.
Catalogs ==
  (first :> <<Noble("pin1"), Legacy>>)
    @@ (later :> <<[Legacy EXCEPT !.vmid = "9004"], [Trixie EXCEPT !.vmid = "9011"], Noble("pin4")>>)
    @@ (broken :> <<[Noble("pin1") EXCEPT !.aliases = <<"9011">>], Legacy>>)
    @@ (none :> <<>>)

Paths(kind) == [type \in {"iso", "snippets"} |-> kind]

AllIds == {"local", "vpspool", "vmbr0", "vmbr1", "nic0"}

Local == [disable |-> FALSE, status |-> "active", content |-> {"iso", "snippets", "backup"},
          files |-> TRUE, path |-> Paths("plain"), avail |-> 2]
Vps   == [disable |-> FALSE, status |-> "active", content |-> {"images"},
          files |-> FALSE, path |-> Paths("none"), avail |-> Unknown]
Stores(local, vps) == ("local" :> local) @@ ("vpspool" :> vps)

\* All is well; a storage left the node and one was disabled; the paths of
\* one are odd; there is room for one item; one has no paths.
Storages ==
  (p1 :> Stores(Local, Vps))
    @@ (p2 :> Stores([Local EXCEPT !.disable = TRUE, !.status = "disabled"],
                     [Vps EXCEPT !.status = "inactive"]))
    @@ (p3 :> Stores([Local EXCEPT !.path.snippets = "odd"], Vps))
    @@ (p4 :> Stores([Local EXCEPT !.avail = 1, !.content = @ \cup {"images"}], Vps))
    @@ (p5 :> ("local" :> [Local EXCEPT !.path = Paths("none")]))

Plain   == [active |-> TRUE, address |-> "none", gateway |-> FALSE, aware |-> FALSE,
            vids |-> <<>>, ports |-> TRUE]
Host    == [Plain EXCEPT !.address = "host", !.gateway = TRUE]
Tagged  == [Plain EXCEPT !.aware = TRUE, !.vids = << <<2100, 2100>> >>]
Net(vmbr0, vmbr1, routes) ==
  [bridge |-> ("vmbr0" :> vmbr0) @@ ("vmbr1" :> vmbr1), routes |-> routes]

\* A host bridge and a business bridge; other VLANs; the default route has
\* moved; both are candidates, one down; ranges that cannot be read.
Networks ==
  (p1 :> Net(Host, Tagged, {"vmbr0"}))
    @@ (p2 :> Net(Host, [Tagged EXCEPT !.vids = <<>>], {}))
    @@ (p3 :> Net([Plain EXCEPT !.address = "unspecified"], Tagged, {"vmbr1"}))
    @@ (p4 :> Net([Plain EXCEPT !.active = FALSE], [Tagged EXCEPT !.vids = << <<100, 200>>, <<2100, 2100>> >>], {}))
    @@ (p5 :> Net(Host, [Tagged EXCEPT !.vids = << <<200, 100>> >>], {"nic0"}))

AllLinks == [p \in Pves |-> {"vmbr0", "vmbr1", "nic0"}]

Ask(items, image, bridge) ==
  [items |-> items, image |-> image, template |-> "vpspool", backup |-> None,
   bridge |-> bridge, vlan |-> 0]

\* Everything; an alias and a VMID, with backups; the same item twice; a
\* template storage for images; a device that is not a bridge.
SomeRequests ==
  {Ask(All, "local", "vmbr1"),
   [Ask(<<"9011", "noble">>, "local", "vmbr1") EXCEPT !.backup = "local"],
   Ask(<<"ubuntu-2404", "noble">>, "local", "vmbr1"),
   Ask(<<"trixie">>, "vpspool", "vmbr0"),
   Ask(<<"ubuntu-2404">>, "local", "nic0")}
=============================================================================

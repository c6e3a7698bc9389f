------------------------------ MODULE Network ------------------------------
(***************************************************************************)
(* The network service: zones, virtual networks and firewall rules, with   *)
(* the MemoryDriver (one critical section per call) or with the            *)
(* NftablesDriver, which embeds it and drives ip(8) and nft(8) outside the *)
(* lock.  The kernel is external: adding a link that exists fails, and any *)
(* command may fail.                                                       *)
(***************************************************************************)
EXTENDS Api, FiniteSets, Sequences

CONSTANTS Zones,                \* zone names clients use
          VxlanZone, SimpleZone,    \* the zones the driver is born with
          Admins,               \* requests that can be in flight together
          MaxVNets, MaxRules    \* bounds on the identifier counters

ASSUME ZonesAssumption == {VxlanZone, SimpleZone} \subseteq Zones

VARIABLES nft,                  \* the configured driver is NftablesDriver
          zones,                \* names of the zones
          zoneIfaces,           \* zone -> interfaces made for it
          vnets, nextVNetID,    \* vnet -> zone
          rules, nextRuleID,    \* rule -> Enabled
          links, chain,         \* external: kernel interfaces, nft rules
          netCalls

tables == <<zones, zoneIfaces, vnets, nextVNetID, rules, nextRuleID>>
nwVars == <<answer, nft, tables, links, chain, netCalls>>

\* The interfaces of a zone.  Clients may name the bridge; the default one is
\* derived from the zone, and a vxlan zone has a tunnel besides.
Bridge(z) == <<"bridge", z>>
Tunnel(z) == <<"vxlan", z>>
SharedBridge == <<"bridge", "vmbr0">>
NoNetCall == [at |-> "idle"]

NwInit ==
    /\ answer = Pending /\ nft \in BOOLEAN
    /\ zones = {VxlanZone, SimpleZone} /\ zoneIfaces = Empty
    /\ vnets = <<VxlanZone, SimpleZone>> /\ nextVNetID = 1
    /\ rules = Empty /\ nextRuleID = 1
    /\ links = {} /\ chain = {}
    /\ netCalls = [a \in Admins |-> NoNetCall]

Kernel == <<links, chain>>
NetGoOn(a, r) == netCalls' = [netCalls EXCEPT ![a] = r] /\ Reply(Pending)
NetDone(a, code) == netCalls' = [netCalls EXCEPT ![a] = NoNetCall] /\ Reply(code)

-----------------------------------------------------------------------------
(* MemoryDriver; the virtual networks and rule table serve both drivers. *)

\* vnet-1 and vnet-2 exist from the start but the counter starts at 1: the
\* first two networks created take their place.
CreateVNet ==
    /\ \E z \in Zones :
        \/ z \notin zones /\ Reply(400) /\ UNCHANGED <<vnets, nextVNetID>>
        \/ /\ z \in zones /\ nextVNetID <= MaxVNets
           /\ vnets' = Put(vnets, nextVNetID, z) /\ nextVNetID' = nextVNetID + 1
           /\ Reply(201)
    /\ UNCHANGED <<nft, zones, zoneIfaces, rules, nextRuleID, Kernel, netCalls>>

DeleteVNet ==
    /\ \E v \in 1 .. MaxVNets : Lookup(v, vnets, 404) /\ vnets' = Del(vnets, v)
    /\ UNCHANGED <<nft, zones, zoneIfaces, nextVNetID, rules, nextRuleID, Kernel, netCalls>>

MemCreateZone(z) ==
    /\ Reply(IF z \in zones THEN 409 ELSE 201)
    /\ zones' = zones \cup {z}
    /\ UNCHANGED <<nft, zoneIfaces, vnets, nextVNetID, rules, nextRuleID, Kernel, netCalls>>

MemDeleteZone(z) ==             \* virtual networks of the zone stay
    /\ Reply(IF z \in zones THEN 204 ELSE 404)
    /\ zones' = zones \ {z}
    /\ UNCHANGED <<nft, zoneIfaces, vnets, nextVNetID, rules, nextRuleID, Kernel, netCalls>>

AddRule ==
    /\ nextRuleID <= MaxRules
    /\ rules' = Put(rules, nextRuleID, TRUE) /\ nextRuleID' = nextRuleID + 1

MemCreateFirewallRule ==
    /\ AddRule /\ Reply(201)
    /\ UNCHANGED <<nft, zones, zoneIfaces, vnets, nextVNetID, Kernel, netCalls>>

\* With either driver only the table entry goes; the kernel keeps its rule.
DeleteFirewallRule ==
    /\ \E r \in 1 .. MaxRules : Lookup(r, rules, 404) /\ rules' = Del(rules, r)
    /\ UNCHANGED <<nft, zones, zoneIfaces, vnets, nextVNetID, nextRuleID, Kernel, netCalls>>

ListZones == Reply(200)
ListVNets == Reply(200)
ListFirewallRules == Reply(200)

-----------------------------------------------------------------------------
(* NftablesDriver. *)

\* CreateFirewallRule: the entry, enabled, under the lock; then the nft
\* command, and Enabled is withdrawn if it fails.
NftRuleEnter(a) ==
    /\ netCalls[a] = NoNetCall
    /\ AddRule /\ NetGoOn(a, [at |-> "rule", id |-> nextRuleID])
    /\ UNCHANGED <<nft, zones, zoneIfaces, vnets, nextVNetID, Kernel>>

NftRuleApply(a) ==
    /\ netCalls[a].at = "rule"
    /\ LET id == netCalls[a].id
       IN  \/ chain' = chain \cup {id} /\ UNCHANGED rules
           \/ /\ UNCHANGED chain                       \* the entry may be gone
              /\ rules' = IF id \in DOMAIN rules THEN [rules EXCEPT ![id] = FALSE] ELSE rules
    /\ NetDone(a, 201)
    /\ UNCHANGED <<nft, zones, zoneIfaces, vnets, nextVNetID, nextRuleID, links>>

\* CreateZone stores the zone without looking whether there is one, ...
NftZoneEnter(a, z) ==
    /\ netCalls[a] = NoNetCall
    /\ zones' = zones \cup {z}
    /\ \E tunnel \in {<< >>, <<Tunnel(z)>>}, bridge \in {<<Bridge(z)>>, <<SharedBridge>>} :
          NetGoOn(a, [at |-> "zone", zone |-> z, todo |-> tunnel \o bridge, made |-> << >>])
    /\ UNCHANGED <<nft, zoneIfaces, vnets, nextVNetID, rules, nextRuleID, Kernel>>

\* ... makes one interface after the other (CreateBridge adds the link, then
\* brings it up; a failure of either ends the call and leaves what is made) ...
NftZoneLink(a) ==
    /\ netCalls[a].at = "zone" /\ netCalls[a].todo # << >>
    /\ LET i == Head(netCalls[a].todo)
       IN  \/ UNCHANGED links /\ NetDone(a, 500)
           \/ /\ i \notin links /\ links' = links \cup {i}
              /\ \/ i # Tunnel(netCalls[a].zone) /\ NetDone(a, 500)
                 \/ NetGoOn(a, [netCalls[a] EXCEPT !.todo = Tail(@), !.made = Append(@, i)])
    /\ UNCHANGED <<nft, tables, chain>>

\* ... joins tunnel and bridge, which may fail too, and records them.
NftZoneRecord(a) ==
    /\ netCalls[a].at = "zone" /\ netCalls[a].todo = << >>
    /\ \/ Len(netCalls[a].made) = 2 /\ NetDone(a, 500) /\ UNCHANGED zoneIfaces
       \/ /\ zoneIfaces' = Put(zoneIfaces, netCalls[a].zone, netCalls[a].made)
          /\ NetDone(a, 201)
    /\ UNCHANGED <<nft, zones, vnets, nextVNetID, rules, nextRuleID, Kernel>>

\* Mutant: the entries are removed after the interfaces, not before.
NftZoneForgetLate(a, z) ==
    /\ netCalls[a] = NoNetCall
    /\ \/ z \notin zones /\ NetDone(a, 404) /\ UNCHANGED links
       \/ /\ z \in zones /\ z \in DOMAIN zoneIfaces
          /\ links' = links \ Range(zoneIfaces[z])
          /\ NetGoOn(a, [at |-> "unlink", todo |-> << >>])
    /\ UNCHANGED <<nft, zones, zoneIfaces, vnets, nextVNetID, rules, nextRuleID, chain>>

\* DeleteZone: both entries under the lock, then the interfaces, last one
\* first, whatever the commands answer.
NftZoneForget(a, z) ==
    /\ netCalls[a] = NoNetCall
    /\ \/ z \notin zones /\ NetDone(a, 404) /\ UNCHANGED <<zones, zoneIfaces>>
       \/ /\ z \in zones
          /\ zones' = zones \ {z} /\ zoneIfaces' = Del(zoneIfaces, z)
          /\ NetGoOn(a, [at |-> "unlink",
                todo |-> IF z \in DOMAIN zoneIfaces THEN zoneIfaces[z] ELSE << >>])
    /\ UNCHANGED <<nft, vnets, nextVNetID, rules, nextRuleID, Kernel>>

NftZoneUnlink(a) ==
    /\ netCalls[a].at = "unlink"
    /\ \/ /\ netCalls[a].todo = << >> /\ NetDone(a, 204) /\ UNCHANGED links
       \/ /\ netCalls[a].todo # << >>
          /\ LET todo == netCalls[a].todo
             IN  /\ links' \in {links, links \ {todo[Len(todo)]}}
                 /\ NetGoOn(a, [netCalls[a] EXCEPT !.todo = SubSeq(todo, 1, Len(todo) - 1)])
    /\ UNCHANGED <<nft, tables, chain>>

-----------------------------------------------------------------------------
handleCreateZone ==
    \/ Reply(400) /\ UNCHANGED <<nft, tables, Kernel, netCalls>>
    \/ ~nft /\ \E z \in Zones : MemCreateZone(z)
    \/ nft /\ \E a \in Admins, z \in Zones : NftZoneEnter(a, z)
handleDeleteZone ==
    \/ ~nft /\ \E z \in Zones : MemDeleteZone(z)
    \/ nft /\ \E a \in Admins, z \in Zones : NftZoneForget(a, z)
handleNetworkZones == ListZones /\ UNCHANGED <<nft, tables, Kernel, netCalls>>
handleNetworkVNets == ListVNets /\ UNCHANGED <<nft, tables, Kernel, netCalls>>
handleFirewallRules == ListFirewallRules /\ UNCHANGED <<nft, tables, Kernel, netCalls>>

CreateFirewallRule ==
    \/ ~nft /\ MemCreateFirewallRule
    \/ nft /\ \E a \in Admins : NftRuleEnter(a)

NwNext ==
    \/ handleCreateZone \/ handleDeleteZone \/ CreateVNet \/ DeleteVNet
    \/ CreateFirewallRule \/ DeleteFirewallRule
    \/ handleNetworkZones \/ handleNetworkVNets \/ handleFirewallRules
    \/ \E a \in Admins : \/ NftRuleApply(a) \/ NftZoneLink(a)
                         \/ NftZoneRecord(a) \/ NftZoneUnlink(a)

NwSpec == NwInit /\ [][NwNext]_nwVars

-----------------------------------------------------------------------------
\* The interfaces recorded for a zone exist, no other zone has them, and no
\* deletion under way will take them: table and kernel are not changed under
\* one lock, but an interface name has one owner at a time.
ZoneOwnsIfaces ==
    \A z \in DOMAIN zoneIfaces : \A i \in Range(zoneIfaces[z]) :
        /\ i \in links
        /\ \A y \in DOMAIN zoneIfaces \ {z} : i \notin Range(zoneIfaces[y])
        /\ \A a \in Admins : netCalls[a].at = "unlink" => i \notin Range(netCalls[a].todo)

\* A rule shown as enabled is in the kernel's chain once the request that
\* made it has been answered.
EnabledIsApplied ==
    nft => \A r \in DOMAIN rules :
        \/ ~rules[r] \/ r \in chain
        \/ \E a \in Admins : netCalls[a].at = "rule" /\ netCalls[a].id = r
=============================================================================

-------------------------- MODULE TopologyResolver --------------------------
(***************************************************************************)
(* The graph the server draws of what its routers see of each other        *)
(* (modules/topology/domain/topology-resolver.ts resolveTopology()).       *)
(*                                                                         *)
(* The function goes through the routers and, for each, through the tables *)
(* of its snapshot; one step here is one row.  A row names what it sees by *)
(* some of a MAC address, an IP address and a name.  Labels, models,       *)
(* metrics, scores and the order of the answer are left out; an external   *)
(* node is named by what externalId() makes its identifier of.             *)
(***************************************************************************)
EXTENDS Integers, Sequences, FiniteSets

CONSTANTS
  Devices,   \* the managed routers, in order
  Observers, \* those of them whose snapshot has rows of the tables
  Macs, Ips, Names,  \* values the rows hold
  Claimed,   \* aliases that routers may have as their own
  MaxRows    \* bound: rows and manual links

VARIABLES
  managedAliases,   \* alias -> routers that have it
  externalAliases,  \* alias -> external nodes seen with it
  nodes,            \* identifiers of the nodes
  links,            \* link (its two ends) -> its evidence
  place,            \* the table being gone through
  count,            \* rows and manual links so far, for the bound
  landed            \* history: MAC -> external nodes its rows landed on

trVars == <<managedAliases, externalAliases, nodes, links, place, count, landed>>

Absent == "absent"
Alias(kind, v) == <<kind, v>>
Aliases == {Alias("mac", m) : m \in Macs} \cup {Alias("ip", i) : i \in Ips} \cup {Alias("name", n) : n \in Names}

Sources == <<"neighbor", "bridge-host", "wifi", "ospf", "arp", "dhcp">>

\* The columns each table has.
HasMac(source) == source # "ospf"
HasIp(source) == source # "bridge-host"
HasName(source) == source \in {"neighbor", "wifi", "ospf", "dhcp"}

Row(source) ==
  [mac : IF HasMac(source) THEN Macs \cup {Absent} ELSE {Absent},
   ip : IF HasIp(source) THEN Ips \cup {Absent} ELSE {Absent},
   name : IF HasName(source) THEN Names \cup {Absent} ELSE {Absent}]

Managed(d) == <<"device", d>>

Init ==
  /\ managedAliases \in {[a \in Aliases |-> IF a \in Claimed THEN f[a] ELSE {}] :
                           f \in [Claimed -> SUBSET {Devices[i] : i \in DOMAIN Devices}]}
  /\ externalAliases = [a \in Aliases |-> {}]
  /\ nodes = {Managed(Devices[i]) : i \in DOMAIN Devices}
  /\ links = <<>>
  /\ place = <<1, 1>>
  /\ count = 0
  /\ landed = [m \in Macs |-> {}]

-----------------------------------------------------------------------------
(* observationNode()                                                       *)

RowAliases(r) == {a \in {Alias("mac", r.mac), Alias("ip", r.ip), Alias("name", r.name)} : a[2] # Absent}

\* An alias stands for what has it when that is one router, or one node.
Unique(S) == Cardinality(S) = 1
The(S) == CHOOSE x \in S : TRUE

\* The first of the kinds, in order, by which F tells what the row sees.
FirstOf(F, kinds, r) ==
  LET P == {i \in DOMAIN kinds : r[kinds[i]] # Absent /\ Unique(F[Alias(kinds[i], r[kinds[i]])])} IN
  IF P = {} THEN {}
  ELSE LET k == kinds[CHOOSE i \in P : \A j \in P : i <= j] IN F[Alias(k, r[k])]

ManagedId(r) == FirstOf(managedAliases, <<"mac", "ip", "name">>, r)

\* A name alone decides only when there is nothing better: two clients may have
\* the same host name.
KnownId(r) ==
  FirstOf(externalAliases, IF r.mac = Absent /\ r.ip = Absent THEN <<"name">> ELSE <<"mac", "ip">>, r)

ExternalId(r) ==
  CASE r.mac # Absent -> Alias("mac", r.mac)
    [] r.mac = Absent /\ r.ip # Absent -> Alias("ip", r.ip)
    [] OTHER -> Alias("name", r.name)

NodeOf(r) ==
  IF ManagedId(r) # {} THEN Managed(The(ManagedId(r)))
  ELSE IF KnownId(r) # {} THEN The(KnownId(r)) ELSE ExternalId(r)

\* Mutant: only the row that creates a node leaves its aliases.
Learn_Created(r, id) ==
  externalAliases' = [a \in Aliases |->
    IF a \in RowAliases(r) /\ id \notin nodes THEN externalAliases[a] \cup {id} ELSE externalAliases[a]]

\* Every row of an external node leaves all its aliases.
Learn(r, id) ==
  externalAliases' = [a \in Aliases |->
    IF a \in RowAliases(r) THEN externalAliases[a] \cup {id} ELSE externalAliases[a]]

-----------------------------------------------------------------------------
(* addEvidence()                                                           *)

Evidence(l) == IF l \in DOMAIN links THEN links[l] ELSE {}

\* A link has no direction, a node no link to itself, and the same evidence
\* counts once.
AddEvidence(a, b, e) ==
  IF a = b THEN UNCHANGED links
  ELSE links' = [l \in DOMAIN links \cup {{a, b}} |->
         IF l = {a, b} THEN Evidence(l) \cup {e} ELSE links[l]]

\* observe() of a row of the table at hand.
Observe(r) ==
  LET d == Devices[place[1]]
      source == Sources[place[2]]
      id == NodeOf(r)
  IN
  /\ place[1] <= Len(Devices) /\ d \in Observers /\ count < MaxRows
  /\ r \in Row(source) /\ RowAliases(r) # {}
  /\ count' = count + 1
  /\ nodes' = nodes \cup {id}
  /\ IF ManagedId(r) = {}
     THEN Learn(r, id) /\ landed' = [m \in Macs |-> IF m = r.mac THEN landed[m] \cup {id} ELSE landed[m]]
     ELSE UNCHANGED <<externalAliases, landed>>
  /\ AddEvidence(Managed(d), id, [source |-> source, device |-> d, row |-> r])
  /\ UNCHANGED <<managedAliases, place>>

\* The next table, of this router or of the next one.
NextTable ==
  /\ place[1] <= Len(Devices)
  /\ place' = IF place[2] < Len(Sources) THEN <<place[1], place[2] + 1>> ELSE <<place[1] + 1, 1>>
  /\ UNCHANGED <<managedAliases, externalAliases, nodes, links, count, landed>>

\* The manual links come last; a node they name and nobody saw is made for them.
Manual(a, b) ==
  /\ place[1] > Len(Devices) /\ count < MaxRows
  /\ a # b
  /\ count' = count + 1
  /\ nodes' = nodes \cup {a, b}
  /\ AddEvidence(a, b, [source |-> "manual", device |-> Absent, row |-> {a, b}])
  /\ UNCHANGED <<managedAliases, externalAliases, place, landed>>

\* What an administrator may have linked: routers and nodes of former graphs.
Linkable == nodes \cup {Alias("mac", m) : m \in Macs}

Next ==
  \/ \E i \in DOMAIN Sources : \E r \in Row(Sources[i]) : i = place[2] /\ Observe(r)
  \/ NextTable
  \/ \E a, b \in Linkable : Manual(a, b)

Spec == Init /\ [][Next]_trVars

-----------------------------------------------------------------------------
TypeOK ==
  /\ \A a \in Aliases : externalAliases[a] \subseteq nodes
  /\ \A l \in DOMAIN links : l \subseteq nodes /\ Cardinality(l) = 2 /\ links[l] # {}
  /\ place[1] \in 1 .. Len(Devices) + 1 /\ place[2] \in DOMAIN Sources

\* A row of a MAC that one router claims is drawn as that router; one that no
\* router is recognised by, as a node that each address of the row stands for.
Drawn(l, e) ==
  /\ e.row.mac # Absent /\ Unique(managedAliases[Alias("mac", e.row.mac)]) =>
       l = {Managed(e.device), Managed(The(managedAliases[Alias("mac", e.row.mac)]))}
  /\ ManagedId(e.row) = {} =>
       \E x \in l : l = {Managed(e.device), x} /\ \A a \in RowAliases(e.row) : x \in externalAliases[a]

\* All rows of one MAC address that are not recognised as a managed router land
\* on one node, which the MAC stands for from then on, in whatever order the
\* tables tell its addresses; a MAC that one router claims never has such a node,
\* and its links are links to that router.  Every other link is to the node each
\* address of its row stands for, as long as it stands for one: an IP that two
\* nodes had stands for none (resolveExternalAlias gives up on it), so a client
\* of which one table told the IP alone and another the MAC alone, before a third
\* told both, keeps two nodes.
OneNodePerMac ==
  /\ \A m \in Macs :
       /\ Cardinality(landed[m]) <= 1
       /\ externalAliases[Alias("mac", m)] = landed[m]
       /\ Unique(managedAliases[Alias("mac", m)]) => landed[m] = {}
  /\ \A l \in DOMAIN links : \A e \in links[l] : e.source # "manual" => Drawn(l, e)
=============================================================================

-------------------------------- MODULE Nodes --------------------------------
(***************************************************************************)
(* internal/status/nodes.go and accelerators.go: BuildNodeStats folds the  *)
(* node list into counts, one row per node, and the version and provider   *)
(* of the cluster.                                                         *)
(*                                                                         *)
(* A node is [name, ready, zone, legacy, arch, ips, capacity, allocatable, *)
(* labelled, version, provider].  "" is a label or text that is not set;   *)
(* a quantity that does not parse is negative.                             *)
(***************************************************************************)
EXTENDS Integers, Sequences, FiniteSets, SequencesExt

CONSTANTS
  Devices,    \* resource names isAcceleratorResource accepts
  Overrides   \* values of ACCELERATOR_RESOURCES, no name twice, {} to discover

ASSUME NodesAssumption == \A override \in Overrides : IsFiniteSet(override)

VARIABLES
  nodes,      \* list.Items
  accel,      \* the resources to count
  counted,    \* how many nodes BuildNodeStats has taken
  source,     \* index of the node behind versionSource and providerID
  stats       \* the counts of NodeStats

nodeVars == <<nodes, accel, counted, source, stats>>

Unknown == "unknown"   \* archUnknown, zoneUnknown

QuantityInt(q) == IF q < 0 THEN 0 ELSE q
Capacity(n, name)    == IF name \in DOMAIN n.capacity THEN QuantityInt(n.capacity[name]) ELSE 0
Allocatable(n, name) == IF name \in DOMAIN n.allocatable THEN QuantityInt(n.allocatable[name]) ELSE 0

\* What a list call returns, and the nodes of one: their names are unique, and
\* a kubelet hands out no more of a resource than its node has.
IsList(l)     == Len(l) \in Nat /\ DOMAIN l = 1..Len(l)
Quantities(n) ==
  /\ IsFiniteSet(DOMAIN n.capacity) /\ \A name \in DOMAIN n.capacity : n.capacity[name] \in Int
  /\ \A name \in DOMAIN n.allocatable :
       n.allocatable[name] \in Int /\ Allocatable(n, name) <= Capacity(n, name)
NodeList(l)   ==
  /\ IsList(l) /\ \A j, k \in DOMAIN l : l[j].name = l[k].name => j = k
  /\ \A k \in DOMAIN l : Quantities(l[k])

\* Only an explicit True: the Unknown of a node that was shut down is not.
Ready(n) == n.ready = "True"

ZoneOf(n)   == IF n.zone # "" THEN n.zone ELSE n.legacy
ZoneName(n) == IF ZoneOf(n) = "" THEN Unknown ELSE ZoneOf(n)
ArchName(n) == IF n.arch = "" THEN Unknown ELSE n.arch

\* An override replaces discovery outright.
DiscoverAccelerators(list, override) ==
  IF override # {} THEN override
  ELSE {name \in Devices : \E k \in DOMAIN list : Capacity(list[k], name) > 0}

NodeAccelerators(n) == SumFunction([name \in accel |-> Capacity(n, name)])

Mut_Class(n) ==                                  \* the label is asked for first
  CASE n.labelled -> "unschedulable"
    [] ~n.labelled /\ NodeAccelerators(n) > 0 -> "gpu"
    [] OTHER -> "cpu"
\* What kind of node the page calls it: a device counts whether or not the
\* scheduler can hand it out.
Class(n) ==
  CASE NodeAccelerators(n) > 0 -> "gpu"
    [] NodeAccelerators(n) <= 0 /\ n.labelled -> "unschedulable"
    [] OTHER -> "cpu"

NoStats == [Total |-> 0, NotReady |-> 0, CPUNodes |-> 0, GPUNodes |-> 0, GPUs |-> 0,
            Unschedulable |-> 0, arch |-> <<>>, zones |-> <<>>, perRes |-> <<>>, rows |-> {}]

NodesInit(list) ==
  /\ nodes = list
  /\ \E override \in Overrides : accel = DiscoverAccelerators(nodes, override)
  /\ counted = 0 /\ source = 0 /\ stats = NoStats

-----------------------------------------------------------------------------
(* One turn of the loop of BuildNodeStats.                                 *)

Mut_Bump(m, key, add) ==                         \* a new entry is made and not counted
  [k \in DOMAIN m \cup {key} |->
     LET old == IF k \in DOMAIN m THEN m[k] ELSE [d \in DOMAIN add |-> 0]
     IN  IF k = key /\ k \in DOMAIN m THEN [d \in DOMAIN add |-> old[d] + add[d]] ELSE old]
\* m[key] += add, in a map whose missing entries are zero.
Bump(m, key, add) ==
  [k \in DOMAIN m \cup {key} |->
     LET old == IF k \in DOMAIN m THEN m[k] ELSE [d \in DOMAIN add |-> 0]
     IN  IF k = key THEN [d \in DOMAIN add |-> old[d] + add[d]] ELSE old]

One(b) == IF b THEN 1 ELSE 0

\* The row names the first device, by name, that it can hand out.
Row(n) ==
  LET free == {name \in accel : Allocatable(n, name) > 0}
  IN  [name |-> n.name, zone |-> ZoneOf(n), arch |-> n.arch, ready |-> Ready(n),
       free |-> IF free = {} THEN 0 ELSE Allocatable(n, CHOOSE name \in free : TRUE)]

Version(k) == IF k = 0 THEN "" ELSE nodes[k].version

Mut_Source(k) == Version(source) = ""            \* the first node that has one
\* The version is that of the first node, until a ready one turns up.
Source(k) ==
  \/ Version(source) = ""
  \/ Ready(nodes[k]) /\ ~Ready(nodes[source])

Count(n) ==
  LET has == {name \in accel : Capacity(n, name) > 0}
      Held(name) == IF name \in DOMAIN stats.perRes THEN stats.perRes[name] ELSE <<0, 0>>
  IN  [Total         |-> stats.Total + 1,
       NotReady      |-> stats.NotReady + One(~Ready(n)),
       GPUNodes      |-> stats.GPUNodes + One(Class(n) # "cpu"),
       CPUNodes      |-> stats.CPUNodes + One(Class(n) = "cpu"),
       GPUs          |-> stats.GPUs + NodeAccelerators(n),
       Unschedulable |-> stats.Unschedulable + One(Class(n) = "unschedulable"),
       arch          |-> Bump(stats.arch, ArchName(n), <<1>>),
       zones         |-> Bump(stats.zones, ZoneName(n), <<1, One(Ready(n))>>),
       perRes        |-> [name \in DOMAIN stats.perRes \cup has |->
                            IF name \in has THEN <<Held(name)[1] + 1, Held(name)[2] + Capacity(n, name)>>
                            ELSE stats.perRes[name]],
       rows          |-> stats.rows \cup {Row(n)}]

CountNode ==
  /\ counted < Len(nodes)
  /\ counted' = counted + 1
  /\ stats' = Count(nodes[counted'])
  /\ source' = IF Source(counted') THEN counted' ELSE source
  /\ UNCHANGED <<nodes, accel>>

NodesDone == counted = Len(nodes)

-----------------------------------------------------------------------------
(* What other parts read off the statistics.                               *)

\* The last node of the list that advertises an address is the one a pod's
\* hostIP is taken to mean.
Addresses == UNION {nodes[k].ips : k \in DOMAIN nodes}
Host(ip)  == LET at == {k \in DOMAIN nodes : ip \in nodes[k].ips}
             IN  nodes[CHOOSE k \in at : \A j \in at : j <= k]

RoundPercent(num, den) == IF den <= 0 THEN 0 ELSE (200 * num + den) \div (2 * den)

\* Percent, GPUPercent and ArchPercent, shares of all nodes.
ReadyPercent      == RoundPercent(stats.Total - stats.NotReady, stats.Total)
GPUPercent        == RoundPercent(stats.GPUNodes, stats.Total)
ArchPercent(arch) == IF arch \in DOMAIN stats.arch
                       THEN RoundPercent(stats.arch[arch][1], stats.Total) ELSE 0

-----------------------------------------------------------------------------
(* Properties.                                                             *)

Are(P(_)) == Cardinality({k \in DOMAIN nodes : P(nodes[k])})

\* Everything the page says of the nodes is about the same nodes: each has a
\* row, is of one kind, and is counted under one architecture and one zone, in
\* which as many are ready as are not called unready; the headings are those of
\* the nodes and no others, and every share of them is a percentage.
NodesAddUp ==
  NodesDone =>
    /\ stats.Total = Len(nodes) /\ Cardinality(stats.rows) = Len(nodes)
    /\ stats.CPUNodes + stats.GPUNodes = stats.Total
    /\ stats.Unschedulable <= stats.GPUNodes
    /\ DOMAIN stats.arch = {ArchName(nodes[k]) : k \in DOMAIN nodes}
    /\ DOMAIN stats.zones = {ZoneName(nodes[k]) : k \in DOMAIN nodes}
    /\ \A a \in DOMAIN stats.arch : stats.arch[a][1] = Are(LAMBDA n : ArchName(n) = a)
    /\ \A z \in DOMAIN stats.zones :
         /\ stats.zones[z][1] = Are(LAMBDA n : ZoneName(n) = z)
         /\ stats.zones[z][2] = Are(LAMBDA n : ZoneName(n) = z /\ Ready(n))
    /\ stats.Total - stats.NotReady = Are(Ready)
    /\ {ReadyPercent, GPUPercent} \cup {ArchPercent(a) : a \in DOMAIN stats.arch} \subseteq 0..100

\* The per-resource counts make up the total of the devices, and a node whose
\* devices nobody can hand out adds none to it and is under no resource.
DevicesAddUp ==
  NodesDone =>
    /\ SumFunction([name \in DOMAIN stats.perRes |-> stats.perRes[name][2]]) = stats.GPUs
    /\ \A name \in DOMAIN stats.perRes : stats.perRes[name][1] <= stats.GPUNodes - stats.Unschedulable
    /\ Cardinality({r \in stats.rows : r.free > 0}) <= stats.GPUNodes - stats.Unschedulable

\* "read from the first Ready node found, preferred over a NotReady one since
\* a node the cloud has shut down can be stale": wherever the ready nodes
\* stand in the list, one that reports a version gives the version and the
\* provider of the cluster.
VersionIsReady ==
  NodesDone /\ (\E k \in DOMAIN nodes : Ready(nodes[k]) /\ nodes[k].version # "") =>
    /\ source # 0 /\ Ready(nodes[source]) /\ nodes[source].version # ""
    /\ \A k \in 1..(source - 1) : ~Ready(nodes[k]) \/ nodes[k].version = ""
=============================================================================

-------------------------------- MODULE Spread --------------------------------
(***************************************************************************)
(* internal/status/zones.go: FillZones joins the running pods with the     *)
(* nodes and with the workloads they belong to, and tallies zone spread,   *)
(* node spread, sidecars and effective mTLS policy, per service and per    *)
(* workload group that is not in GitOps.                                   *)
(*                                                                         *)
(* A pod is [ns, name, owner, phase, host, injected, labels].  The nodes   *)
(* come from Nodes and the mTLS policy of a pod from MeshPolicy.  A group  *)
(* is one Helm release or one workload on its own.                         *)
(***************************************************************************)
EXTENDS Integers, FiniteSets, Owners, Nodes, MeshPolicy

CONSTANTS
  Slices,    \* what an instance starts from: sets of [nodes, pods, reads], each a set
  Tracked,   \* workloads the services own: entries [ns, name, idx], in row order
  Untracked  \* workloads that are in no service: entries [ns, name, idx], idx a group

Indexes(owners) == {owners[k].idx : k \in DOMAIN owners}
Services == Indexes(Tracked)
Groups   == Indexes(Untracked)

Segments == Seq(STRING)    \* a name
PodList(l) ==
  IsList(l) /\ \A k \in DOMAIN l : l[k].ns # "" /\ l[k].name \in Segments /\ l[k].injected \in BOOLEAN
OwnerList(l) == IsList(l) /\ \A k \in DOMAIN l : l[k].name \in Segments /\ l[k].idx # Nobodys
MeshRead(r) ==
  /\ r.installed \in BOOLEAN /\ r.listed \in BOOLEAN /\ r.err \in Errors
  /\ r.default.mode \in Modes
  /\ IsList(r.list) /\ \A k \in DOMAIN r.list : r.list[k].mode \in Modes

ASSUME SpreadAssumption ==
  /\ \A slice \in Slices : /\ \A l \in slice.nodes : NodeList(l)
                           /\ \A l \in slice.pods : PodList(l)
                           /\ \A r \in slice.reads : MeshRead(r)
  /\ OwnerList(Tracked) /\ OwnerList(Untracked)

VARIABLES
  pods,      \* pods.Items
  read,      \* the mesh section and the overrides
  at,        \* the index of the loop over them
  stage,     \* which loop is running
  svc,       \* what is tallied per service
  grp,       \* what is tallied per group
  summary    \* the counters of snap.Summary that FillZones owns

vars == <<nodeVars, pods, read, at, stage, svc, grp, summary>>

None == [pods |-> 0, unplaced |-> 0, meshPods |-> 0, injected |-> 0,
         zones |-> {}, nodes |-> {}, first |-> 0]
Counters == {"Zoned", "SingleZone", "MultiZone", "SingleNode", "MultiNode",
             "MeshEligible", "MeshInjected",
             "PolicyEligible", "PolicyPermissive", "PolicyDisabled",
             "UnmanagedMeshEligible", "UnmanagedMeshInjected",
             "UnmanagedPolicyEligible", "UnmanagedPolicyPermissive"}
Zero == [c \in Counters |-> 0]

Init ==
  /\ \E slice \in Slices :
       /\ \E list \in slice.nodes : NodesInit(list)
       /\ pods \in slice.pods /\ read \in slice.reads
  /\ at = 1 /\ stage = "pods"
  /\ svc = [i \in Services |-> None] /\ grp = [i \in Groups |-> None]
  /\ summary = Zero

-----------------------------------------------------------------------------
(* FillZones: the loop over the pods, once the node list has been counted. *)

Zone(pod)   == IF pod.host \in Addresses THEN ZoneName(Host(pod.host)) ELSE Unknown
NodeOf(pod) == IF pod.host \in Addresses THEN {Host(pod.host).name} ELSE {}
InMesh(pod) == MeshNS = "" \/ pod.ns # MeshNS

Mut_AddFirstPlaced(t, k) ==                      \* an unplaced pod leaves the turn early
  LET pod == pods[k] IN
    [pods     |-> t.pods + 1,
     unplaced |-> t.unplaced + (IF Zone(pod) = Unknown THEN 1 ELSE 0),
     meshPods |-> t.meshPods + (IF InMesh(pod) THEN 1 ELSE 0),
     injected |-> t.injected + (IF InMesh(pod) /\ pod.injected THEN 1 ELSE 0),
     zones    |-> t.zones \cup ({Zone(pod)} \ {Unknown}),
     nodes    |-> t.nodes \cup NodeOf(pod),
     first    |-> IF t.first = 0 /\ Zone(pod) # Unknown THEN k ELSE t.first]
Mut_Add(t, k) ==                                 \* leaves the turn before the node is noted
  LET pod == pods[k] IN
    [pods     |-> t.pods + 1,
     unplaced |-> t.unplaced + (IF Zone(pod) = Unknown THEN 1 ELSE 0),
     meshPods |-> t.meshPods + (IF InMesh(pod) THEN 1 ELSE 0),
     injected |-> t.injected + (IF InMesh(pod) /\ pod.injected THEN 1 ELSE 0),
     zones    |-> t.zones \cup ({Zone(pod)} \ {Unknown}),
     nodes    |-> t.nodes \cup (IF Zone(pod) = Unknown THEN {} ELSE NodeOf(pod)),
     first    |-> IF t.first = 0 THEN k ELSE t.first]
\* One more pod on a tally: it counts as placed only on a node with a zone.
Add(t, k) ==
  LET pod == pods[k] IN
    [pods     |-> t.pods + 1,
     unplaced |-> t.unplaced + (IF Zone(pod) = Unknown THEN 1 ELSE 0),
     meshPods |-> t.meshPods + (IF InMesh(pod) THEN 1 ELSE 0),
     injected |-> t.injected + (IF InMesh(pod) /\ pod.injected THEN 1 ELSE 0),
     zones    |-> t.zones \cup ({Zone(pod)} \ {Unknown}),
     nodes    |-> t.nodes \cup NodeOf(pod),
     first    |-> IF t.first = 0 THEN k ELSE t.first]

\* A service is asked for first, then the groups.
FoldPod ==
  /\ NodesDone /\ stage = "pods" /\ at <= Len(pods)
  /\ LET s == OwnerIndex(Tracked, pods[at])
         g == OwnerIndex(Untracked, pods[at])
     IN \/ pods[at].phase # "Running" /\ UNCHANGED <<svc, grp>>
        \/ /\ pods[at].phase = "Running" /\ s # Nobodys
           /\ svc' = [svc EXCEPT ![s] = Add(@, at)] /\ UNCHANGED grp
        \/ /\ pods[at].phase = "Running" /\ s = Nobodys /\ g # Nobodys
           /\ grp' = [grp EXCEPT ![g] = Add(@, at)] /\ UNCHANGED svc
        \/ s = Nobodys /\ g = Nobodys /\ UNCHANGED <<svc, grp>>
  /\ at' = at + 1
  /\ UNCHANGED <<nodeVars, pods, read, stage, summary>>

-----------------------------------------------------------------------------
(* The loops over the rows and the groups.                                 *)

\* resolvePolicy: the pod that was seen first speaks for the row.
Policy(t) ==
  IF t.first # 0 /\ Asked(read) THEN ResolveServicePolicy(read, pods[t.first]) ELSE NoPolicy

Zoned(t)  == t.zones # {}
Meshed(t) == t.meshPods > 0
Full(t)   == Meshed(t) /\ t.injected = t.meshPods

Of(tallies, P(_)) == Cardinality({i \in DOMAIN tallies : P(tallies[i])})

Mut_TalliedPodless ==                            \* a row counts as zoned once it has a pod
  LET z(t) == t.pods > 0  z1(t) == Cardinality(t.zones) = 1  zn(t) == Cardinality(t.zones) > 1
      n1(t) == Cardinality(t.nodes) = 1  nn(t) == Cardinality(t.nodes) > 1
      Both(P(_)) == Of(svc, P) + Of(grp, P)
  IN  [c \in Counters |->
         CASE c = "Zoned" -> Both(z) [] c = "SingleZone" -> Both(z1) [] c = "MultiZone" -> Both(zn)
           [] c = "SingleNode" -> Both(n1) [] c = "MultiNode" -> Both(nn) [] OTHER -> 0]
OneZone(t)    == Cardinality(t.zones) = 1
ManyZones(t)  == Cardinality(t.zones) > 1
OneNode(t)    == Cardinality(t.nodes) = 1
ManyNodes(t)  == Cardinality(t.nodes) > 1
Judged(t)     == Policy(t).scope # "" /\ Policy(t).effective \in {"strict", "permissive", "disabled"}
Permissive(t) == Policy(t).effective = "permissive"
Disabled(t)   == Policy(t).effective = "disabled"

\* Zones and nodes of services and groups go into the same counters; sidecars
\* and policies are kept apart.
Tallied ==
  LET Both(P(_)) == Of(svc, P) + Of(grp, P) IN
    [Zoned |-> Both(Zoned), SingleZone |-> Both(OneZone), MultiZone |-> Both(ManyZones),
     SingleNode |-> Both(OneNode), MultiNode |-> Both(ManyNodes),
     MeshEligible |-> Of(svc, Meshed), MeshInjected |-> Of(svc, Full),
     PolicyEligible |-> Of(svc, Judged), PolicyPermissive |-> Of(svc, Permissive),
     PolicyDisabled |-> Of(svc, Disabled),
     UnmanagedMeshEligible |-> Of(grp, Meshed), UnmanagedMeshInjected |-> Of(grp, Full),
     UnmanagedPolicyEligible |-> Of(grp, Judged), UnmanagedPolicyPermissive |-> Of(grp, Permissive)]

Tally ==
  /\ NodesDone /\ stage = "pods" /\ at > Len(pods)
  /\ stage' = "done" /\ summary' = Tallied
  /\ UNCHANGED <<nodeVars, pods, read, at, svc, grp>>

Next ==
  \/ CountNode /\ UNCHANGED <<pods, read, at, stage, svc, grp, summary>>
  \/ FoldPod
  \/ Tally

Spec == Init /\ [][Next]_vars

\* The gauges.
HA       == RoundPercent(summary["MultiZone"], summary["Zoned"])
NodeHA   == RoundPercent(summary["MultiNode"], summary["SingleNode"] + summary["MultiNode"])
MeshHA   == IF read.installed THEN RoundPercent(summary["MeshInjected"], summary["MeshEligible"]) ELSE 0
PolicyHA == RoundPercent(summary["PolicyEligible"] - summary["PolicyPermissive"]
                           - summary["PolicyDisabled"], summary["PolicyEligible"])

-----------------------------------------------------------------------------
(* Properties.                                                             *)

Runs == {k \in DOMAIN pods : pods[k].phase = "Running"}
OfService(i) == {k \in Runs : OwnerIndex(Tracked, pods[k]) = i}
OfGroup(i)   == {k \in Runs : OwnerIndex(Tracked, pods[k]) = Nobodys
                              /\ OwnerIndex(Untracked, pods[k]) = i}

\* What a set of pods amounts to, whatever order they came in.
Amounts(t, ks) ==
  LET placed == {k \in ks : Zone(pods[k]) # Unknown}
      meshed == {k \in ks : InMesh(pods[k])}
  IN  /\ t.pods = Cardinality(ks)
      /\ t.unplaced = Cardinality(ks \ placed)
      /\ t.zones = {Zone(pods[k]) : k \in placed}
      /\ t.nodes = UNION {NodeOf(pods[k]) : k \in ks}
      /\ t.meshPods = Cardinality(meshed)
      /\ t.injected = Cardinality({k \in meshed : pods[k].injected})

\* What the names make a pod's own, of one list: the workloads of its namespace
\* that its reference names, or else those with the longest name it continues.
ByName(owners, pod) ==
  LET refs == Referenced(owners, pod)
      near == Continued(owners, pod)
      Longest(k) == \A j \in near : Len(owners[j].name) <= Len(owners[k].name)
  IN  {owners[k].idx : k \in IF refs # {} THEN refs ELSE {j \in near : Longest(j)}}

\* A running pod counts for exactly one row of those its names point to: a
\* service, or a group when they point to no service.
JoinedByName ==
  \A k \in Runs :
    LET own   == ByName(Tracked, pods[k])
        other == ByName(Untracked, pods[k])
        s     == {i \in Services : k \in OfService(i)}
        g     == {i \in Groups : k \in OfGroup(i)}
    IN  /\ own # {} => g = {} /\ \E i \in own : s = {i}
        /\ own = {} => s = {} /\ IF other = {} THEN g = {} ELSE \E i \in other : g = {i}

\* Each row and each group is tallied from the running pods that are joined to
\* it and from nothing else, in whatever order the server listed them; it names
\* no zone that the node statistics do not; and pods are joined by their names:
\* to a service whose workload the reference names, or else to the longest name
\* of a service's workload that theirs continues, and only then to a group.
\* That is not to say that "api" claims no pod of "api-canary" (pending.go): of
\* one whose reference names a workload of a group, it does, since the services
\* are asked by name as well before the groups are asked at all.
TalliesAgree ==
  stage = "done" =>
    /\ JoinedByName
    /\ (UNION {svc[i].zones : i \in Services}) \cup (UNION {grp[i].zones : i \in Groups})
         \subseteq DOMAIN stats.zones
    /\ \A i \in Services : Amounts(svc[i], OfService(i))
    /\ \A i \in Groups : Amounts(grp[i], OfGroup(i))

\* The spread gauges are parted without remainder, and no row is at risk in a
\* zone nobody knows: every row that counts has a placed pod.  "A not-in-gitops
\* workload gaining or losing its sidecar must not move a percentage that
\* claims to be about services": the Istio gauges cover services with pods
\* outside the mesh namespace and no one else, and what is neither permissive
\* nor disabled is strict.
GaugesPart ==
  stage = "done" =>
    /\ summary["Zoned"] = summary["SingleZone"] + summary["MultiZone"]
    /\ summary["Zoned"] = Cardinality({i \in Services : svc[i].pods > svc[i].unplaced})
                        + Cardinality({i \in Groups : grp[i].pods > grp[i].unplaced})
    /\ summary["SingleZone"] + summary["MultiZone"] <= summary["SingleNode"] + summary["MultiNode"]
    /\ summary["MeshInjected"] <= summary["MeshEligible"]
    /\ summary["MeshEligible"] =
         Cardinality({i \in Services : \E k \in OfService(i) : InMesh(pods[k])})
    /\ summary["PolicyEligible"] - summary["PolicyPermissive"] - summary["PolicyDisabled"] =
         Cardinality({i \in Services : Policy(svc[i]).effective = "strict"})
    /\ {HA, NodeHA, MeshHA, PolicyHA} \subseteq 0..100

\* Its policy is "resolved from the namespace and labels of any one
\* of its running pods": it is one of theirs, whichever the server listed
\* first and wherever it was placed, and where they agree it is the answer
\* of all of them.  A row without a running pod has none.
OwnPolicy ==
  stage = "done" /\ Asked(read) =>
    LET Own(t, ks) ==
          LET theirs == {ResolveServicePolicy(read, pods[k]) : k \in ks}
          IN  IF theirs = {} THEN Policy(t) = NoPolicy ELSE Policy(t) \in theirs
    IN  /\ \A i \in Services : Own(svc[i], OfService(i))
        /\ \A i \in Groups : Own(grp[i], OfGroup(i))

Modal(r, ks) == {r.list[k].mode : k \in ks} \ {"UNSET"}

\* The precedence of Istio, wherever it defines one: with at most one object
\* per scope, the narrowest mode that is set holds, and outside the mesh
\* namespace only.  Where two objects of one scope apply, the first the server
\* listed is used, so that the answer does not flip between refreshes.
IstiosPrecedence ==
  stage = "done" /\ Asked(read) =>
    \A k \in Runs :
      LET policy == ResolveServicePolicy(read, pods[k])
          w == WorkloadScoped(read, pods[k])
          n == NamespaceScoped(read, pods[k])
          mesh == pods[k].ns = MeshNS
      IN  /\ Cardinality(w) <= 1 /\ Cardinality(n) <= 1 =>
               policy.effective =
                 CASE ~mesh /\ Modal(read, w) # {} -> MeshMode(CHOOSE m \in Modal(read, w) : TRUE)
                   [] ~mesh /\ Modal(read, w) = {} /\ Modal(read, n) # {} ->
                        MeshMode(CHOOSE m \in Modal(read, n) : TRUE)
                   [] OTHER -> Section(read).effective
          /\ policy.scope = "workload" => policy.effective = MeshMode(read.list[FirstOf(w)].mode)
          /\ policy.scope = "namespace" => policy.effective = MeshMode(read.list[FirstOf(n)].mode)

\* Every row has a policy of one of its own pods, and that is Istio's.
PolicyIsOwn == OwnPolicy /\ IstiosPrecedence

\* A read that was denied or failed is no fact about mTLS: no row has a policy
\* from it, at any scope, and none is counted, nor in a cluster without a mesh
\* or without the list of overrides.
NothingFromFailure ==
  stage = "done" /\ (~read.installed \/ read.err \in {"denied", "failed"} \/ ~read.listed) =>
    /\ \A i \in Services : Policy(svc[i]) = NoPolicy
    /\ \A i \in Groups : Policy(grp[i]) = NoPolicy
    /\ summary["PolicyEligible"] = 0 /\ summary["UnmanagedPolicyEligible"] = 0
    /\ PolicyHA = 0
=============================================================================

----------------------------- MODULE MeshPolicy -----------------------------
(***************************************************************************)
(* internal/status/mesh.go: BuildMesh classifies the mesh-wide policy      *)
(* read, and ResolveServicePolicy looks through the PeerAuthentications of *)
(* the cluster for one workload's own effective mTLS mode.                 *)
(*                                                                         *)
(* A read is [installed, err, default, listed, list]: whether Istio is     *)
(* there, how the mesh-wide object was read and what it says, and the list *)
(* of all objects, if it was read.  A PeerAuthentication is [ns, selector, *)
(* mode], its selector a function from label keys to values; a pod has a   *)
(* namespace ns and labels.  The reads themselves are in Collector.        *)
(***************************************************************************)
EXTENDS Integers, Sequences, FiniteSets

CONSTANT MeshNS    \* meshNamespace, "" when MESH_MTLS is off

Modes  == {"STRICT", "PERMISSIVE", "DISABLE", "UNSET"}
Errors == {"none", "notFound", "denied", "failed"}

-----------------------------------------------------------------------------
(* BuildMesh.                                                              *)

\* At mesh level UNSET is Istio's own default.
MeshMode(mode) ==
  CASE mode = "STRICT" -> "strict" [] mode = "DISABLE" -> "disabled" [] OTHER -> "permissive"

\* A 404 is an answer, any other failure is none.
Section(r) ==
  [installed |-> r.installed,
   err       |-> r.installed /\ r.err \in {"denied", "failed"},
   effective |-> CASE ~r.installed -> "none"
                   [] r.installed /\ r.err = "none" -> MeshMode(r.default.mode)
                   [] r.installed /\ r.err = "notFound" -> "permissive"
                   [] OTHER -> ""]

-----------------------------------------------------------------------------
(* ResolveServicePolicy, and the conditions resolvePolicy puts on it.      *)

NoPolicy == [effective |-> "", scope |-> ""]

Get(labels, key) == IF key \in DOMAIN labels THEN labels[key] ELSE ""

SelectorMatches(selector, labels) ==
  selector # <<>> /\ \A key \in DOMAIN selector : Get(labels, key) = selector[key]

\* What can set the mode of a pod at each scope, as indexes of the list.
WorkloadScoped(r, pod) ==
  {k \in DOMAIN r.list : r.list[k].ns = pod.ns /\ SelectorMatches(r.list[k].selector, pod.labels)}
NamespaceScoped(r, pod) ==
  {k \in DOMAIN r.list : r.list[k].ns = pod.ns /\ r.list[k].selector = <<>>}

\* The first of them in the order of the list is the one that counts, and it
\* sets nothing when it is UNSET.
FirstOf(ks) == CHOOSE k \in ks : \A j \in ks : k <= j
Sets(r, ks) == ks # {} /\ r.list[FirstOf(ks)].mode # "UNSET"

Mut_Asked(r) == r.installed /\ r.listed          \* without the error of the section
Asked(r) == Section(r).installed /\ ~Section(r).err /\ r.listed

\* No scope narrower than the mesh exists in the mesh's own namespace.
Narrow(pod) == pod.ns \notin {"", MeshNS}

\* UNSET falls through to the next broader scope.
ResolveServicePolicy(r, pod) ==
  LET w == WorkloadScoped(r, pod)  n == NamespaceScoped(r, pod) IN
    CASE Narrow(pod) /\ Sets(r, w) ->
           [effective |-> MeshMode(r.list[FirstOf(w)].mode), scope |-> "workload"]
      [] Narrow(pod) /\ ~Sets(r, w) /\ Sets(r, n) ->
           [effective |-> MeshMode(r.list[FirstOf(n)].mode), scope |-> "namespace"]
      [] OTHER -> [effective |-> Section(r).effective, scope |-> "mesh"]
=============================================================================

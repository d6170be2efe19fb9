------------------------------ MODULE Unmanaged ------------------------------
(***************************************************************************)
(* internal/status: BuildUnmanaged selects the workloads no GitOps         *)
(* controller claims, folds each Helm release into one row, and sorts the  *)
(* rows worst first.                                                       *)
(*                                                                         *)
(* ListWorkloads appends its three kinds in the order they answer, so the  *)
(* list may come in any order, and what a row says of a release must not   *)
(* depend on it.  Whether Flux installed a release is known only from the  *)
(* HelmReleases read earlier in the same Get, if they were read.           *)
(*                                                                         *)
(* A workload is what its labels, owners and counters say: [ns, name,      *)
(* owned, tracked, kustomize, instance, helm, argo, ready, desired, tag,   *)
(* app].  Names and namespaces are numbers, in alphabetical order.         *)
(***************************************************************************)
EXTENDS Integers, Sequences, FiniteSets, Functions

CONSTANTS
  Lists,      \* the sets of workloads a read may answer with
  Installed,  \* the sets of HelmReleases Flux may have: [ns, name, target, as]
  IgnoredNS   \* namespaces matched by UNMANAGED_IGNORE_NAMESPACES

None == 0     \* a label, or a field of a HelmRelease, that is not there
NoRelease == <<>>

Workload ==
  [ns : Nat \ {None}, name : Nat \ {None}, owned : BOOLEAN, tracked : BOOLEAN, kustomize : BOOLEAN,
   instance : Nat, helm : BOOLEAN, argo : BOOLEAN,
   ready : Nat, desired : Nat, tag : STRING, app : STRING]
HelmRelease == [ns : Nat \ {None}, name : Nat \ {None}, target : Nat, as : Nat]

ASSUME UnmanagedAssumption ==
  /\ \A l \in Lists : IsFiniteSet(l) /\ l \subseteq Workload
  /\ \A h \in Installed : h \subseteq HelmRelease
  /\ IgnoredNS \subseteq Nat

VARIABLES
  list,     \* the WorkloadList that was read
  flux,     \* c.fluxList.HelmReleases; {} when Flux is off or was not read
  stage,    \* the loop that is running: "scan", "collapse", "sort", "done"
  todo,     \* workloads not scanned yet
  items,    \* the rows the scan selected and collapse has not taken yet
  out,      \* the rows of the section
  scanned, ignored

vars == <<list, flux, stage, todo, items, out, scanned, ignored>>

Init ==
  /\ list \in Lists /\ flux \in Installed
  /\ stage = "scan" /\ todo = list
  /\ items = <<>> /\ out = <<>> /\ scanned = 0 /\ ignored = 0

-----------------------------------------------------------------------------
(* Who manages a workload.                                                 *)

Default(v, d) == IF v = None THEN d ELSE v
ReleaseKey(h) == <<Default(h.target, h.ns), Default(h.as, h.name)>>
ReleaseOf(w)  == IF w.instance # None /\ w.helm THEN <<w.ns, w.instance>> ELSE NoRelease

FluxReleaseKeys == {ReleaseKey(h) : h \in flux}

Mut_IsUnmanaged(w) ==                            \* the managed-by label alone
  /\ ~w.owned /\ ~w.tracked /\ ~w.kustomize /\ ~w.argo
  /\ w.instance # None => w.helm
IsUnmanaged(w) ==
  /\ ~w.owned /\ ~w.tracked /\ ~w.kustomize /\ ~w.argo
  /\ w.instance # None => w.helm /\ ReleaseOf(w) \notin FluxReleaseKeys

WorkloadState(w) ==
  CASE w.desired = 0       -> "SUSPENDED"
    [] w.desired > w.ready -> "DEGRADED"
    [] OTHER               -> "OK"

Severity == [DEGRADED |-> 0, SUSPENDED |-> 5, OK |-> 6]

Row(w) ==
  [ns |-> w.ns, name |-> w.name, release |-> ReleaseOf(w), members |-> 1,
   ready |-> w.ready, desired |-> w.desired, state |-> WorkloadState(w),
   version |-> w.tag, app |-> w.app]

-----------------------------------------------------------------------------
(* The three loops.                                                        *)

Scan(w) ==
  /\ stage = "scan" /\ w \in todo
  /\ todo' = todo \ {w} /\ scanned' = scanned + 1
  /\ stage' = IF todo' = {} THEN "collapse" ELSE "scan"
  /\ ignored' = IF IsUnmanaged(w) /\ w.ns \in IgnoredNS THEN ignored + 1 ELSE ignored
  /\ items' = IF IsUnmanaged(w) /\ w.ns \notin IgnoredNS THEN Append(items, Row(w)) ELSE items
  /\ UNCHANGED <<list, flux, out>>

\* An empty list has nothing to scan.
ScanNothing ==
  /\ stage = "scan" /\ todo = {}
  /\ stage' = "collapse"
  /\ UNCHANGED <<list, flux, todo, items, out, scanned, ignored>>

\* at[release]: where the row of a release is, if there is one.
At(r) == {i \in DOMAIN out : r # NoRelease /\ out[i].release = r}

\* The first member gives the row its place; Helm's version beats a tag.
Founded(row) ==
  IF row.release = NoRelease THEN row
  ELSE [row EXCEPT !.name = row.release[2],
                   !.version = IF row.app # "" THEN row.app ELSE @]

Worse(a, b) == IF Severity[a] < Severity[b] THEN a ELSE b

Mut_JoinedForgetsMember(g, row) ==               \* sums the counters only
  [g EXCEPT !.ready = @ + row.ready, !.desired = @ + row.desired,
            !.state = Worse(row.state, @),
            !.version = IF g.app = "" /\ @ # row.version THEN "mixed" ELSE @]
Mut_JoinedKeepsState(g, row) ==                  \* the last member's state wins
  [g EXCEPT !.members = @ + 1, !.ready = @ + row.ready, !.desired = @ + row.desired,
            !.state = row.state,
            !.version = IF g.app = "" /\ @ # row.version THEN "mixed" ELSE @]
Joined(g, row) ==
  [g EXCEPT !.members = @ + 1, !.ready = @ + row.ready, !.desired = @ + row.desired,
            !.state = Worse(row.state, @),
            !.version = IF g.app = "" /\ @ # row.version THEN "mixed" ELSE @]

Collapse ==
  /\ stage = "collapse"
  /\ IF items = <<>>
       THEN stage' = "sort" /\ UNCHANGED <<items, out>>
       ELSE LET row == Head(items) IN
              /\ items' = Tail(items) /\ UNCHANGED stage
              /\ IF At(row.release) = {}
                   THEN out' = Append(out, Founded(row))
                   ELSE \E i \in At(row.release) : out' = [out EXCEPT ![i] = Joined(@, row)]
  /\ UNCHANGED <<list, flux, todo, scanned, ignored>>

Before(a, b) ==
  \/ Severity[a.state] < Severity[b.state]
  \/ Severity[a.state] = Severity[b.state] /\ a.ns < b.ns
  \/ Severity[a.state] = Severity[b.state] /\ a.ns = b.ns /\ a.name < b.name

\* sort.Slice: any arrangement in which no row comes before one it follows.
Sort ==
  /\ stage = "sort" /\ stage' = "done"
  /\ \E p \in Bijection(DOMAIN out, DOMAIN out) :
       /\ \A i, j \in DOMAIN out : i < j => ~Before(out[p[j]], out[p[i]])
       /\ out' = [i \in DOMAIN out |-> out[p[i]]]
  /\ UNCHANGED <<list, flux, todo, items, scanned, ignored>>

Next == (\E w \in list : Scan(w)) \/ ScanNothing \/ Collapse \/ Sort

Spec == Init /\ [][Next]_vars

\* The tile of all workloads, of the same list.
BuildWorkloadStats ==
  [total   |-> Cardinality(list), ready |-> SumFunction([w \in list |-> w.ready]),
   desired |-> SumFunction([w \in list |-> w.desired])]

-----------------------------------------------------------------------------
(* Properties.                                                             *)

Claimed == {w \in list : w.owned \/ w.tracked \/ w.kustomize \/ w.argo}

Members(r) == {w \in list : ReleaseOf(w) = r /\ IsUnmanaged(w) /\ w.ns \notin IgnoredNS}

\* Every workload of the list is accounted for once: claimed by somebody,
\* ignored, or a member of exactly one row; and the rows never promise more
\* replicas than the tile of all workloads counts.
AccountedOnce ==
  LET listed == SumFunction([i \in DOMAIN out |-> out[i].members]) IN
    /\ scanned = BuildWorkloadStats.total
    /\ listed + ignored + Cardinality(Claimed) <= scanned
    /\ listed + ignored + Cardinality({w \in list : ~IsUnmanaged(w)}) = scanned
    /\ SumFunction([i \in DOMAIN out |-> out[i].desired]) <= BuildWorkloadStats.desired
    /\ \A i, j \in DOMAIN out :
         out[i].release = out[j].release /\ out[i].release # NoRelease => i = j

\* In whatever order the kinds answered, a release that misses a replica
\* anywhere is DEGRADED ("a broken component is never hidden by healthy
\* siblings"), its counters are the sums over its members, and without a
\* version from Helm it shows the tag its members share, or "mixed".
Whole(row, ms) ==
  /\ row.state = "DEGRADED" <=> \E w \in ms : w.ready < w.desired
  /\ row.state = "SUSPENDED" => \E w \in ms : w.desired = 0
  /\ row.members = Cardinality(ms)
  /\ row.ready = SumFunction([w \in ms |-> w.ready])
  /\ row.desired = SumFunction([w \in ms |-> w.desired])
  /\ (\A w \in ms : w.app = "") =>
       \/ \A w \in ms : row.version = w.tag
       \/ row.version = "mixed" /\ \E v, w \in ms : v.tag # w.tag

\* The rows of a finished section amount to the workloads of the list: each of
\* them once, and each Helm release as a whole.
RowsAddUp ==
  stage = "done" =>
    /\ AccountedOnce
    /\ \A i \in DOMAIN out :
         out[i].release # NoRelease => Whole(out[i], Members(out[i].release))

\* Nothing that Flux is known to have installed is listed as unmanaged, under
\* whatever name and namespace its HelmRelease had it installed.
FluxIsNotListed ==
  \A i \in DOMAIN out : \A h \in flux :
    ~(/\ out[i].release # NoRelease
      /\ out[i].ns = (IF h.target # None THEN h.target ELSE h.ns)
      /\ out[i].name = (IF h.as # None THEN h.as ELSE h.name))

=============================================================================

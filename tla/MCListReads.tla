---------------------------- MODULE MCListReads -----------------------------
(* Six pods in pages of two, and up to four of ten workloads: three of one *)
(* Helm release, one of its name in another namespace, one of a release    *)
(* Flux installed, two unclaimed, one ignored, and three claimed otherwise. *)
EXTENDS ListReads, FiniteSetsExt, TLC

Plain(ns, name) ==
  [ns |-> ns, name |-> name, owned |-> FALSE, tracked |-> FALSE, kustomize |-> FALSE,
   instance |-> None, helm |-> FALSE, argo |-> FALSE,
   ready |-> 1, desired |-> 1, tag |-> "t1", app |-> ""]

Helm(ns, name, release, ready, desired, tag, app) ==
  [Plain(ns, name) EXCEPT !.instance = release, !.helm = TRUE,
                          !.ready = ready, !.desired = desired, !.tag = tag, !.app = app]

Pool == { Helm(1, 1, 9, 0, 1, "t1", ""), Helm(1, 2, 9, 2, 1, "t1", ""), Helm(1, 3, 9, 0, 0, "t2", "v1"),
          Helm(2, 1, 9, 1, 1, "t1", ""), Helm(2, 2, 8, 1, 1, "t3", "v3"),
          Plain(1, 9), [Plain(3, 1) EXCEPT !.desired = 2], [Plain(1, 4) EXCEPT !.owned = TRUE],
          [Plain(1, 5) EXCEPT !.instance = 5], [Plain(2, 6) EXCEPT !.kustomize = TRUE] }

Clusters == UNION {kSubset(k, Pool) : k \in 0..4}

\* Flux not read; a HelmRelease of its own name; one installed elsewhere.
Charts == { {}, { [ns |-> 2, name |-> 8, target |-> None, as |-> None] },
            { [ns |-> 3, name |-> 7, target |-> 1, as |-> 9] } }

\* The members of a release are of different kinds.
Kinds == [w \in Pool |-> CASE w.name = 1 -> "Deployment" [] w.name = 2 -> "StatefulSet" [] OTHER -> "DaemonSet"]
=============================================================================

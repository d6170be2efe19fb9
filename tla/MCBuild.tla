------------------------------- MODULE MCBuild -------------------------------
(* An app-of-apps 9 with the children 1 and 2 before and after it, and Flux *)
(* objects named like them: every child and every condition in turn.        *)
EXTENDS Build, TLC

App(n, kids, pruned, strays, phase, health, sync) ==
  [name |-> n, kids |-> kids, pruned |-> pruned, strays |-> strays, phase |-> phase,
   health |-> health, sync |-> sync]
Flux(n, kind, suspend, ready, reconciling, stalled) ==
  [name |-> n, ns |-> 1, kind |-> kind, suspend |-> suspend, ready |-> ready,
   reconciling |-> reconciling, stalled |-> stalled]

Child(n, health, sync) == App(n, {}, {}, {}, "Succeeded", health, sync)

Trees(as, bs) ==
  {<<a, App(5, kids, pruned, strays, phase, "Healthy", "Synced"), b>> :
     a \in as, b \in bs, kids \in {{}, {1, 9}}, pruned \in {{}, {1}}, strays \in {{}, {1}},
     phase \in {"Running", "Succeeded"}}

AllTrees == Trees({Child(1, h, s) : h \in Healths, s \in Syncs},
                  {Child(9, h, s) : h \in {"Healthy", "Degraded"}, s \in {"Synced", "OutOfSync"}})
FewTrees == {<<>>} \cup {<<Child(1, "Healthy", "Synced"),
                           App(5, {1}, {}, {1}, "Succeeded", "Healthy", "Synced")>>}

AllFlux == {<<Flux(1, "HelmRelease", s, r, c, t), Flux(n, "Kustomization", FALSE, "True", "None", "None")>> :
              s \in BOOLEAN, r \in Conditions, c \in {"None", "True", "False"},
              t \in {"None", "True"}, n \in {1, 2}}
FewFlux == {<<>>, <<Flux(1, "HelmRelease", TRUE, "True", "None", "None")>>}

Pairs(trees, objects) == {[apps |-> t, flux |-> f] : t \in trees, f \in objects}
AllInputs == Pairs(AllTrees, FewFlux) \cup Pairs(FewTrees, AllFlux)
=============================================================================

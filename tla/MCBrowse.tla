------------------------------ MODULE MCBrowse ------------------------------
(* Three services and two workloads outside GitOps, each told apart by some *)
(* filter, and a third workload in an ignored namespace; a second snapshot  *)
(* without a mesh or a list of workloads; and URLs that no link produces.   *)
EXTENDS Browse

Svc(state, gpu, alloc, arch, blocked, zones, nodes, injected, policy) ==
  [state |-> state, sync |-> IF gpu THEN "" ELSE "synced", gpu |-> gpu, alloc |-> alloc, arch |-> arch,
   blocked |-> blocked, zones |-> zones, nodes |-> nodes, pods |-> 2, injected |-> injected, policy |-> policy]
Outside(zones, nodes, injected, policy) ==
  [zones |-> zones, nodes |-> nodes, pods |-> 2, injected |-> injected, policy |-> policy]

Broken  == Svc("DEGRADED", TRUE, "waiting", "", "accelerator", 0, 0, 2, "")
Arm     == Svc("OK", FALSE, "", "arm64", "", 1, 1, 1, "permissive")
Serving == Svc("OK", TRUE, "running", "amd64", "", 2, 2, 2, "strict")
Waiting == Svc("WARNING", FALSE, "", "arm64", "cpu", 1, 2, 0, "")

Busy == [services |-> <<Broken, Arm, Serving>>, outside |-> TRUE, mesh |-> TRUE,
         items |-> <<Outside(1, 1, 2, "permissive"), Outside(1, 2, 0, "")>>,
         ignored |-> <<Outside(1, 1, 0, "")>>]
Bare == [services |-> <<Waiting, Arm>>, outside |-> FALSE, mesh |-> FALSE,
         items |-> <<>>, ignored |-> <<>>]

TwoSnapshots == {Busy, Bare}

Q(k, v)        == [Clean EXCEPT ![k] = Plain(v)]
Both(j, v, k, w) == [Q(j, v) EXCEPT ![k] = Plain(w)]

Queries ==
  { [Clean EXCEPT !["sync"] = {"unknown"}, !["status"] = {"DEGRADED", "bananas"}],
    Both("view", "unmanaged", "arch", "arm64"), Both("spread", "zone", "mesh", "permissive"),
    [Clean EXCEPT !["arch"] = [word |-> "arm64", padded |-> TRUE]],
    [Clean EXCEPT !["status"] = {"bananas"}], Both("gpu", "yes", "spread", "zone"),
    Q("view", "typo"), Q("gpu", "yes"), Q("gpu", "false"), Q("blocked", "true"), Q("blocked", "disk"),
    Q("spread", "rack"), Q("mesh", "strict") }

ByHand == [q : Queries, refresh : {NotSet}] \cup [q : {Clean}, refresh : {1, 9999}]
=============================================================================

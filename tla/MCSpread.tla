------------------------------- MODULE MCSpread -------------------------------
(* Service 1 owns api, service 2 owns api-web and db; groups 1 to 3 are  *)
(* api-canary with its database, a gateway in the mesh namespace, and an     *)
(* api-canary right beside api.  Three slices of the inputs: every list of   *)
(* pods on three nodes, every list of nodes, and every mesh read.            *)
EXTENDS Spread, TLC

Api == <<"api">>  Web == <<"api", "web">>  Canary == <<"api", "canary">>
Db == <<"db">>  Gateway == <<"gateway">>

TrackedApps == <<[ns |-> "app", name |-> Api, idx |-> 1], [ns |-> "app", name |-> Web, idx |-> 2],
                 [ns |-> "app", name |-> Db, idx |-> 2]>>
UntrackedApps == <<[ns |-> "ops", name |-> Canary, idx |-> 1], [ns |-> "ops", name |-> Db, idx |-> 1],
                   [ns |-> "mesh", name |-> Gateway, idx |-> 2],
                   [ns |-> "app", name |-> Canary, idx |-> 3]>>

\* A card that is cut into slices is not handed out whole.
Free(capacity) == [r \in DOMAIN capacity |-> IF r = "gpu" /\ "mig" \in DOMAIN capacity THEN 0 ELSE capacity[r]]
Node(name, ready, zone, arch, ips, capacity, labelled, version) ==
  [name |-> name, ready |-> ready, zone |-> zone, legacy |-> IF name = "n2" THEN "z2" ELSE "",
   arch |-> arch, ips |-> ips, capacity |-> capacity, allocatable |-> Free(capacity),
   labelled |-> labelled, version |-> version, provider |-> "aws:"]
Plain(name, zone, ip) == Node(name, "True", zone, "arm64", {ip}, <<>>, FALSE, "1.32")

ThreeNodes == <<Plain("n1", "z1", "a"), Plain("n2", "", "b"), Plain("n3", "", "c")>>

\* "mig" and "gpu" are devices, "eni" is a resource that is none.
AllDevices == {"gpu", "mig"}
AllOverrides == {{}, {"mig"}}
Capacities == {<<>>, "gpu" :> 1, "gpu" :> -1 @@ "mig" :> 2, "eni" :> 3, "gpu" :> 1 @@ "mig" :> 2}
Kinds == {Node("n", r, z, "amd64", {"a"}, c, l, v) :
            r \in {"True", "Unknown"}, z \in {"", "z1"}, c \in Capacities, l \in BOOLEAN, v \in {"", "1.31"}}
Named(n, name) == [n EXCEPT !.name = name, !.legacy = IF name = "m2" THEN "z2" ELSE ""]
Mixed  == {n \in Kinds : n.labelled = (n.capacity = <<>>)}
Few    == {n \in Mixed : n.zone = "" /\ n.capacity \in {<<>>, "eni" :> 3}}
AllNodeLists == {<<>>, ThreeNodes} \cup {<<Named(m, "m1")>> : m \in Kinds}
                  \cup {<<Named(m, "m1"), Named(n, "m2")>> : m \in Mixed, n \in Mixed}
                  \cup {<<Named(m, "m1"), Plain("n2", "z2", "b"), Named(n, "m2")>> : m \in Few, n \in Few}
                  \cup {<<Named(l, "m1"), Named(m, "m2"), Named(n, "m3")>> : l \in Few, m \in Few, n \in Few}

Pod(ns, w, owner, phase, host, injected, labels) ==
  [ns |-> ns, name |-> w \o <<"x1">>, owner |-> owner, phase |-> phase, host |-> host,
   injected |-> injected, labels |-> labels]

None1 == <<>>  App == "app" :> "api"
Homes == {<<"app", Api>>, <<"app", Web>>, <<"app", Db>>, <<"ops", Canary>>, <<"ops", Db>>,
          <<"mesh", Gateway>>, <<"ops", Gateway>>}
Running1 == {Pod(h[1], h[2], h[2], "Running", n, i, l) :
               h \in Homes, n \in {"a", "b", "c", "gone"}, i \in BOOLEAN, l \in {None1, App}}
Loose    == {Pod("app", Web, NoOwner, "Running", "a", FALSE, None1),
             Pod("app", Api, Api, "Pending", "", FALSE, App),
             Pod("app", Canary, Canary, "Running", "b", TRUE, App)}
AllPods == {<<>>} \cup {<<p>> : p \in Running1} \cup {<<p, q>> : p \in Running1 \cup Loose, q \in Running1}
             \cup {<<p, q, r>> : p \in Loose, q \in {x \in Running1 : x.injected}, r \in Loose}

Selectors == {<<>>, App, "app" :> ""}
PA(ns, selector, mode) == [ns |-> ns, selector |-> selector, mode |-> mode]
PAs == {PA("app", s, m) : s \in Selectors, m \in Modes}
        \cup {PA("mesh", <<>>, "DISABLE"), PA("ops", <<>>, "STRICT")}
Lists == {<<>>} \cup {<<p>> : p \in PAs} \cup {<<p, q>> : p \in PAs, q \in PAs}

Read(installed, err, mode, listed, list) ==
  [installed |-> installed, err |-> err, default |-> PA("mesh", <<>>, mode), listed |-> listed, list |-> list]
AllReads == {Read(TRUE, e, m, TRUE, l) : e \in Errors, m \in {"STRICT", "UNSET"}, l \in Lists}
             \cup {Read(i, e, "UNSET", FALSE, <<>>) : i \in BOOLEAN, e \in Errors}
Off   == Read(FALSE, "none", "UNSET", FALSE, <<>>)
Split == Read(TRUE, "none", "STRICT", TRUE,
              <<PA("app", App, "PERMISSIVE"), PA("app", <<>>, "DISABLE"), PA("ops", App, "UNSET")>>)

OnePod == <<Pod("app", Api, Api, "Running", "a", TRUE, None1)>>
TwoPods == {<<>>} \cup {<<Pod("app", Api, Api, "Running", "c", TRUE, l), Pod(ns, Gateway, Gateway, "Running", "a", TRUE, None1)>> :
                           l \in {None1, App}, ns \in {"mesh", "app"}}

AllSlices == {[nodes |-> {ThreeNodes}, pods |-> AllPods, reads |-> {Off, Split}],
              [nodes |-> AllNodeLists, pods |-> {OnePod}, reads |-> {Split}],
              [nodes |-> {ThreeNodes}, pods |-> TwoPods, reads |-> AllReads]}
=============================================================================

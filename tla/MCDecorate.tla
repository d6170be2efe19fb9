----------------------------- MODULE MCDecorate -----------------------------
(* Two workloads and the lists they appear in: asking for a device, pinned  *)
(* to accelerator nodes, rolled back to neither, scaled to zero, and gone.  *)
EXTENDS Decorate, TLC

App(name, owned, runs, tag, glob) ==
  [name |-> name, owned |-> owned, jobs |-> runs, tag |-> tag, glob |-> glob]

\* A HelmRelease and the Kustomization that installs it, both called web: Flux
\* reports the resources of neither.
Twins == << App("web", {}, {}, "v1", FALSE), App("web", {}, {}, "", FALSE) >>

\* With them an Application that reports what it owns, and one marked by name
\* that reports only a job.
Mixed == Twins \o << App("api", {"api"}, {"migrate"}, "", FALSE),
                     App("ml", {}, {"train"}, "", TRUE) >>

\* "old" still carries the label of api, but ArgoCD does not report it.
InstanceOf == "api" :> "api" @@ "web" :> "web" @@ "old" :> "api"

Info(dev, pinned, arches, tag, desired, ready) ==
  [dev |-> dev, pinned |-> pinned, arches |-> arches, tag |-> tag,
   desired |-> desired, ready |-> ready]

Api == { Info(1, FALSE, {"amd64"}, "v1", 2, 1), Info(0, TRUE, {"amd64"}, "v1", 1, 1),
         Info(0, FALSE, {"amd64"}, "v2", 1, 1), Info(0, FALSE, {"amd64", "arm64"}, "v2", 1, 0) }
Web == { Info(1, FALSE, {"amd64"}, "v3", 0, 0), Info(0, FALSE, {"arm64"}, "v3", 1, 1) }

Some  == {"api" :> a @@ "web" :> w : a \in Api, w \in Web}
Left  == {"api" :> a @@ "old" :> Info(1, FALSE, {"arm64"}, "v0", 1, 1) : a \in Api}
Reads == {<<>>} \cup Some \cup Left \cup {"api" :> a : a \in Api} \cup {"web" :> w : w \in Web}

Job(active, failed) == [cron |-> FALSE, active |-> active, failed |-> failed, succeeded |-> 1]
Nightly             == [cron |-> TRUE, active |-> 1, failed |-> 0, succeeded |-> 0]

JobLists == { "migrate" :> Job(0, 1) @@ "train" :> Nightly, "migrate" :> Job(1, 0),
              "train" :> Nightly }
=============================================================================

------------------------------- MODULE Serving -------------------------------
(***************************************************************************)
(* cmd/k8s-status/main.go: startup, serving and shutdown, with the clock.  *)
(*                                                                         *)
(* Startup reads SOURCES, asks the API server which controllers it serves  *)
(* if told to, and listens.  A request holds the mutex of the collector    *)
(* through up to three reads, each with a deadline of its own, and its     *)
(* answer has to be written before the write timeout of the HTTP server.   *)
(* On a signal the server waits for open requests, for a grace period.     *)
(*                                                                         *)
(* One unit of time is five seconds.  A read takes any number of units up  *)
(* to its deadline; one that takes none is prompt, that is, together with  *)
(* the other prompt reads of its request it is done in less than a unit.   *)
(* Get is as in Collector, reduced to what it waits for: the optional      *)
(* sections count as one read, which waits for the slowest of them.        *)
(***************************************************************************)
EXTENDS Integers, FiniteSets

CONSTANTS
  Viewers,   \* clients of the HTTP server, each with one connection
  Asked,     \* the lists of entries SOURCES may have, in lower case
  Nobody     \* is no viewer

ASSUME ServingAssumption == Nobody \notin Viewers

RequestTimeout == 6                              \* kube.RequestTimeout, 30 seconds
Mut_SourceTimeout == RequestTimeout              \* no margin below the write timeout
SourceTimeout  == 5
WriteTimeout   == 6
Grace          == 2
TTL            == 3                              \* CACHE_TTL_SECONDS
Never          == TTL                            \* how old what was never read is

GitOps    == {"argocd", "flux"}
Resources == [applications |-> "argocd", helmreleases |-> "flux", kustomizations |-> "flux"]

VARIABLES
  proc,      \* "detecting", "wiring", "serving", "stopping", "exited"
  client,    \* a Kubernetes client can be built
  sections,  \* an optional section is switched on
  sources,   \* the sources in use
  answers,   \* what the probes of detectSources answered so far
  left,      \* time left for what startup or shutdown is waiting for
  holder,    \* who holds the mutex of the collector
  step,      \* what its Get is reading: "apps", "flux", "sections"
  spent,     \* and for how long
  known,     \* a snapshot was built
  snap, sec, \* age of the snapshot and of the sections, up to the TTL
  req        \* each viewer's request: [state, age, waited, hung]

startup == <<client, sections, sources, answers>>
cache   == <<known, snap, sec>>
get     == <<holder, step, spent>>
vars    == <<proc, startup, left, get, cache, req>>

Unasked == [r \in DOMAIN Resources |-> "unasked"]
NoRequest == [state |-> "none", age |-> 0, waited |-> FALSE, hung |-> {}]

\* parseSources: auto anywhere overrides the rest, a typo is ignored, and an
\* empty result falls back to ArgoCD.
ParseSources(entries) ==
  IF "auto" \in entries THEN {}
  ELSE IF entries \cap GitOps = {} THEN {"argocd"} ELSE entries \cap GitOps

Init ==
  /\ client \in BOOLEAN /\ sections \in BOOLEAN
  /\ \E entries \in Asked :
       /\ sources = ParseSources(entries)
       /\ proc = IF "auto" \in entries THEN "detecting" ELSE "wiring"
  /\ answers = Unasked /\ left = RequestTimeout
  /\ holder = Nobody /\ step = "apps" /\ spent = 0
  /\ known = FALSE /\ snap = Never /\ sec = Never
  /\ req = [v \in Viewers |-> NoRequest]

-----------------------------------------------------------------------------
(* Startup.                                                                *)

\* The order of the probes; either Flux resource is enough.
Mut_Pending(a) ==                                \* asks for both Flux resources
  CASE a["applications"] = "unasked" -> {"applications"}
    [] a["applications"] # "unasked" /\ a["helmreleases"] = "unasked" -> {"helmreleases"}
    [] a["helmreleases"] = "yes" /\ a["kustomizations"] = "unasked" -> {"kustomizations"}
    [] OTHER -> {}
Pending(a) ==
  CASE a["applications"] = "unasked" -> {"applications"}
    [] a["applications"] # "unasked" /\ a["helmreleases"] = "unasked" -> {"helmreleases"}
    [] a["helmreleases"] \in {"no", "error"} /\ a["kustomizations"] = "unasked" -> {"kustomizations"}
    [] OTHER -> {}

Found(a) == {Resources[r] : r \in {q \in DOMAIN Resources : a[q] = "yes"}}
OrArgoCD(found) == IF found = {} THEN {"argocd"} ELSE found

\* Served, not served (a 404 is an answer), or an error; all probes share one
\* deadline, and once it has passed each of them fails at once.
HasResource == IF left = 0 THEN {"error"} ELSE {"yes", "no", "error"}

Probe(r) ==
  /\ proc = "detecting" /\ client
  /\ r \in Pending(answers)
  /\ \E answer \in HasResource : answers' = [answers EXCEPT ![r] = answer]
  /\ IF Pending(answers') = {}
       THEN /\ sources' = OrArgoCD(Found(answers')) /\ proc' = "wiring"
            /\ left' = RequestTimeout
       ELSE UNCHANGED <<sources, proc, left>>
  /\ UNCHANGED <<client, sections, get, cache, req>>

DetectWithoutClient ==
  /\ proc = "detecting" /\ ~client
  /\ sources' = {"argocd"} /\ proc' = "wiring"
  /\ UNCHANGED <<client, sections, answers, left, get, cache, req>>

\* The listers are built and, with the mesh on, Istio is probed for the log,
\* which may take until its deadline; then ListenAndServe.
Listen ==
  /\ proc = "wiring" /\ proc' = "serving"
  /\ answers' = Unasked /\ left' = 0
  /\ UNCHANGED <<client, sections, sources, get, cache, req>>

\* log.Fatal: the port is taken.
ListenFails ==
  /\ proc = "wiring" /\ proc' = "exited"
  /\ UNCHANGED <<startup, left, get, cache, req>>

-----------------------------------------------------------------------------
(* Serving.                                                                *)

Request(v) ==
  /\ proc = "serving" /\ req[v].state \notin {"waiting", "reading"}
  /\ req' = [req EXCEPT ![v] = [NoRequest EXCEPT !.state = "waiting"]]
  /\ UNCHANGED <<proc, startup, left, get, cache>>

\* Get takes the mutex; a fresh snapshot needs its sections only.
Acquire(v) ==
  /\ holder = Nobody /\ req[v].state = "waiting" /\ proc # "exited"
  /\ holder' = v /\ spent' = 0
  /\ step' = IF snap < TTL THEN "sections" ELSE "apps"
  /\ req' = [req EXCEPT ![v].state = "reading"]
  /\ UNCHANGED <<proc, startup, left, cache>>

At(s) == holder # Nobody /\ step = s /\ proc # "exited"

\* Whether the present step talks to the API server at all: a source that is
\* off has no lister, and one without a client a lister that fails at once.
Reads ==
  client /\ CASE step = "apps"     -> "argocd" \in sources
              [] step = "flux"     -> "flux" \in sources
              [] step = "sections" -> sections /\ sec = TTL
Deadline == IF step = "flux" THEN RequestTimeout ELSE SourceTimeout

\* The handler writes, or finds the connection closed by the write timeout.
Return ==
  /\ req' = [req EXCEPT ![holder].state =
               IF req[holder].age < WriteTimeout THEN "written" ELSE "lost"]
  /\ holder' = Nobody /\ spent' = 0 /\ UNCHANGED step

Continue(s) == step' = s /\ spent' = 0 /\ UNCHANGED <<holder, req>>

AppsAnswered ==
  /\ At("apps") /\ ("argocd" \in sources => client /\ spent < Deadline)
  /\ Continue("flux")
  /\ UNCHANGED <<proc, startup, left, cache>>

\* The last good snapshot is decorated all the same.
AppsFailed ==
  /\ At("apps") /\ "argocd" \in sources /\ known
  /\ Continue("sections")
  /\ UNCHANGED <<proc, startup, left, cache>>

AppsFailedCold ==
  /\ At("apps") /\ "argocd" \in sources /\ ~known
  /\ Return
  /\ UNCHANGED <<proc, startup, left, cache>>

\* Whatever Flux says is folded in, and the snapshot is cached.
FluxEnds ==
  /\ At("flux")
  /\ known' = TRUE /\ snap' = 0
  /\ Continue("sections")
  /\ UNCHANGED <<proc, startup, left, sec>>

\* A section that was cut short is not cached: the next Get waits for it again.
SectionsEnd ==
  /\ At("sections")
  /\ IF Reads /\ spent < Deadline THEN sec' \in {0, sec} ELSE sec' = sec
  /\ Return
  /\ UNCHANGED <<proc, startup, left, known, snap>>

-----------------------------------------------------------------------------
(* Shutdown, and the clock.                                                *)

Open == {v \in Viewers : req[v].state \in {"waiting", "reading"}}

\* Before main has asked to be told, a signal ends the process.
Signal ==
  \/ /\ proc \in {"detecting", "wiring"} /\ proc' = "exited"
     /\ UNCHANGED <<startup, left, get, cache, req>>
  \/ /\ proc = "serving" /\ proc' = "stopping" /\ left' = Grace
     /\ UNCHANGED <<startup, get, cache, req>>

\* Shutdown returns when no request is open, or with the grace period over,
\* and takes the requests with it that still are.
Exit ==
  /\ proc = "stopping" /\ proc' = "exited"
  /\ Open = {} \/ left = 0
  /\ req' = [v \in Viewers |-> IF v \in Open THEN [req[v] EXCEPT !.state = "cut"] ELSE req[v]]
  /\ UNCHANGED <<startup, left, get, cache>>

Older(age, limit) == IF age < limit THEN age + 1 ELSE age

\* Time passes only while somebody waits for it: a deadline that has come, a
\* free mutex and a finished shutdown are acted on first.
Tick ==
  /\ proc # "exited"
  /\ proc \in {"detecting", "wiring", "stopping"} => left > 0
  /\ proc = "stopping" => Open # {}
  /\ IF holder = Nobody THEN Open = {} ELSE Reads /\ spent < Deadline
  /\ left' = IF left > 0 THEN left - 1 ELSE 0
  /\ spent' = IF holder = Nobody THEN 0 ELSE spent + 1
  /\ snap' = Older(snap, TTL) /\ sec' = Older(sec, TTL)
  /\ req' = [v \in Viewers |->
       IF v \notin Open THEN req[v]
       ELSE [req[v] EXCEPT !.age = Older(@, WriteTimeout), !.waited = @ \/ v # holder,
                           !.hung = IF v = holder THEN @ \cup {step} ELSE @]]
  /\ UNCHANGED <<proc, startup, holder, step, known>>

Next ==
  \/ \E r \in DOMAIN Resources : Probe(r)
  \/ DetectWithoutClient \/ Listen \/ ListenFails
  \/ \E v \in Viewers : Request(v) \/ Acquire(v)
  \/ AppsAnswered \/ AppsFailed \/ AppsFailedCold \/ FluxEnds \/ SectionsEnd
  \/ Signal \/ Exit \/ Tick

Spec == Init /\ [][Next]_vars

-----------------------------------------------------------------------------
(* Properties.                                                             *)

\* A request that gets no answer has a reason: it queued behind another one,
\* Flux took its time, or two reads did; one slow read alone, of the
\* Applications or of any section, always leaves time to say so.  And the
\* shutdown only takes requests that have had the whole grace period.
LossIsExplained ==
  \A v \in Viewers :
    /\ req[v].state = "lost" =>
         req[v].waited \/ "flux" \in req[v].hung \/ {"apps", "sections"} \subseteq req[v].hung
    /\ req[v].state = "cut" => req[v].age >= Grace

\* Detection serves what it found, ArgoCD if it found nothing, and never no
\* source at all; and a controller is passed over only after every resource it
\* could be known by was asked for and denied or failed.
SourcesBelieved ==
  proc \in {"wiring", "serving"} =>
    /\ sources # {}
    /\ answers # Unasked =>
         /\ sources = OrArgoCD(Found(answers))
         /\ \A r \in DOMAIN Resources : Resources[r] \notin sources => answers[r] \in {"no", "error"}

(* What a comment says, and the program does not do.                       *)

\* "An optional source must not be able to blank the page": a viewer whose own
\* refresh never waited for the Applications, nor for another viewer, gets one.
OptionalNeverBlanks ==
  \A v \in Viewers : req[v].state = "lost" => req[v].waited \/ "apps" \in req[v].hung
=============================================================================

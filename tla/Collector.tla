----------------------------- MODULE Collector -----------------------------
(***************************************************************************)
(* internal/status/collector.go: the shared snapshot cache.                *)
(*                                                                         *)
(* Every HTTP request calls Get.  Get takes one mutex and keeps it across  *)
(* everything it does: the age check, the ArgoCD read, the Flux read, and  *)
(* decorate, which first refreshes the optional sources in one goroutine   *)
(* each, waits for all of them, and then attaches what they cached.        *)
(*                                                                         *)
(* A viewer is one request goroutine.  A read is a start and a later       *)
(* answer, and the clock may pass in between.  What a read returned is     *)
(* abstracted to how it ended; the cached data is abstracted to when it    *)
(* was stored and which kind of answer it came from.                       *)
(***************************************************************************)
EXTENDS Integers

CONSTANTS
  Viewers,    \* request goroutines
  Sources,    \* the optional sources that were wired up with WithXxx
  HasLister,  \* argocd is one of SOURCES
  HasFlux,    \* flux is one of SOURCES
  TTL,        \* CACHE_TTL_SECONDS, in ticks
  MaxTime     \* bound on the clock

SourceNames == {"nodes", "workloads", "jobs", "pending", "mesh", "running"}

ASSUME CollectorAssumption ==
  /\ Sources \subseteq SourceNames
  /\ HasLister \in BOOLEAN /\ HasFlux \in BOOLEAN
  /\ TTL \in Nat /\ MaxTime \in Nat

Never  == -1            \* the zero time.Time: older than any TTL
Nobody == "nobody"
ASSUME NobodyAssumption == Nobody \notin Viewers

VARIABLES
  now,        \* c.now()
  holder,     \* who holds c.mu
  pc,         \* where each viewer is inside Get
  asked,      \* when the viewer called Get
  left,       \* the viewer navigated away: its request context is cancelled
  snap,       \* c.snap: when it was checked and how its Flux halves were read
  fluxList,   \* c.fluxList # nil
  cache,      \* the cached answer of each optional source, with its timestamp
  peerAuths,  \* c.peerAuths # nil
  knowsFlux,  \* c.unmanaged was built with a Flux list at hand
  reading,    \* optional sources whose goroutine has not finished
  lost,       \* sources of the refresh under way whose read stored nothing
  draft,      \* the page decorate is given: its CheckedAt, Stale, the error
  page        \* what Get returned to each viewer

mutable == <<snap, fluxList>>
sections == <<cache, peerAuths, knowsFlux>>
request == <<asked, left>>
vars == <<now, holder, pc, asked, left, snap, fluxList, cache, peerAuths,
          knowsFlux, reading, lost, draft, page>>

Time     == Nat \cup {Never}
Half     == {"off", "ok", "failed", "cancelled"}
Snapshot == [at : Time, helm : Half, kust : Half]
Entry    == [at : Time, val : {"none", "good", "error", "empty", "absent"}]
Draft    == [at : Time, stale : BOOLEAN, err : BOOLEAN]
Page     == [draft : Draft, src : [Sources -> Time], lost : SUBSET Sources]

NoSnap  == [at |-> Never, helm |-> "off", kust |-> "off"]
NoDraft == [at |-> Never, stale |-> FALSE, err |-> FALSE]
NoPage  == [draft |-> NoDraft, src |-> [s \in Sources |-> Never], lost |-> {}]

Init ==
  /\ now = 0 /\ holder = Nobody
  /\ pc = [v \in Viewers |-> "idle"]
  /\ asked = [v \in Viewers |-> 0]
  /\ left = [v \in Viewers |-> FALSE]
  /\ snap = NoSnap /\ fluxList = FALSE
  /\ cache = [s \in Sources |-> [at |-> Never, val |-> "none"]]
  /\ peerAuths = FALSE /\ knowsFlux = FALSE
  /\ reading = {} /\ lost = {}
  /\ draft = NoDraft
  /\ page = [v \in Viewers |-> NoPage]

-----------------------------------------------------------------------------
(* The environment: the clock, requests arriving, viewers leaving.         *)

Tick ==
  /\ now < MaxTime
  /\ now' = now + 1
  /\ UNCHANGED <<holder, pc, request, mutable, sections, reading, lost, draft, page>>

Ask(v) ==
  /\ pc[v] = "idle"
  /\ pc' = [pc EXCEPT ![v] = "lock"]
  /\ asked' = [asked EXCEPT ![v] = now]
  /\ left' = [left EXCEPT ![v] = FALSE]
  /\ UNCHANGED <<now, holder, mutable, sections, reading, lost, draft, page>>

\* Only ListFlux reads the request's own context, so leaving any later, or
\* with Flux off, changes nothing.
Leave(v) ==
  /\ HasFlux /\ pc[v] \in {"lock", "apps", "flux"}
  /\ ~left[v]
  /\ left' = [left EXCEPT ![v] = TRUE]
  /\ UNCHANGED <<now, holder, pc, asked, mutable, sections, reading, lost, draft, page>>

-----------------------------------------------------------------------------
(* Get, up to the call of decorate.                                        *)

Mut_OlderLate(at) == at = Never \/ now - at > TTL
Older(at) == at = Never \/ now - at >= TTL      \* the TTL has passed since at

Acquire(v, next) ==
  /\ pc[v] = "lock" /\ holder = Nobody
  /\ holder' = v
  /\ pc' = [pc EXCEPT ![v] = next]

Hit(v) ==
  /\ ~Older(snap.at)
  /\ Acquire(v, "start")
  /\ draft' = [at |-> snap.at, stale |-> FALSE, err |-> FALSE]
  /\ UNCHANGED <<now, request, mutable, sections, reading, lost, page>>

AfterApps == IF HasFlux THEN "flux" ELSE "build"

Mut_MissUnchecked(v) ==                          \* age not judged again under c.mu
  /\ Acquire(v, IF HasLister THEN "apps" ELSE AfterApps)
  /\ UNCHANGED <<now, request, mutable, sections, reading, lost, draft, page>>

Miss(v) ==
  /\ Older(snap.at)
  /\ Acquire(v, IF HasLister THEN "apps" ELSE AfterApps)
  /\ UNCHANGED <<now, request, mutable, sections, reading, lost, draft, page>>

AppsAnswered(v) ==
  /\ pc[v] = "apps"
  /\ pc' = [pc EXCEPT ![v] = AfterApps]
  /\ UNCHANGED <<now, holder, request, mutable, sections, reading, lost, draft, page>>

Mut_AppsFailedUnlocks(v) ==                      \* unlocks before decorate
  /\ pc[v] = "apps" /\ snap.at # Never
  /\ draft' = [at |-> snap.at, stale |-> TRUE, err |-> TRUE]
  /\ pc' = [pc EXCEPT ![v] = "start"] /\ holder' = Nobody
  /\ UNCHANGED <<now, request, mutable, sections, reading, lost, page>>
Mut_AppsFailedUnmarked(v) ==                     \* forgets stale.Stale = true
  /\ pc[v] = "apps" /\ snap.at # Never
  /\ draft' = [at |-> snap.at, stale |-> FALSE, err |-> TRUE]
  /\ pc' = [pc EXCEPT ![v] = "start"]
  /\ UNCHANGED <<now, holder, request, mutable, sections, reading, lost, page>>
Mut_AppsFailedBacksOff(v) ==                     \* moves CheckedAt to space retries
  /\ pc[v] = "apps" /\ snap.at # Never
  /\ snap' = [snap EXCEPT !.at = now]
  /\ draft' = [at |-> snap.at, stale |-> TRUE, err |-> TRUE]
  /\ pc' = [pc EXCEPT ![v] = "start"]
  /\ UNCHANGED <<now, holder, request, fluxList, sections, reading, lost, page>>

\* The read is detached from the request, so only the cluster or the
\* deadline can fail it.  Nothing is remembered: the next Get reads again.
AppsFailed(v) ==
  /\ pc[v] = "apps" /\ snap.at # Never
  /\ draft' = [at |-> snap.at, stale |-> TRUE, err |-> TRUE]
  /\ pc' = [pc EXCEPT ![v] = "start"]
  /\ UNCHANGED <<now, holder, request, mutable, sections, reading, lost, page>>

Mut_AppsFailedColdRetries(v) ==                  \* goes round again until it has a snapshot
  /\ pc[v] = "apps" /\ snap.at = Never
  /\ holder' = Nobody
  /\ pc' = [pc EXCEPT ![v] = "lock"]
  /\ UNCHANGED <<now, request, mutable, sections, reading, lost, draft, page>>

AppsFailedCold(v) ==
  /\ pc[v] = "apps" /\ snap.at = Never
  /\ page' = [page EXCEPT ![v].draft.err = TRUE]
  /\ holder' = Nobody
  /\ pc' = [pc EXCEPT ![v] = "done"]
  /\ UNCHANGED <<now, request, mutable, sections, reading, lost, draft>>

\* Build, AppendFlux, CheckedAt and c.snap.
Install(v, helm, kust) ==
  /\ snap' = [at |-> now, helm |-> helm, kust |-> kust]
  /\ draft' = [at |-> now, stale |-> FALSE, err |-> FALSE]
  /\ pc' = [pc EXCEPT ![v] = "start"]
  /\ UNCHANGED <<now, holder, request, sections, reading, lost, page>>

\* ListFlux runs under the request's own context: once the viewer has left,
\* either half may come back cancelled.
HalfAnswers(v) == {"ok", "failed"} \cup (IF left[v] THEN {"cancelled"} ELSE {})

Mut_FluxAnsweredForgets(v) ==                    \* c.fluxList = fl whatever ferr
  /\ pc[v] = "flux"
  /\ \E helm, kust \in HalfAnswers(v) :
       /\ Install(v, helm, kust)
       /\ fluxList' = (helm = "ok" /\ kust = "ok")

FluxAnswered(v) ==
  /\ pc[v] = "flux"
  /\ \E helm, kust \in HalfAnswers(v) :
       /\ Install(v, helm, kust)
       /\ fluxList' = (fluxList \/ (helm = "ok" /\ kust = "ok"))

BuildWithoutFlux(v) ==
  /\ pc[v] = "build"
  /\ Install(v, "off", "off")
  /\ UNCHANGED fluxList

-----------------------------------------------------------------------------
(* decorate: refreshSources, the fetches, the attaches.                    *)

Mut_RefreshOnce(v) ==                            \* reads a source only while it is empty
  /\ pc[v] = "start"
  /\ reading' = {s \in Sources : cache[s].at = Never}
  /\ lost' = {}
  /\ pc' = [pc EXCEPT ![v] = "wait"]
  /\ UNCHANGED <<now, holder, request, mutable, sections, draft, page>>

RefreshSources(v) ==
  /\ pc[v] = "start"
  /\ reading' = {s \in Sources : Older(cache[s].at)}
  /\ lost' = {}
  /\ pc' = [pc EXCEPT ![v] = "wait"]
  /\ UNCHANGED <<now, holder, request, mutable, sections, draft, page>>

Fetching(s) ==
  /\ s \in reading
  /\ reading' = reading \ {s}
  /\ UNCHANGED <<now, holder, pc, request, mutable, draft, page>>

Store(s, val) ==
  /\ cache' = [cache EXCEPT ![s] = [at |-> now, val |-> val]]
  /\ UNCHANGED lost

Keep(s) ==
  /\ lost' = lost \cup {s}
  /\ UNCHANGED sections

Answers == {"ok", "failed", "abandoned"}

\* fetchNodes, fetchWorkloads, fetchPending and fetchRunning store whatever
\* their read came to, a failure included, unless it was abandoned.
OnFailure(s) == IF s = "pending" THEN "empty" ELSE "error"

FetchPlain(s, r) ==
  /\ Fetching(s)
  /\ IF r = "abandoned" THEN Keep(s)
     ELSE /\ Store(s, IF r = "ok" THEN "good" ELSE OnFailure(s))
          /\ knowsFlux' = IF s = "workloads" THEN fluxList ELSE knowsFlux
          /\ UNCHANGED peerAuths

FetchJobs(r) ==
  /\ Fetching("jobs")
  /\ IF r # "ok" THEN Keep("jobs")
     ELSE Store("jobs", "good") /\ UNCHANGED <<peerAuths, knowsFlux>>

Mut_FetchMeshForgets(detect, policy, list) ==    \* Istio gone, meshAt cleared
  /\ Fetching("mesh")
  /\ IF detect = "abandoned" \/ (detect = "ok" /\ "abandoned" \in {policy, list})
       THEN Keep("mesh")
       ELSE /\ cache' = [cache EXCEPT !["mesh"] =
                 IF detect = "failed" THEN [at |-> Never, val |-> "absent"]
                                      ELSE [at |-> now, val |-> "good"]]
            /\ peerAuths' = (detect = "ok" /\ list = "ok")
            /\ UNCHANGED <<lost, knowsFlux>>

\* detect is "ok" only when Istio is there; "failed" also stands for a
\* discovery that answers "not installed".
FetchMesh(detect, policy, list) ==
  /\ Fetching("mesh")
  /\ IF \/ detect = "abandoned"
        \/ detect = "ok" /\ "abandoned" \in {policy, list}
       THEN Keep("mesh")
       ELSE /\ Store("mesh", IF detect = "failed" THEN "absent"
                             ELSE IF policy = "failed" THEN "error" ELSE "good")
            /\ peerAuths' = (detect = "ok" /\ list = "ok")
            /\ UNCHANGED knowsFlux

Plain == {"nodes", "workloads", "pending", "running"}

Fetch ==
  \/ \E s \in Plain, r \in Answers : FetchPlain(s, r)
  \/ \E r \in Answers : FetchJobs(r)
  \/ \E d, p, l \in Answers : FetchMesh(d, p, l)

\* wg.Wait returned: attach what the sources cached, unlock, return.
Attach(v) ==
  /\ pc[v] = "wait" /\ reading = {}
  /\ page' = [page EXCEPT ![v] = [draft |-> draft, lost |-> lost,
                                  src |-> [s \in Sources |-> cache[s].at]]]
  /\ holder' = Nobody
  /\ pc' = [pc EXCEPT ![v] = "done"]
  /\ draft' = NoDraft /\ lost' = {}
  /\ UNCHANGED <<now, request, mutable, sections, reading>>

\* The handler has written its response.
Respond(v) ==
  /\ pc[v] = "done"
  /\ pc' = [pc EXCEPT ![v] = "idle"]
  /\ page' = [page EXCEPT ![v] = NoPage]
  /\ asked' = [asked EXCEPT ![v] = 0]
  /\ left' = [left EXCEPT ![v] = FALSE]
  /\ UNCHANGED <<now, holder, mutable, sections, reading, lost, draft>>

-----------------------------------------------------------------------------
Lock(v) == Hit(v) \/ Miss(v)

Work(v) ==
  \/ AppsAnswered(v) \/ AppsFailed(v) \/ AppsFailedCold(v)
  \/ FluxAnswered(v) \/ BuildWithoutFlux(v) \/ RefreshSources(v) \/ Attach(v)

Next ==
  \/ Tick
  \/ \E v \in Viewers : Ask(v) \/ Leave(v) \/ Lock(v) \/ Work(v) \/ Respond(v)
  \/ Fetch

Spec == Init /\ [][Next]_vars

(* Every upstream read ends, answered or cut off by its own timeout, so the *)
(* goroutines holding the lock or running a fetch make progress.  sync.Mutex*)
(* hands over to a waiter that has starved for 1ms, hence SF on Lock.       *)
Fairness ==
  /\ \A v \in Viewers : SF_vars(Lock(v)) /\ WF_vars(Work(v))
  /\ WF_vars(Fetch)

FairSpec == Spec /\ Fairness

-----------------------------------------------------------------------------
(* Properties.                                                             *)

\* Every variable has its type.
TypeOK ==
  /\ now \in Nat /\ holder \in Viewers \cup {Nobody}
  /\ pc \in [Viewers -> {"idle", "lock", "apps", "flux", "build", "start", "wait", "done"}]
  /\ asked \in [Viewers -> Nat] /\ left \in [Viewers -> BOOLEAN]
  /\ snap \in Snapshot /\ fluxList \in BOOLEAN
  /\ cache \in [Sources -> Entry]
  /\ peerAuths \in BOOLEAN /\ knowsFlux \in BOOLEAN
  /\ reading \in SUBSET Sources /\ lost \in SUBSET Sources
  /\ draft \in Draft /\ page \in [Viewers -> Page]

Inside == {"apps", "flux", "build", "start", "wait"}    \* c.mu is held

\* "the wait finishes before anything reads them" (refreshSources): no source
\* goroutine outlives the Get that started it, and only one Get at a time is
\* past the mutex, so no field of the cache ever has two users.
OneRefresh ==
  /\ \A u, v \in Viewers : pc[u] \in Inside /\ pc[v] \in Inside => u = v
  /\ reading # {} => \E v \in Viewers : pc[v] = "wait"

\* What was true at some time at is still young enough for a request made at t.
Current(at, t) == at # Never /\ (at >= t \/ at + TTL > t)

\* A page returned without an error was checked less than a TTL before its
\* viewer asked for it, however long the viewer then waited for the mutex.
FreshPage ==
  \A v \in Viewers : pc[v] = "done" /\ ~page[v].draft.err =>
    Current(page[v].draft.at, asked[v])

\* The optional sections of every page, the stale one included, are as young,
\* except for a source whose read stored nothing while this page was made.
\* Each source keeps its own timestamp and its own rule for failures.
SectionsSettled ==
  \A v \in Viewers : pc[v] = "done" /\ page[v].draft.at # Never =>
    \A s \in Sources \ page[v].lost : Current(page[v].src[s], asked[v])

\* Stale is a promise in both directions: a page is marked stale only when
\* its read failed and the snapshot behind it really has outlived the TTL.
StaleIsHonest ==
  \A v \in Viewers : pc[v] = "done" /\ page[v].draft.at # Never =>
    /\ page[v].draft.stale <=> page[v].draft.err
    /\ page[v].draft.stale => page[v].draft.at + TTL <= now

\* Two snapshots are built at least a TTL apart, whatever queue of callers is
\* waiting: the age is judged under the mutex.
RebuildSpacing ==
  [][snap'.at # snap.at => snap.at = Never \/ snap'.at - snap.at >= TTL]_vars

\* No viewer is given a page older, in any of its parts, than one another
\* viewer is still looking at.
PagesNeverGoBack ==
  [][\A u, v \in Viewers :
       /\ pc[u] = "done" /\ pc[v] # "done" /\ pc'[v] = "done"
       /\ page'[v].draft.at # Never
       => /\ page'[v].draft.at >= page[u].draft.at
          /\ \A s \in Sources : page'[v].src[s] >= page[u].src[s]]_vars

\* "a transient Flux error must not make every Flux-managed release flash into
\* the unmanaged list": once a Flux list was read whole, it and the unmanaged
\* section built with it are never replaced by ones without it.
FluxNeverForgotten == [][(fluxList => fluxList') /\ (knowsFlux => knowsFlux')]_vars

\* Every request is answered: no chain of failing, abandoned or slow reads
\* leaves a viewer waiting for the mutex for ever.
Answered == \A v \in Viewers : pc[v] = "lock" ~> pc[v] = "done"

(* What the comments and the README say, and the code does not do.         *)

\* "one of them navigating away must not abort it" (Get): a read cut short by
\* a viewer leaving is never what the next viewers are shown.
CancelNeverCached == "cancelled" \notin {snap.helm, snap.kust}

-----------------------------------------------------------------------------
(* The contract of the cache, see SnapshotRegister.                        *)
Register == INSTANCE SnapshotRegister WITH
  good   <- snap.at,
  phase  <- [v \in Viewers |-> IF pc[v] \in {"idle", "done"} THEN pc[v] ELSE "asked"],
  answer <- [v \in Viewers |-> page[v].draft]

\* The mutex, the detached reads and the goroutines together are a register
\* that each request reads in one atomic step.
ImplementsRegister == Register!Spec
=============================================================================

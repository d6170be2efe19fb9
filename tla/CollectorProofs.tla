-------------------------- MODULE CollectorProofs --------------------------
(***************************************************************************)
(* Theorems about Collector, for every set of viewers and of sources, any  *)
(* TTL and any length of run.                                              *)
(***************************************************************************)
EXTENDS Collector, TLAPS

(* The types hold when the program starts. *)
LEMMA TypeInit == Init => TypeOK
<1> USE CollectorAssumption, NobodyAssumption
<1>1. NoSnap \in Snapshot /\ NoDraft \in Draft
  BY DEF NoSnap, NoDraft, Snapshot, Draft, Time, Half, Never
<1>2. NoPage \in Page
  BY <1>1 DEF NoPage, Page, Time
<1>3. [at |-> Never, val |-> "none"] \in Entry
  BY DEF Entry, Time
<1> SUFFICES ASSUME Init PROVE TypeOK
  OBVIOUS
<1>4. now \in Nat /\ holder \in Viewers \cup {Nobody} /\ asked \in [Viewers -> Nat]
  BY DEF Init
<1>5. pc \in [Viewers -> {"idle", "lock", "apps", "flux", "build", "start", "wait", "done"}]
  BY DEF Init
<1>6. cache \in [Sources -> Entry] /\ page \in [Viewers -> Page]
  BY <1>2, <1>3 DEF Init
<1>7. /\ left \in [Viewers -> BOOLEAN] /\ fluxList \in BOOLEAN
      /\ peerAuths \in BOOLEAN /\ knowsFlux \in BOOLEAN
      /\ reading \in SUBSET Sources /\ lost \in SUBSET Sources
  BY DEF Init
<1>8. QED
  BY <1>1, <1>4, <1>5, <1>6, <1>7 DEF Init, TypeOK

(* One step of the collector keeps the types. *)
LEMMA TypeStep == TypeOK /\ [Next]_vars => TypeOK'
<1> USE CollectorAssumption, NobodyAssumption
<1> SUFFICES ASSUME TypeOK, [Next]_vars PROVE TypeOK'
  OBVIOUS
<1> USE DEF TypeOK, mutable, sections, request, Time, Never
<1>1. CASE Tick
  BY <1>1 DEF Tick
<1>2. ASSUME NEW v \in Viewers, Ask(v) PROVE TypeOK'
  BY <1>2 DEF Ask
<1>3. ASSUME NEW v \in Viewers, Leave(v) PROVE TypeOK'
  BY <1>3 DEF Leave
<1>4. ASSUME NEW v \in Viewers, Hit(v) PROVE TypeOK'
  BY <1>4 DEF Hit, Acquire, Draft, Snapshot
<1>5. ASSUME NEW v \in Viewers, Miss(v) PROVE TypeOK'
  BY <1>5 DEF Miss, Acquire, AfterApps
<1>6. ASSUME NEW v \in Viewers, AppsAnswered(v) PROVE TypeOK'
  BY <1>6 DEF AppsAnswered, AfterApps
<1>7. ASSUME NEW v \in Viewers, AppsFailed(v) PROVE TypeOK'
  BY <1>7 DEF AppsFailed, Draft, Snapshot
<1>8. ASSUME NEW v \in Viewers, AppsFailedCold(v) PROVE TypeOK'
  <2>1. page[v] \in Page
    OBVIOUS
  <2>2. [page[v] EXCEPT !.draft.err = TRUE] \in Page
    BY <2>1 DEF Page, Draft
  <2>3. page' \in [Viewers -> Page]
    BY <1>8, <2>2 DEF AppsFailedCold
  <2>4. QED
    BY <1>8, <2>3 DEF AppsFailedCold
<1>9. ASSUME NEW v \in Viewers, FluxAnswered(v) PROVE TypeOK'
  <2>1. HalfAnswers(v) \subseteq Half
    BY DEF HalfAnswers, Half
  <2>2. QED
    BY <1>9, <2>1 DEF FluxAnswered, Install, Snapshot, Draft
<1>10. ASSUME NEW v \in Viewers, BuildWithoutFlux(v) PROVE TypeOK'
  BY <1>10 DEF BuildWithoutFlux, Install, Snapshot, Draft, Half
<1>11. ASSUME NEW v \in Viewers, RefreshSources(v) PROVE TypeOK'
  BY <1>11 DEF RefreshSources
<1>12. ASSUME NEW v \in Viewers, Attach(v) PROVE TypeOK'
  <2>1. [draft |-> draft, lost |-> lost,
         src |-> [s \in Sources |-> cache[s].at]] \in Page
    BY DEF Page, Entry
  <2>2. QED
    BY <1>12, <2>1 DEF Attach, NoDraft, Draft
<1>13. ASSUME NEW v \in Viewers, Respond(v) PROVE TypeOK'
  BY <1>13 DEF Respond, NoPage, NoDraft, Page, Draft
<1>14. ASSUME Fetch PROVE TypeOK'
  <2> USE DEF Fetching, Store, Keep, Entry
  <2>1. ASSUME NEW s \in Plain, NEW r \in Answers, FetchPlain(s, r) PROVE TypeOK'
    <3>1. OnFailure(s) \in {"empty", "error"}
      BY DEF OnFailure
    <3>2. knowsFlux' \in BOOLEAN
      BY <2>1 DEF FetchPlain
    <3>3. QED
      BY <2>1, <3>1, <3>2 DEF FetchPlain
  <2>3. ASSUME NEW r \in Answers, FetchJobs(r) PROVE TypeOK'
    BY <2>3 DEF FetchJobs
  <2>6. ASSUME NEW d \in Answers, NEW p \in Answers, NEW l \in Answers,
               FetchMesh(d, p, l)
        PROVE TypeOK'
    <3>1. CASE Keep("mesh") /\ Fetching("mesh")
      BY <3>1
    <3>2. CASE ~Keep("mesh")
      <4> DEFINE val == IF d = "failed" THEN "absent"
                        ELSE IF p = "failed" THEN "error" ELSE "good"
      <4>1. val \in {"absent", "error", "good"}
        OBVIOUS
      <4>2. /\ Fetching("mesh") /\ Store("mesh", val)
            /\ peerAuths' = (d = "ok" /\ l = "ok") /\ UNCHANGED knowsFlux
        BY <2>6, <3>2 DEF FetchMesh
      <4> HIDE DEF val
      <4>3. peerAuths' \in BOOLEAN
        BY <4>2
      <4>4. QED
        BY <4>1, <4>2, <4>3
    <3>3. QED
      BY <2>6, <3>1, <3>2 DEF FetchMesh
  <2>7. QED
    BY <1>14, <2>1, <2>3, <2>6 DEF Fetch
<1>15. CASE UNCHANGED vars
  BY <1>15 DEF vars
<1>16. QED
  BY <1>1, <1>2, <1>3, <1>4, <1>5, <1>6, <1>7, <1>8, <1>9, <1>10, <1>11,
     <1>12, <1>13, <1>14, <1>15 DEF Next, Lock, Work

(* Every variable of the collector keeps its type, whatever the order of   *)
(* requests, answers and clock ticks.                                      *)
THEOREM Typing == Spec => []TypeOK
<1>1. Init => TypeOK
  BY TypeInit
<1>2. TypeOK /\ [Next]_vars => TypeOK'
  BY TypeStep
<1>3. QED
  BY <1>1, <1>2, PTL DEF Spec

-----------------------------------------------------------------------------
(* The inductive invariant behind every other theorem.                     *)

\* The mutex: its holder is exactly the viewer past it, and goroutines run
\* only while that viewer waits for them.
Mutex ==
  /\ \A v \in Viewers : pc[v] \in Inside <=> holder = v
  /\ reading # {} => holder \in Viewers /\ pc[holder] = "wait"

\* No timestamp lies in the future.
Past ==
  /\ snap.at <= now
  /\ \A v \in Viewers : asked[v] <= now
  /\ \A s \in Sources : cache[s].at <= now

\* What the viewer past the mutex knows: the snapshot was too old when it
\* looked and still is, or its draft describes the snapshot as it stands.
Underway ==
  \A v \in Viewers :
    /\ pc[v] \in {"apps", "flux", "build"} => Older(snap.at)
    /\ pc[v] \in {"start", "wait"} =>
         /\ draft.at = snap.at /\ snap.at # Never
         /\ draft.stale = draft.err
         /\ IF draft.err THEN Older(snap.at) ELSE Current(snap.at, asked[v])

\* The refresh: a source neither being read nor lost is settled.
Refreshed ==
  \A v \in Viewers : pc[v] = "wait" =>
    \A s \in Sources \ (reading \cup lost) : Current(cache[s].at, asked[v])

\* A page stays behind the cache it was made from; there is none elsewhere.
Pages ==
  \A v \in Viewers :
    IF pc[v] = "done"
      THEN /\ page[v].draft.at <= snap.at
           /\ \A s \in Sources : page[v].src[s] <= cache[s].at
           /\ page[v].draft.at = Never => page[v].draft.err
      ELSE page[v] = NoPage

Served == FreshPage /\ SectionsSettled /\ StaleIsHonest

IInv == TypeOK /\ Mutex /\ Past /\ Underway /\ Refreshed /\ Pages /\ Served

\* IND
(* What any fetch amounts to: its source leaves reading, and either its    *)
(* entry is stamped with the present or the source counts as lost.         *)
LEMMA Fetched ==
  ASSUME TypeOK, Fetch
  PROVE \E s \in Sources :
          /\ s \in reading /\ reading' = reading \ {s}
          /\ UNCHANGED <<now, holder, pc, asked, left, snap, draft, page>>
          /\ \/ lost' = lost \cup {s} /\ cache' = cache
             \/ /\ lost' = lost
                /\ \E val : cache' = [cache EXCEPT ![s] = [at |-> now, val |-> val]]
<1> USE DEF Fetching, Store, Keep, mutable, request, sections, TypeOK
<1>0. ASSUME NEW s \in Plain, NEW r \in Answers, FetchPlain(s, r)
      PROVE Fetching(s) /\ (Keep(s) \/ \E val : Store(s, val))
  BY <1>0 DEF FetchPlain
<1>1. ASSUME NEW r \in Answers, FetchJobs(r)
      PROVE Fetching("jobs") /\ (Keep("jobs") \/ \E val : Store("jobs", val))
  BY <1>1 DEF FetchJobs
<1>2. ASSUME NEW d \in Answers, NEW p \in Answers, NEW l \in Answers, FetchMesh(d, p, l)
      PROVE Fetching("mesh") /\ (Keep("mesh") \/ \E val : Store("mesh", val))
  BY <1>2 DEF FetchMesh
<1>3. PICK s \in reading : Fetching(s) /\ (Keep(s) \/ \E val : Store(s, val))
  BY <1>0, <1>1, <1>2 DEF Fetch
<1>4. s \in Sources
  BY <1>3
<1>5. QED
  BY <1>3, <1>4

(* One step keeps the inductive invariant. *)
LEMMA Inductive == IInv /\ [Next]_vars => IInv'
<1> SUFFICES ASSUME IInv, [Next]_vars PROVE IInv'
  OBVIOUS
<1> USE CollectorAssumption, NobodyAssumption
<1> USE DEF IInv, TypeOK, Never, Time, Snapshot, Entry, Draft, Page, mutable, sections, request
<1>0. TypeOK'
  BY TypeStep DEF IInv
<1>1. CASE Tick
  <2>1. Mutex'
    BY <1>1, <1>0 DEF Tick, Mutex, Inside, Past, Underway, Pages
  <2>2. Past'
    <3>1. snap' = snap /\ asked' = asked /\ cache' = cache /\ now' = now + 1
      BY <1>1 DEF Tick
    <3>2. \A n \in Int : n <= now => n <= now + 1
      OBVIOUS
    <3>3. /\ snap.at \in Int /\ \A s \in Sources : cache[s].at \in Int
          /\ \A v \in Viewers : asked[v] \in Int
      OBVIOUS
    <3>4. QED
      BY <3>1, <3>2, <3>3 DEF Past
  <2>3. Underway'
    BY <1>1, <1>0 DEF Tick, Underway, Older, Current
  <2>4. Refreshed'
    BY <1>1, <1>0 DEF Tick, Refreshed, Current
  <2>5. Pages'
    BY <1>1, <1>0 DEF Tick, Pages
  <2>6. Served'
    BY <1>1, <1>0 DEF Tick, Served, FreshPage, SectionsSettled, StaleIsHonest,
       Current
  <2>7. QED
    BY <1>0, <2>1, <2>2, <2>3, <2>4, <2>5, <2>6 DEF IInv
<1>2. ASSUME NEW v \in Viewers, Ask(v) PROVE IInv'
  <2>1. Mutex'
    BY <1>2, <1>0 DEF Ask, Mutex, Inside
  <2>2. Past'
    BY <1>2, <1>0 DEF Ask, Past
  <2>3. Underway'
    BY <1>2, <1>0 DEF Ask, Underway, Older, Current
  <2>4. Refreshed'
    BY <1>2, <1>0 DEF Ask, Refreshed, Current
  <2>5. Pages'
    BY <1>2, <1>0 DEF Ask, Pages, Mutex, Inside, Past, Underway
  <2>6. Served'
    BY <1>2, <1>0 DEF Ask, Served, FreshPage, SectionsSettled, StaleIsHonest,
       Current, Mutex, Inside, Past, Underway, Pages
  <2>7. QED
    BY <1>0, <2>1, <2>2, <2>3, <2>4, <2>5, <2>6 DEF IInv
<1>3. ASSUME NEW v \in Viewers, Leave(v) PROVE IInv'
  <2>1. Mutex'
    BY <1>3, <1>0 DEF Leave, Mutex, Inside
  <2>2. Past'
    BY <1>3, <1>0 DEF Leave, Past
  <2>3. Underway'
    BY <1>3, <1>0 DEF Leave, Underway, Older, Current
  <2>4. Refreshed'
    BY <1>3, <1>0 DEF Leave, Refreshed, Current
  <2>5. Pages'
    BY <1>3, <1>0 DEF Leave, Pages
  <2>6. Served'
    BY <1>3, <1>0 DEF Leave, Served, FreshPage, SectionsSettled, StaleIsHonest,
       Current
  <2>7. QED
    BY <1>0, <2>1, <2>2, <2>3, <2>4, <2>5, <2>6 DEF IInv
<1>4. ASSUME NEW v \in Viewers, Hit(v) PROVE IInv'
  <2>1. Mutex'
    BY <1>4, <1>0 DEF Hit, Acquire, Older, Mutex, Inside
  <2>2. Past'
    BY <1>4, <1>0 DEF Hit, Acquire, Older, Past
  <2>3. Underway'
    BY <1>4, <1>0 DEF Hit, Acquire, Older, Underway, Current, Mutex, Inside,
       Past
  <2>4. Refreshed'
    BY <1>4, <1>0 DEF Hit, Acquire, Older, Refreshed, Current
  <2>5. Pages'
    BY <1>4, <1>0 DEF Hit, Acquire, Older, Pages
  <2>6. Served'
    BY <1>4, <1>0 DEF Hit, Acquire, Older, Served, FreshPage, SectionsSettled,
       StaleIsHonest, Current
  <2>7. QED
    BY <1>0, <2>1, <2>2, <2>3, <2>4, <2>5, <2>6 DEF IInv
<1>5. ASSUME NEW v \in Viewers, Miss(v) PROVE IInv'
  <2>1. Mutex'
    BY <1>5, <1>0 DEF Miss, Acquire, AfterApps, Mutex, Inside
  <2>2. Past'
    BY <1>5, <1>0 DEF Miss, Acquire, AfterApps, Past
  <2>3. Underway'
    BY <1>5, <1>0 DEF Miss, Acquire, AfterApps, Underway, Older, Current
  <2>4. Refreshed'
    BY <1>5, <1>0 DEF Miss, Acquire, AfterApps, Refreshed, Current
  <2>5. Pages'
    BY <1>5, <1>0 DEF Miss, Acquire, AfterApps, Pages
  <2>6. Served'
    BY <1>5, <1>0 DEF Miss, Acquire, AfterApps, Served, FreshPage,
       SectionsSettled, StaleIsHonest, Current
  <2>7. QED
    BY <1>0, <2>1, <2>2, <2>3, <2>4, <2>5, <2>6 DEF IInv
<1>6. ASSUME NEW v \in Viewers, AppsAnswered(v) PROVE IInv'
  <2>1. Mutex'
    BY <1>6, <1>0 DEF AppsAnswered, AfterApps, Mutex, Inside
  <2>2. Past'
    BY <1>6, <1>0 DEF AppsAnswered, AfterApps, Past
  <2>3. Underway'
    BY <1>6, <1>0 DEF AppsAnswered, AfterApps, Underway, Older, Current
  <2>4. Refreshed'
    BY <1>6, <1>0 DEF AppsAnswered, AfterApps, Refreshed, Current
  <2>5. Pages'
    BY <1>6, <1>0 DEF AppsAnswered, AfterApps, Pages
  <2>6. Served'
    BY <1>6, <1>0 DEF AppsAnswered, AfterApps, Served, FreshPage,
       SectionsSettled, StaleIsHonest, Current
  <2>7. QED
    BY <1>0, <2>1, <2>2, <2>3, <2>4, <2>5, <2>6 DEF IInv
<1>7. ASSUME NEW v \in Viewers, AppsFailed(v) PROVE IInv'
  <2>1. Mutex'
    BY <1>7, <1>0 DEF AppsFailed, Mutex, Inside
  <2>2. Past'
    BY <1>7, <1>0 DEF AppsFailed, Past
  <2>3. Underway'
    BY <1>7, <1>0 DEF AppsFailed, Underway, Older, Current
  <2>4. Refreshed'
    BY <1>7, <1>0 DEF AppsFailed, Refreshed, Current
  <2>5. Pages'
    BY <1>7, <1>0 DEF AppsFailed, Pages
  <2>6. Served'
    BY <1>7, <1>0 DEF AppsFailed, Served, FreshPage, SectionsSettled,
       StaleIsHonest, Current
  <2>7. QED
    BY <1>0, <2>1, <2>2, <2>3, <2>4, <2>5, <2>6 DEF IInv
<1>8. ASSUME NEW v \in Viewers, AppsFailedCold(v) PROVE IInv'
  <2>1. Mutex'
    BY <1>8, <1>0 DEF AppsFailedCold, NoPage, NoDraft, Mutex, Inside
  <2>2. Past'
    BY <1>8, <1>0 DEF AppsFailedCold, NoPage, NoDraft, Past
  <2>3. Underway'
    BY <1>8, <1>0 DEF AppsFailedCold, NoPage, NoDraft, Underway, Older, Current
  <2>4. Refreshed'
    BY <1>8, <1>0 DEF AppsFailedCold, NoPage, NoDraft, Refreshed, Current
  <2>5. Pages'
    <3>1. /\ page' = [page EXCEPT ![v].draft.err = TRUE] /\ page[v] = NoPage
          /\ pc[v] = "apps" /\ pc' = [pc EXCEPT ![v] = "done"]
          /\ snap' = snap /\ cache' = cache
      BY <1>8 DEF AppsFailedCold, Pages
    <3>2. /\ page'[v].draft.at = Never /\ page'[v].draft.err
          /\ \A s \in Sources : page'[v].src[s] = Never
      BY <3>1 DEF NoPage, NoDraft
    <3>3. snap.at >= Never /\ \A s \in Sources : cache[s].at >= Never
      <4>1. \A t \in Time : t >= Never
        OBVIOUS
      <4>2. snap.at \in Time /\ \A s \in Sources : cache[s].at \in Time
        OBVIOUS
      <4>3. QED
        BY <4>1, <4>2
    <3>4. \A w \in Viewers \ {v} : page'[w] = page[w] /\ pc'[w] = pc[w]
      BY <3>1
    <3>5. QED
      BY <3>1, <3>2, <3>3, <3>4 DEF Pages
  <2>6. Served'
    BY <1>8, <1>0 DEF AppsFailedCold, NoPage, NoDraft, Served, FreshPage,
       SectionsSettled, StaleIsHonest, Current, Mutex, Inside, Past, Underway,
       Pages
  <2>7. QED
    BY <1>0, <2>1, <2>2, <2>3, <2>4, <2>5, <2>6 DEF IInv
<1>9. ASSUME NEW v \in Viewers, FluxAnswered(v) PROVE IInv'
  <2>1. Mutex'
    BY <1>9, <1>0 DEF FluxAnswered, Install, Mutex, Inside
  <2>2. Past'
    BY <1>9, <1>0 DEF FluxAnswered, Install, Past
  <2>3. Underway'
    BY <1>9, <1>0 DEF FluxAnswered, Install, Underway, Older, Current, Mutex,
       Inside, Past
  <2>4. Refreshed'
    BY <1>9, <1>0 DEF FluxAnswered, Install, Refreshed, Current
  <2>5. Pages'
    BY <1>9, <1>0 DEF FluxAnswered, Install, Pages, Mutex, Inside, Past
  <2>6. Served'
    BY <1>9, <1>0 DEF FluxAnswered, Install, Served, FreshPage,
       SectionsSettled, StaleIsHonest, Current
  <2>7. QED
    BY <1>0, <2>1, <2>2, <2>3, <2>4, <2>5, <2>6 DEF IInv
<1>10. ASSUME NEW v \in Viewers, BuildWithoutFlux(v) PROVE IInv'
  <2>1. Mutex'
    BY <1>10, <1>0 DEF BuildWithoutFlux, Install, Mutex, Inside
  <2>2. Past'
    BY <1>10, <1>0 DEF BuildWithoutFlux, Install, Past
  <2>3. Underway'
    BY <1>10, <1>0 DEF BuildWithoutFlux, Install, Underway, Older, Current,
       Mutex, Inside, Past
  <2>4. Refreshed'
    BY <1>10, <1>0 DEF BuildWithoutFlux, Install, Refreshed, Current
  <2>5. Pages'
    BY <1>10, <1>0 DEF BuildWithoutFlux, Install, Pages, Mutex, Inside, Past
  <2>6. Served'
    BY <1>10, <1>0 DEF BuildWithoutFlux, Install, Served, FreshPage,
       SectionsSettled, StaleIsHonest, Current
  <2>7. QED
    BY <1>0, <2>1, <2>2, <2>3, <2>4, <2>5, <2>6 DEF IInv
<1>11. ASSUME NEW v \in Viewers, RefreshSources(v) PROVE IInv'
  <2>1. Mutex'
    BY <1>11, <1>0 DEF RefreshSources, Older, Mutex, Inside
  <2>2. Past'
    BY <1>11, <1>0 DEF RefreshSources, Older, Past
  <2>3. Underway'
    BY <1>11, <1>0 DEF RefreshSources, Older, Underway, Current
  <2>4. Refreshed'
    BY <1>11, <1>0 DEF RefreshSources, Older, Refreshed, Current, Mutex,
       Inside, Past
  <2>5. Pages'
    BY <1>11, <1>0 DEF RefreshSources, Older, Pages
  <2>6. Served'
    BY <1>11, <1>0 DEF RefreshSources, Older, Served, FreshPage,
       SectionsSettled, StaleIsHonest, Current
  <2>7. QED
    BY <1>0, <2>1, <2>2, <2>3, <2>4, <2>5, <2>6 DEF IInv
<1>12. ASSUME NEW v \in Viewers, Attach(v) PROVE IInv'
  <2>0. /\ pc[v] = "wait" /\ pc'[v] = "done" /\ snap' = snap /\ cache' = cache
        /\ page'[v].draft = draft /\ page'[v].lost = lost
        /\ \A s \in Sources : page'[v].src[s] = cache[s].at
        /\ draft.at = snap.at /\ snap.at # Never /\ draft.stale = draft.err
        /\ IF draft.err THEN Older(snap.at) ELSE Current(snap.at, asked[v])
        /\ \A s \in Sources \ lost : Current(cache[s].at, asked[v])
    BY <1>12 DEF Attach, Underway, Refreshed
  <2>1. Mutex'
    BY <1>12, <1>0 DEF Attach, Mutex, Inside
  <2>2. Past'
    BY <1>12, <1>0 DEF Attach, Past
  <2>3. Underway'
    BY <1>12, <1>0 DEF Attach, Underway, Older, Current, Mutex, Inside
  <2>4. Refreshed'
    BY <1>12, <1>0 DEF Attach, Refreshed, Current, Mutex, Inside
  <2>5. Pages'
    <3>1. \A w \in Viewers \ {v} : page'[w] = page[w] /\ pc'[w] = pc[w]
      BY <1>12 DEF Attach
    <3>2. \A s \in Sources : cache[s].at \in Int
      OBVIOUS
    <3>3. QED
      BY <1>12, <2>0, <3>1, <3>2 DEF Attach, Pages
  <2>6. Served'
    <3>1. \A w \in Viewers \ {v} : page'[w] = page[w] /\ pc'[w] = pc[w]
      BY <1>12 DEF Attach
    <3>2. asked' = asked /\ now' = now
      BY <1>12 DEF Attach
    <3>3. FreshPage'
      BY <2>0, <3>1, <3>2 DEF Served, FreshPage, Current
    <3>4. SectionsSettled'
      BY <2>0, <3>1, <3>2 DEF Served, SectionsSettled, Current
    <3>5. StaleIsHonest'
      BY <2>0, <3>1, <3>2 DEF Served, StaleIsHonest, Older
    <3>6. QED
      BY <3>3, <3>4, <3>5 DEF Served
  <2>7. QED
    BY <1>0, <2>1, <2>2, <2>3, <2>4, <2>5, <2>6 DEF IInv
<1>13. ASSUME NEW v \in Viewers, Respond(v) PROVE IInv'
  <2>1. Mutex'
    BY <1>13, <1>0 DEF Respond, Mutex, Inside
  <2>2. Past'
    BY <1>13, <1>0 DEF Respond, Past
  <2>3. Underway'
    BY <1>13, <1>0 DEF Respond, Underway, Older, Current
  <2>4. Refreshed'
    BY <1>13, <1>0 DEF Respond, Refreshed, Current
  <2>5. Pages'
    BY <1>13, <1>0 DEF Respond, Pages
  <2>6. Served'
    BY <1>13, <1>0 DEF Respond, Served, FreshPage, SectionsSettled,
       StaleIsHonest, Current
  <2>7. QED
    BY <1>0, <2>1, <2>2, <2>3, <2>4, <2>5, <2>6 DEF IInv
<1>14. CASE Fetch
  <2>1. PICK s \in Sources :
          /\ s \in reading /\ reading' = reading \ {s}
          /\ UNCHANGED <<now, holder, pc, asked, left, snap, draft, page>>
          /\ \/ lost' = lost \cup {s} /\ cache' = cache
             \/ /\ lost' = lost
                /\ \E val : cache' = [cache EXCEPT ![s] = [at |-> now, val |-> val]]
    BY <1>14, Fetched
  <2>2. Mutex'
    BY <2>1 DEF Mutex, Inside
  <2>3. Past'
    BY <2>1 DEF Past
  <2>4. Underway'
    BY <2>1 DEF Underway, Older, Current
  <2>5. Refreshed'
    BY <2>1, <1>0 DEF Refreshed, Current, Past
  <2>6. Pages'
    BY <2>1, <1>0 DEF Pages, Past
  <2>7. Served'
    BY <2>1 DEF Served, FreshPage, SectionsSettled, StaleIsHonest, Current
  <2>8. QED
    BY <1>0, <2>2, <2>3, <2>4, <2>5, <2>6, <2>7 DEF IInv
<1>15. CASE UNCHANGED vars
  BY <1>15, <1>0 DEF vars, Mutex, Past, Underway, Older, Current, Refreshed, Pages, Served, FreshPage, SectionsSettled, StaleIsHonest
<1>16. QED
  BY <1>1, <1>2, <1>3, <1>4, <1>5, <1>6, <1>7, <1>8, <1>9, <1>10, <1>11, <1>12, <1>13, <1>14, <1>15 DEF Next, Lock, Work

(* The inductive invariant holds throughout. *)
THEOREM Invariance == Spec => []IInv
<1>1. Init => IInv
  <2> SUFFICES ASSUME Init PROVE IInv
    OBVIOUS
  <2>1. TypeOK
    BY TypeInit
  <2>2. Mutex /\ Past /\ Underway /\ Refreshed
    BY CollectorAssumption, NobodyAssumption
       DEF Init, Mutex, Past, Underway, Refreshed, Inside, NoSnap, Never
  <2>3. Pages /\ Served
    BY DEF Init, Pages, Served, FreshPage, SectionsSettled, StaleIsHonest
  <2>4. QED
    BY <2>1, <2>2, <2>3 DEF IInv
<1>2. QED
  BY <1>1, Inductive, PTL DEF Spec

-----------------------------------------------------------------------------
(* The safety properties the runs check.                                   *)

(* At most one Get is past the mutex, and the goroutines that refresh the  *)
(* optional sources never outlive it.                                      *)
THEOREM OneRefreshHolds == Spec => []OneRefresh
<1>1. IInv => OneRefresh
  BY DEF IInv, Mutex, OneRefresh
<1>2. QED
  BY <1>1, Invariance, PTL

(* Every page served without an error was checked less than a TTL before   *)
(* its viewer asked.                                                       *)
THEOREM FreshPageHolds == Spec => []FreshPage
<1>1. IInv => FreshPage
  BY DEF IInv, Served
<1>2. QED
  BY <1>1, Invariance, PTL

(* So were the optional sections of every page, unless the source's read   *)
(* stored nothing while the page was made.                                 *)
THEOREM SectionsSettledHolds == Spec => []SectionsSettled
<1>1. IInv => SectionsSettled
  BY DEF IInv, Served
<1>2. QED
  BY <1>1, Invariance, PTL

(* A page is marked stale exactly when the ArgoCD read behind it failed,   *)
(* and only when its snapshot has outlived the TTL.                        *)
THEOREM StaleIsHonestHolds == Spec => []StaleIsHonest
<1>1. IInv => StaleIsHonest
  BY DEF IInv, Served
<1>2. QED
  BY <1>1, Invariance, PTL

(* Two snapshots are built at least a TTL apart.                           *)
THEOREM RebuildSpacingHolds == Spec => RebuildSpacing
<1>1. ASSUME IInv, [Next]_vars
      PROVE [snap'.at # snap.at => snap.at = Never \/ snap'.at - snap.at >= TTL]_vars
  <2>1. ASSUME NEW v \in Viewers, FluxAnswered(v) \/ BuildWithoutFlux(v)
        PROVE snap.at = Never \/ snap'.at - snap.at >= TTL
    BY <1>1, <2>1 DEF IInv, Underway, Older, FluxAnswered, BuildWithoutFlux, Install
  <2>2. CASE snap' # snap
    BY <1>1, <2>1, <2>2 DEF Next, vars, Lock, Work, mutable, Tick, Ask, Leave, Hit,
       Miss, AppsAnswered, AppsFailed, AppsFailedCold, RefreshSources, Attach,
       Respond, Fetch, FetchPlain, FetchJobs, FetchMesh, Fetching
  <2>3. QED
    BY <2>2
<1>2. QED
  BY <1>1, Invariance, PTL DEF Spec, RebuildSpacing

(* No viewer is given a page older, in any part, than one being looked at. *)
THEOREM PagesNeverGoBackHolds == Spec => PagesNeverGoBack
<1>1. ASSUME IInv, [Next]_vars, NEW u \in Viewers, NEW v \in Viewers,
             pc[u] = "done", pc[v] # "done", pc'[v] = "done",
             page'[v].draft.at # Never
      PROVE /\ page'[v].draft.at >= page[u].draft.at
            /\ \A s \in Sources : page'[v].src[s] >= page[u].src[s]
  <2> USE DEF IInv, TypeOK
  <2>1. CASE Attach(v)
    <3>1. /\ page'[v].draft.at = snap.at
          /\ \A s \in Sources : page'[v].src[s] = cache[s].at
      BY <1>1, <2>1 DEF Attach, Underway
    <3>2. /\ page[u].draft.at <= snap.at
          /\ \A s \in Sources : page[u].src[s] <= cache[s].at
      BY <1>1 DEF Pages
    <3>3. /\ snap.at \in Int /\ page[u].draft.at \in Int
          /\ \A s \in Sources : cache[s].at \in Int /\ page[u].src[s] \in Int
      BY <1>1 DEF Snapshot, Entry, Page, Draft, Time, Never
    <3>4. QED
      BY <3>1, <3>2, <3>3
  <2>2. CASE AppsFailedCold(v)
    <3>1. page[v] = NoPage
      BY <1>1 DEF Pages
    <3>2. page'[v].draft.at = Never
      BY <2>2, <3>1 DEF AppsFailedCold, NoPage, NoDraft
    <3>3. QED
      BY <1>1, <3>2
  <2>3. CASE ~Attach(v) /\ ~AppsFailedCold(v)
    <3>1. ASSUME NEW w \in Viewers,
                 \/ Ask(w) \/ Leave(w) \/ Lock(w) \/ Work(w) \/ Respond(w)
          PROVE pc'[v] # "done"
      BY <1>1, <2>3, <3>1
         DEF Ask, Leave, Lock, Hit, Miss, Acquire, AfterApps, Work, AppsAnswered,
             AppsFailed, AppsFailedCold, FluxAnswered, BuildWithoutFlux, Install,
             RefreshSources, Attach, Respond, request
    <3>2. ASSUME Fetch PROVE pc' = pc
      BY <3>2 DEF Fetch, FetchPlain, FetchJobs, FetchMesh, Fetching
    <3>3. QED
      BY <1>1, <2>3, <3>1, <3>2 DEF Next, Tick, vars
  <2>4. QED
    BY <2>1, <2>2, <2>3
<1>2. IInv /\ [Next]_vars =>
        [\A u, v \in Viewers :
           /\ pc[u] = "done" /\ pc[v] # "done" /\ pc'[v] = "done"
           /\ page'[v].draft.at # Never
           => /\ page'[v].draft.at >= page[u].draft.at
              /\ \A s \in Sources : page'[v].src[s] >= page[u].src[s]]_vars
  BY <1>1
<1>3. QED
  BY <1>2, Invariance, PTL DEF Spec, PagesNeverGoBack

(* A Flux list read whole, and the unmanaged section built with it, are    *)
(* never replaced by ones without it.                                      *)
THEOREM FluxNeverForgottenHolds == Spec => FluxNeverForgotten
<1> DEFINE Known == knowsFlux => fluxList
<1>1. Init => Known
  BY DEF Init
<1>2. TypeOK /\ Known /\ [Next]_vars =>
        Known' /\ (fluxList => fluxList') /\ (knowsFlux => knowsFlux')
  <2> SUFFICES ASSUME TypeOK, Known, [Next]_vars
               PROVE Known' /\ (fluxList => fluxList') /\ (knowsFlux => knowsFlux')
    OBVIOUS
  <2>1. CASE UNCHANGED <<fluxList, knowsFlux>>
    BY <2>1
  <2>2. CASE UNCHANGED knowsFlux /\ \E v \in Viewers : FluxAnswered(v)
    BY <2>2 DEF FluxAnswered
  <2>3. CASE \E s \in Plain, r \in Answers : FetchPlain(s, r)
    <3>1. fluxList' = fluxList /\ knowsFlux' \in {fluxList, knowsFlux}
      BY <2>3 DEF FetchPlain, Fetching, Keep, mutable, sections
    <3>2. QED
      BY <3>1
  <2>4. QED
    <3>1. ASSUME NEW v \in Viewers,
                 Ask(v) \/ Leave(v) \/ Lock(v) \/ Work(v) \/ Respond(v)
          PROVE UNCHANGED knowsFlux /\ (UNCHANGED fluxList \/ FluxAnswered(v))
      BY <3>1 DEF Ask, Leave, Lock, Hit, Miss, Work, AppsAnswered, AppsFailed,
                  AppsFailedCold, FluxAnswered, BuildWithoutFlux, Install,
                  RefreshSources, Attach, Respond, mutable, sections
    <3>2. ASSUME Fetch
          PROVE \/ UNCHANGED <<fluxList, knowsFlux>>
                \/ \E s \in Plain, r \in Answers : FetchPlain(s, r)
      BY <3>2 DEF Fetch, FetchJobs, FetchMesh, Fetching, Store, Keep, mutable, sections
    <3>3. QED
      BY <2>1, <2>2, <2>3, <3>1, <3>2 DEF Next, Tick, vars, mutable, sections
<1>3. TypeOK /\ Known /\ [Next]_vars =>
        [(fluxList => fluxList') /\ (knowsFlux => knowsFlux')]_vars
  BY <1>2
<1>4. QED
  BY <1>1, <1>2, <1>3, Typing, PTL DEF Spec, FluxNeverForgotten

-----------------------------------------------------------------------------
(* Implementation of SnapshotRegister.                                     *)

(* The mutex, the detached reads and the goroutines behave as one register *)
(* that every request reads in a single step: Install is the register's    *)
(* Refresh, Attach its Serve or Apologise, and everything in between       *)
(* stutters.                                                               *)
THEOREM Refinement == Spec => ImplementsRegister
<1> USE DEF Register!vars, Register!NoAnswer, Register!Never, Register!Expired
<1> DEFINE Phase == [v \in Viewers |-> IF pc[v] \in {"idle", "done"} THEN pc[v] ELSE "asked"]
           Answer == [v \in Viewers |-> page[v].draft]
<1>1. Init => Register!Init
  BY DEF Init, Register!Init, NoSnap, NoPage, NoDraft, Never
<1>2. ASSUME IInv, IInv', [Next]_vars PROVE [Register!Next]_(Register!vars)
  <2> USE <1>1, CollectorAssumption, NobodyAssumption DEF IInv, TypeOK
  <2>1. CASE Tick
    <3>1. Register!Tick
      BY <1>2, <2>1 DEF Tick, Register!Tick, request, mutable
    <3>2. QED
      BY <3>1 DEF Register!Next
  <2>2. ASSUME NEW v \in Viewers, Ask(v) PROVE Register!Ask(v)
    BY <1>2, <2>2 DEF Ask, Register!Ask, mutable
  <2>3. ASSUME NEW v \in Viewers,
               \/ Leave(v) \/ Lock(v) \/ AppsAnswered(v) \/ AppsFailed(v)
               \/ RefreshSources(v)
        PROVE UNCHANGED Register!vars
    <3>1. /\ UNCHANGED <<now, asked, snap, page>>
          /\ \E next \in {"lock", "apps", "flux", "build", "start", "wait"} :
               /\ pc[v] \notin {"idle", "done"}
               /\ pc' = [pc EXCEPT ![v] = next] \/ pc' = pc
      BY <1>2, <2>3 DEF Leave, Lock, Hit, Miss, Acquire, AfterApps, AppsAnswered,
         AppsFailed, RefreshSources, mutable, request
    <3>2. UNCHANGED Phase
      BY <1>2, <3>1
    <3>3. QED
      BY <3>1, <3>2
  <2>4. ASSUME NEW v \in Viewers, FluxAnswered(v) \/ BuildWithoutFlux(v)
        PROVE Register!Refresh
    <3>1. /\ snap'.at = now /\ UNCHANGED <<now, asked, page>>
          /\ pc[v] \in {"flux", "build"} /\ pc' = [pc EXCEPT ![v] = "start"]
      BY <1>2, <2>4 DEF FluxAnswered, BuildWithoutFlux, Install, request
    <3>2. UNCHANGED Phase /\ Phase[v] = "asked"
      BY <1>2, <3>1
    <3>3. Older(snap.at)
      BY <1>2, <3>1 DEF Underway
    <3>4. QED
      BY <3>1, <3>2, <3>3 DEF Register!Refresh, Older, Never
  <2>5. ASSUME NEW v \in Viewers, AppsFailedCold(v) PROVE Register!Apologise(v)
    <3>1. /\ pc[v] = "apps" /\ pc' = [pc EXCEPT ![v] = "done"] /\ snap.at = Never
          /\ page' = [page EXCEPT ![v].draft.err = TRUE] /\ page[v] = NoPage
          /\ UNCHANGED <<now, asked, snap>>
      BY <1>2, <2>5 DEF AppsFailedCold, Pages, request, mutable
    <3>2. page'[v].draft = [at |-> Never, stale |-> FALSE, err |-> TRUE]
      <4>1. page'[v] = [NoPage EXCEPT !.draft.err = TRUE]
        BY <1>2, <3>1
      <4>2. page'[v].draft = [NoDraft EXCEPT !.err = TRUE]
        BY <4>1 DEF NoPage
      <4>3. QED
        BY <4>2 DEF NoDraft
    <3>3. Answer' = [Answer EXCEPT ![v] = [at |-> Never, stale |-> FALSE, err |-> TRUE]]
      BY <1>2, <3>1, <3>2
    <3>4. Phase[v] = "asked" /\ Phase' = [Phase EXCEPT ![v] = "done"]
      BY <1>2, <3>1
    <3>5. QED
      BY <3>1, <3>3, <3>4 DEF Register!Apologise, Register!Return, Never
  <2>6. ASSUME NEW v \in Viewers, Attach(v)
        PROVE Register!Serve(v) \/ Register!Apologise(v)
    <3>1. /\ pc[v] = "wait" /\ pc' = [pc EXCEPT ![v] = "done"]
          /\ page'[v].draft = draft
          /\ \A w \in Viewers \ {v} : page'[w] = page[w]
          /\ UNCHANGED <<now, asked, snap>>
      BY <1>2, <2>6 DEF Attach, request, mutable
    <3>2. /\ draft.at = snap.at /\ snap.at # Never /\ draft.stale = draft.err
          /\ IF draft.err THEN Older(snap.at) ELSE Current(snap.at, asked[v])
      BY <1>2, <3>1 DEF Underway
    <3>3. draft = [at |-> snap.at, stale |-> draft.err, err |-> draft.err]
      BY <1>2, <3>2 DEF Draft
    <3>4. Answer' = [Answer EXCEPT ![v] = draft]
      BY <1>2, <3>1
    <3>5. Phase[v] = "asked" /\ Phase' = [Phase EXCEPT ![v] = "done"]
      BY <1>2, <3>1
    <3>6. CASE draft.err = TRUE
      BY <1>2, <3>1, <3>2, <3>3, <3>4, <3>5, <3>6
         DEF Register!Apologise, Register!Return, Older, Never
    <3>7. CASE draft.err = FALSE
      <4>1. draft = [at |-> snap.at, stale |-> FALSE, err |-> FALSE]
        BY <3>3, <3>7
      <4>2. (FALSE /\ snap.at # Never) = FALSE
        OBVIOUS
      <4>3. /\ snap.at # Never /\ asked[v] \in Int /\ snap.at \in Int /\ TTL \in Int
            /\ snap.at >= asked[v] \/ snap.at + TTL > asked[v]
        BY <1>2, <3>2, <3>7 DEF Current, Snapshot, Time, Never
      <4>4. Register!Return(v, FALSE)
        BY <3>1, <3>4, <3>5, <4>1, <4>2 DEF Register!Return
      <4>5. QED
        BY <4>3, <4>4 DEF Register!Serve, Never
    <3>8. QED
      BY <1>2, <3>6, <3>7 DEF Draft
  <2>7. ASSUME NEW v \in Viewers, Respond(v) PROVE Register!Respond(v)
    <3>1. /\ pc[v] = "done" /\ pc' = [pc EXCEPT ![v] = "idle"]
          /\ page' = [page EXCEPT ![v] = NoPage]
          /\ asked' = [asked EXCEPT ![v] = 0] /\ UNCHANGED <<now, snap>>
      BY <2>7 DEF Respond, mutable
    <3>2. Answer' = [Answer EXCEPT ![v] = [at |-> Never, stale |-> FALSE, err |-> FALSE]]
      BY <1>2, <3>1 DEF NoPage, NoDraft
    <3>3. Phase[v] = "done" /\ Phase' = [Phase EXCEPT ![v] = "idle"]
      BY <1>2, <3>1
    <3>4. QED
      BY <3>1, <3>2, <3>3 DEF Register!Respond, Never
  <2>8. CASE Fetch
    BY <2>8 DEF Fetch, FetchPlain, FetchJobs, FetchMesh, Fetching, request, mutable
  <2>9. CASE UNCHANGED vars
    BY <2>9 DEF vars, request, mutable
  <2>10. QED
    BY <1>2, <2>1, <2>2, <2>3, <2>4, <2>5, <2>6, <2>7, <2>8, <2>9
       DEF Next, Work, Register!Next
<1>3. QED
  BY <1>1, <1>2, Invariance, PTL DEF Spec, Register!Spec, ImplementsRegister
=============================================================================

---------------------------- MODULE ServingProofs ----------------------------
(***************************************************************************)
(* For any number of viewers: what detection settles on, and why a page    *)
(* that is lost was lost.                                                  *)
(*                                                                         *)
(* The second needs to know how the age of a request is made up of what    *)
(* its own reads took: a request that never waited is as old as they are,  *)
(* and one that met a single slow read is within that read's deadline.     *)
(***************************************************************************)
EXTENDS Serving, TLAPS

Steps == {"apps", "flux", "sections"}

RequestType ==
  [state : {"none", "waiting", "reading", "written", "lost", "cut"},
   age : 0..WriteTimeout, waited : BOOLEAN, hung : SUBSET Steps]

Answer == {"unasked", "yes", "no", "error"}

\* Every variable a theorem is about has its type.
TypeOK ==
  /\ proc \in {"detecting", "wiring", "serving", "stopping", "exited"}
  /\ client \in BOOLEAN /\ answers \in [DOMAIN Resources -> Answer]
  /\ left \in 0..RequestTimeout
  /\ holder \in Viewers \cup {Nobody} /\ step \in Steps /\ spent \in 0..RequestTimeout
  /\ req \in [Viewers -> RequestType]

Limits == RequestTimeout = 6 /\ SourceTimeout = 5 /\ WriteTimeout = 6 /\ Grace = 2

LEMMA LimitsAre == Limits
BY DEF Limits, RequestTimeout, SourceTimeout, WriteTimeout, Grace

LEMMA TypeInit == Init => TypeOK
<1> SUFFICES ASSUME Init PROVE TypeOK
  OBVIOUS
<1>1. answers \in [DOMAIN Resources -> Answer]
  BY DEF Init, Unasked, Answer
<1>2. NoRequest \in RequestType
  BY LimitsAre DEF NoRequest, RequestType, Limits
<1>3. req \in [Viewers -> RequestType]
  BY <1>2 DEF Init
<1>4. QED
  BY <1>1, <1>3, LimitsAre DEF Init, TypeOK, Steps, Limits

(* What writing the page does to the request that held the mutex. *)
LEMMA ReturnType ==
  ASSUME TypeOK, holder # Nobody, Return
  PROVE  /\ req' \in [Viewers -> RequestType] /\ holder' = Nobody /\ spent' = 0 /\ step' = step
         /\ holder \in Viewers
         /\ \A v \in Viewers \ {holder} : req'[v] = req[v]
         /\ req'[holder] = [req[holder] EXCEPT !.state =
                              IF req[holder].age < WriteTimeout THEN "written" ELSE "lost"]
BY DEF TypeOK, Return, RequestType

LEMMA TypeStep == TypeOK /\ [Next]_vars => TypeOK'
<1> SUFFICES ASSUME TypeOK, [Next]_vars PROVE TypeOK'
  OBVIOUS
<1> USE DEF TypeOK
<1>0. Limits
  BY LimitsAre
<1>1. ASSUME NEW r \in DOMAIN Resources, Probe(r) PROVE TypeOK'
  <2>1. answers' \in [DOMAIN Resources -> Answer]
    BY <1>1 DEF Probe, HasResource, Answer
  <2>2. QED
    BY <1>0, <1>1, <2>1 DEF Probe, get, cache, Limits
<1>2. CASE DetectWithoutClient
  BY <1>2 DEF DetectWithoutClient, get, cache
<1>3. CASE Listen
  <2>1. answers' \in [DOMAIN Resources -> Answer]
    BY <1>3 DEF Listen, Unasked, Answer
  <2>2. QED
    BY <1>0, <1>3, <2>1 DEF Listen, get, cache, Limits
<1>4. CASE ListenFails
  BY <1>4 DEF ListenFails, startup, get, cache
<1>5. ASSUME NEW v \in Viewers, Request(v) PROVE TypeOK'
  <2>1. [NoRequest EXCEPT !.state = "waiting"] \in RequestType
    <3>1. NoRequest \in RequestType
      BY <1>0 DEF NoRequest, RequestType, Limits
    <3>2. QED
      BY <3>1 DEF RequestType
  <2>2. req' \in [Viewers -> RequestType]
    BY <1>5, <2>1 DEF Request
  <2>3. QED
    BY <1>5, <2>2 DEF Request, startup, get, cache
<1>6. ASSUME NEW v \in Viewers, Acquire(v) PROVE TypeOK'
  <2>1. [req[v] EXCEPT !.state = "reading"] \in RequestType
    BY DEF RequestType
  <2>2. req' \in [Viewers -> RequestType]
    BY <1>6, <2>1 DEF Acquire
  <2>3. QED
    BY <1>0, <1>6, <2>2 DEF Acquire, startup, cache, Steps, Limits
<1>7. CASE AppsAnswered
  BY <1>0, <1>7 DEF AppsAnswered, Continue, startup, cache, Steps, Limits
<1>8. CASE AppsFailed
  BY <1>0, <1>8 DEF AppsFailed, Continue, startup, cache, Steps, Limits
<1>9. CASE AppsFailedCold
  BY <1>0, <1>9, ReturnType DEF AppsFailedCold, At, startup, cache, Limits
<1>10. CASE FluxEnds
  BY <1>0, <1>10 DEF FluxEnds, Continue, startup, Steps, Limits
<1>11. CASE SectionsEnd
  BY <1>0, <1>11, ReturnType DEF SectionsEnd, At, startup, Limits
<1>12. CASE Signal
  BY <1>0, <1>12 DEF Signal, startup, get, cache, Limits
<1>13. CASE Exit
  <2>1. \A v \in Viewers : [req[v] EXCEPT !.state = "cut"] \in RequestType
    BY DEF RequestType
  <2>2. req' \in [Viewers -> RequestType]
    BY <1>13, <2>1 DEF Exit
  <2>3. QED
    BY <1>13, <2>2 DEF Exit, startup, get, cache
<1>14. CASE Tick
  <2>1. ASSUME NEW v \in Viewers PROVE req'[v] \in RequestType
    <3>1. Older(req[v].age, WriteTimeout) \in 0..WriteTimeout
      BY <1>0 DEF RequestType, Older, Limits
    <3>2. req[v] \in RequestType /\ step \in Steps
      OBVIOUS
    <3>3. req'[v] = IF v \notin Open THEN req[v]
                    ELSE [req[v] EXCEPT !.age = Older(@, WriteTimeout), !.waited = @ \/ v # holder,
                            !.hung = IF v = holder THEN @ \cup {step} ELSE @]
      BY <1>14 DEF Tick
    <3>4. CASE v = holder
      <4>1. req'[v] \in {req[v], [req[v] EXCEPT !.age = Older(@, WriteTimeout), !.hung = @ \cup {step}]}
        BY <3>2, <3>3, <3>4 DEF RequestType
      <4>2. req[v].hung \cup {step} \in SUBSET Steps
        BY <3>2 DEF RequestType
      <4>3. QED
        BY <3>1, <3>2, <4>1, <4>2 DEF RequestType
    <3>5. CASE v # holder
      <4>1. req'[v] \in {req[v], [req[v] EXCEPT !.age = Older(@, WriteTimeout), !.waited = TRUE]}
        BY <3>2, <3>3, <3>5 DEF RequestType
      <4>2. QED
        BY <3>1, <3>2, <4>1 DEF RequestType
    <3>6. QED
      BY <3>4, <3>5
  <2>2. req' \in [Viewers -> RequestType]
    BY <1>14, <2>1 DEF Tick
  <2>3. /\ holder = Nobody \/ spent < Deadline
        /\ spent' = IF holder = Nobody THEN 0 ELSE spent + 1
        /\ left' = IF left > 0 THEN left - 1 ELSE 0
    BY <1>14, Zenon DEF Tick
  <2>4. spent' \in 0..RequestTimeout /\ left' \in 0..RequestTimeout
    BY <1>0, <2>3 DEF Deadline, Limits
  <2>5. QED
    BY <1>14, <2>2, <2>4 DEF Tick, startup
<1>15. CASE UNCHANGED vars
  BY <1>15 DEF vars, startup, get, cache
<1>16. QED
  BY <1>1, <1>2, <1>3, <1>4, <1>5, <1>6, <1>7, <1>8, <1>9, <1>10, <1>11, <1>12, <1>13, <1>14, <1>15 DEF Next

(* Every variable keeps its type. *)
THEOREM Typing == Spec => []TypeOK
<1>1. QED
  BY TypeInit, TypeStep, PTL DEF Spec

-----------------------------------------------------------------------------
(* Detection.                                                              *)

\* Answers are only there while or after they were asked for, and a process
\* without a client asked for none.
Detected ==
  /\ SourcesBelieved
  /\ ~client => answers = Unasked

(* Once nothing is left to ask, what was not found was denied or failed.   *)
LEMMA AskedInFull ==
  ASSUME NEW a \in [DOMAIN Resources -> Answer], Pending(a) = {}
  PROVE  /\ OrArgoCD(Found(a)) # {}
         /\ \A r \in DOMAIN Resources : Resources[r] \notin OrArgoCD(Found(a)) => a[r] \in {"no", "error"}
<1> DEFINE A == "applications"  H == "helmreleases"  K == "kustomizations"
<1>1. /\ DOMAIN Resources = {A, H, K}
      /\ Resources[A] = "argocd" /\ Resources[H] = "flux" /\ Resources[K] = "flux"
  BY DEF Resources
<1>2. a[A] \in Answer /\ a[H] \in Answer /\ a[K] \in Answer
  BY <1>1
<1>3. /\ a[A] # "unasked" /\ a[H] # "unasked"
      /\ a[H] \in {"no", "error"} => a[K] # "unasked"
  BY DEF Pending
<1>4. \A r \in DOMAIN Resources : a[r] = "yes" => Resources[r] \in OrArgoCD(Found(a))
  BY DEF Found, OrArgoCD
<1>5. OrArgoCD(Found(a)) # {}
  BY DEF OrArgoCD
<1>6. \A r \in {A, H, K} : Resources[r] \notin OrArgoCD(Found(a)) => a[r] \in {"no", "error"}
  BY <1>1, <1>2, <1>3, <1>4 DEF Answer
<1>7. QED
  BY <1>1, <1>5, <1>6

LEMMA DetectedStep == TypeOK /\ Detected /\ [Next]_vars => Detected'
<1> SUFFICES ASSUME TypeOK, Detected, [Next]_vars PROVE Detected'
  OBVIOUS
<1> USE DEF Detected, SourcesBelieved
<1>1. ASSUME NEW r \in DOMAIN Resources, Probe(r) PROVE Detected'
  <2>1. answers' \in [DOMAIN Resources -> Answer]
    BY <1>1 DEF Probe, HasResource, Answer, TypeOK
  <2>2. /\ proc = "detecting" /\ client /\ client' = client
        /\ IF Pending(answers') = {}
             THEN sources' = OrArgoCD(Found(answers')) /\ proc' = "wiring"
             ELSE proc' = proc
    BY <1>1 DEF Probe
  <2>3. QED
    BY <2>1, <2>2, AskedInFull
<1>2. CASE DetectWithoutClient
  BY <1>2 DEF DetectWithoutClient
<1>3. CASE Listen
  BY <1>3 DEF Listen
<1>4. CASE UNCHANGED <<client, sources, answers>> /\ proc' \in {proc, "exited", "stopping"}
  BY <1>4
<1>5. ASSUME \/ ListenFails \/ Signal \/ Exit \/ Tick \/ UNCHANGED vars
             \/ AppsAnswered \/ AppsFailed \/ AppsFailedCold \/ FluxEnds \/ SectionsEnd
             \/ \E v \in Viewers : Request(v) \/ Acquire(v)
      PROVE  UNCHANGED <<client, sources, answers>> /\ proc' \in {proc, "exited", "stopping"}
  BY <1>5 DEF ListenFails, Signal, Exit, Tick, vars, AppsAnswered, AppsFailed, AppsFailedCold,
              FluxEnds, SectionsEnd, Request, Acquire, startup
<1>6. QED
  BY <1>1, <1>2, <1>3, <1>4, <1>5 DEF Next

(* Detection never passes over a controller that was found, nor settles on *)
(* no source at all, whichever probes fail and in whatever order.          *)
THEOREM SourcesBelievedHolds == Spec => []SourcesBelieved
<1>1. Init => Detected
  BY DEF Init, Detected, SourcesBelieved, ParseSources
<1>2. Detected => SourcesBelieved
  BY DEF Detected
<1>3. QED
  BY <1>1, <1>2, DetectedStep, Typing, PTL DEF Spec
-----------------------------------------------------------------------------
(* Lost pages.                                                             *)

\* A request that never waited, and met no slow Flux read, is no older than
\* its reads of the Applications and of the sections explain.
Within(r) ==
  /\ step # "sections" => "sections" \notin r.hung
  /\ "apps" \notin r.hung => r.age <= IF step = "sections" THEN spent ELSE 0
  /\ step = "apps" => r.age <= spent
  /\ "sections" \notin r.hung => r.age <= SourceTimeout

Excused(r) == r.waited \/ "flux" \in r.hung \/ {"apps", "sections"} \subseteq r.hung

\* What is true of one request while the process runs.
Timely(v, r) ==
  /\ r.state = "reading" <=> v = holder
  /\ r.state = "waiting" /\ ~r.waited => r.age = 0 /\ r.hung = {}
  /\ proc = "stopping" /\ r.state \in {"waiting", "reading"} => r.age + left >= Grace
  /\ v = holder /\ ~r.waited /\ "flux" \notin r.hung => Within(r)

Settled(r) ==
  /\ r.state = "lost" => Excused(r)
  /\ r.state = "cut" => r.age >= Grace

Explained ==
  /\ proc # "exited" => /\ step # "flux" => spent <= SourceTimeout
                        /\ \A v \in Viewers : Timely(v, req[v])
  /\ \A v \in Viewers : Settled(req[v])

NobodyIsNoViewer == Nobody \notin Viewers

(* A page that is written late has an excuse. *)
LEMMA LateIsExcused ==
  ASSUME TypeOK, Explained, proc # "exited", holder \in Viewers,
         ~(req[holder].age < WriteTimeout)
  PROVE  Excused(req[holder])
<1> DEFINE r == req[holder]
<1>1. r \in RequestType /\ Timely(holder, r) /\ (step # "flux" => spent <= SourceTimeout)
  BY DEF TypeOK, Explained
<1>2. r.age = 6 /\ SourceTimeout = 5 /\ spent \in Nat
  BY <1>1, LimitsAre DEF TypeOK, RequestType, Limits
<1>3. CASE r.waited \/ "flux" \in r.hung
  BY <1>3 DEF Excused
<1>4. CASE ~r.waited /\ "flux" \notin r.hung
  <2>1. Within(r)
    BY <1>1, <1>4 DEF Timely
  <2>2. "sections" \in r.hung /\ step = "sections"
    BY <1>2, <2>1 DEF Within
  <2>3. "apps" \in r.hung
    BY <1>1, <1>2, <2>1, <2>2 DEF Within
  <2>4. QED
    BY <2>2, <2>3 DEF Excused
<1>5. QED
  BY <1>3, <1>4

(* Writing the page settles the request and disturbs no other. *)
LEMMA ReturnStep ==
  ASSUME TypeOK, Explained, NobodyIsNoViewer, proc # "exited", holder # Nobody, Return,
         proc' = proc, left' = left
  PROVE  Explained'
<1>1. /\ holder' = Nobody /\ spent' = 0 /\ step' = step /\ holder \in Viewers
      /\ \A v \in Viewers \ {holder} : req'[v] = req[v]
      /\ req'[holder] = [req[holder] EXCEPT !.state =
                           IF req[holder].age < WriteTimeout THEN "written" ELSE "lost"]
  BY ReturnType
<1>2. req[holder] \in RequestType
  BY <1>1 DEF TypeOK
<1>3. /\ req'[holder].state \in {"written", "lost"}
      /\ req'[holder].state = "lost" => Excused(req'[holder])
  <2>1. CASE req[holder].age < WriteTimeout
    BY <1>1, <1>2, <2>1 DEF RequestType
  <2>2. CASE ~(req[holder].age < WriteTimeout)
    BY <1>1, <1>2, <2>2, LateIsExcused DEF RequestType, Excused
  <2>3. QED
    BY <2>1, <2>2
<1>4. ASSUME NEW v \in Viewers PROVE Timely(v, req[v])' /\ Settled(req[v])'
  <2>1. v # holder'
    BY <1>1 DEF NobodyIsNoViewer
  <2>2. CASE v = holder
    BY <1>3, <2>1, <2>2 DEF Timely, Settled
  <2>3. CASE v # holder
    BY <1>1, <2>1, <2>3 DEF Explained, Timely, Settled, Excused
  <2>4. QED
    BY <2>2, <2>3
<1>5. 0 <= SourceTimeout
  BY LimitsAre DEF Limits
<1>6. QED
  BY <1>1, <1>4, <1>5 DEF Explained

(* The next read begins with no time spent on it, and the reads never go   *)
(* back to an earlier one.                                                 *)
LEMMA ContinueStep ==
  ASSUME TypeOK, Explained, proc # "exited", NEW s \in {"flux", "sections"},
         step = "apps" \/ (step = "flux" /\ s = "sections"), Continue(s),
         proc' = proc, left' = left
  PROVE  Explained'
<1>1. step' = s /\ spent' = 0 /\ holder' = holder /\ req' = req
  BY DEF Continue
<1>2. SourceTimeout = 5
  BY LimitsAre DEF Limits
<1>3. ASSUME NEW v \in Viewers PROVE Timely(v, req[v])' /\ Settled(req[v])'
  <2>1. req[v].age \in Nat
    BY LimitsAre DEF TypeOK, RequestType, Limits
  <2>2. Within(req[v]) => Within(req[v])'
    BY <1>1, <1>2, <2>1 DEF Within
  <2>3. QED
    BY <1>1, <2>2 DEF Explained, Timely, Settled, Excused
<1>4. QED
  BY <1>1, <1>2, <1>3 DEF Explained

LEMMA ExplainedStep == TypeOK /\ Explained /\ NobodyIsNoViewer /\ [Next]_vars => Explained'
<1> SUFFICES ASSUME TypeOK, Explained, NobodyIsNoViewer, [Next]_vars PROVE Explained'
  OBVIOUS
<1>0. Limits
  BY LimitsAre
<1>1. ASSUME UNCHANGED <<get, req>>, proc' # "stopping", proc # "exited" \/ proc' = "exited"
      PROVE  Explained'
  BY <1>1 DEF Explained, Timely, Settled, Excused, Within, get
<1>2. ASSUME \/ \E r \in DOMAIN Resources : Probe(r)
             \/ DetectWithoutClient \/ Listen \/ ListenFails
      PROVE  Explained'
  <2>1. UNCHANGED <<get, req>> /\ proc' # "stopping" /\ proc # "exited"
    BY <1>2 DEF Probe, DetectWithoutClient, Listen, ListenFails
  <2>2. QED
    BY <1>1, <2>1
<1>3. ASSUME NEW w \in Viewers, Request(w) PROVE Explained'
  <2>1. /\ proc = "serving" /\ proc' = proc /\ UNCHANGED <<left, holder, step, spent>>
        /\ w # holder
        /\ \A v \in Viewers \ {w} : req'[v] = req[v]
        /\ req'[w] = [NoRequest EXCEPT !.state = "waiting"]
    BY <1>3 DEF Request, get, TypeOK, Explained, Timely
  <2>2. req'[w].state = "waiting" /\ req'[w].age = 0 /\ req'[w].hung = {}
    BY <2>1 DEF NoRequest
  <2>3. ASSUME NEW v \in Viewers PROVE Timely(v, req[v])' /\ Settled(req[v])'
    BY <2>1, <2>2 DEF Explained, Timely, Settled, Excused, Within
  <2>4. QED
    BY <2>1, <2>3 DEF Explained
<1>4. ASSUME NEW w \in Viewers, Acquire(w) PROVE Explained'
  <2>1. /\ proc # "exited" /\ proc' = proc /\ left' = left
        /\ holder = Nobody /\ holder' = w /\ spent' = 0 /\ step' \in {"apps", "sections"}
        /\ req[w].state = "waiting"
        /\ \A v \in Viewers \ {w} : req'[v] = req[v]
    BY <1>4 DEF Acquire, TypeOK
  <2>0. req'[w] = [req[w] EXCEPT !.state = "reading"]
    BY <1>4 DEF Acquire, TypeOK
  <2>2. /\ req'[w].state = "reading" /\ req'[w].age = req[w].age
        /\ req'[w].hung = req[w].hung /\ req'[w].waited = req[w].waited
    BY <2>0 DEF TypeOK, RequestType
  <2>3. Timely(w, req[w])
    BY <2>1 DEF Explained
  <2>4. ASSUME NEW v \in Viewers PROVE Timely(v, req[v])' /\ Settled(req[v])'
    <3>1. CASE v = w
      <4>1. Settled(req[w])'
        BY <2>2 DEF Settled
      <4>2. ~req[w].waited => Within(req[w])'
        BY <1>0, <2>1, <2>2, <2>3 DEF Timely, Within, Limits
      <4>3. Timely(w, req[w])'
        BY <2>1, <2>2, <2>3, <4>2 DEF Timely
      <4>4. QED
        BY <3>1, <4>1, <4>3
    <3>2. CASE v # w
      BY <2>1, <3>2 DEF Explained, Timely, Settled, Excused, NobodyIsNoViewer
    <3>3. QED
      BY <3>1, <3>2
  <2>5. QED
    BY <1>0, <2>1, <2>4 DEF Explained, Limits
<1>5. CASE AppsAnswered
  BY <1>5, ContinueStep DEF AppsAnswered, At, startup
<1>6. CASE AppsFailed
  BY <1>6, ContinueStep DEF AppsFailed, At, startup
<1>7. CASE AppsFailedCold
  BY <1>7, ReturnStep DEF AppsFailedCold, At, startup
<1>8. CASE FluxEnds
  BY <1>8, ContinueStep DEF FluxEnds, At, startup
<1>9. CASE SectionsEnd
  BY <1>9, ReturnStep DEF SectionsEnd, At, startup
<1>10. CASE Signal
  <2>1. CASE proc' = "exited"
    BY <1>1, <1>10, <2>1 DEF Signal
  <2>2. CASE proc = "serving" /\ proc' = "stopping" /\ left' = Grace /\ UNCHANGED <<get, req>>
    <3>1. \A v \in Viewers : req[v].age \in Nat
      BY <1>0 DEF TypeOK, RequestType, Limits
    <3>2. \A v \in Viewers : req[v].age + Grace >= Grace
      BY <1>0, <3>1 DEF Limits
    <3>3. QED
      BY <2>2, <3>2 DEF Explained, Timely, Settled, Excused, Within, get
  <2>3. QED
    BY <1>10, <2>1, <2>2 DEF Signal
<1>11. CASE Exit
  <2>1. ASSUME NEW v \in Viewers PROVE Settled(req[v])'
    <3>1. /\ proc = "stopping" /\ (v \in Open => left = 0)
          /\ req'[v] = IF v \in Open THEN [req[v] EXCEPT !.state = "cut"] ELSE req[v]
      BY <1>11 DEF Exit
    <3>2. CASE v \in Open
      <4>1. req[v].age + 0 >= Grace /\ req[v].age \in Nat
        BY <1>0, <3>1, <3>2 DEF Open, Explained, Timely, TypeOK, RequestType, Limits
      <4>2. req'[v].state = "cut" /\ req'[v].age = req[v].age
        BY <3>1, <3>2 DEF TypeOK, RequestType
      <4>3. QED
        BY <1>0, <4>1, <4>2 DEF Settled, Limits
    <3>3. CASE v \notin Open
      BY <3>1, <3>3 DEF Explained, Settled, Excused
    <3>4. QED
      BY <3>2, <3>3
  <2>2. proc' = "exited"
    BY <1>11 DEF Exit
  <2>3. QED
    BY <2>1, <2>2 DEF Explained
<1>12. CASE Tick
  <2>1. /\ proc # "exited" /\ proc' = proc /\ UNCHANGED <<holder, step>>
        /\ proc = "stopping" => left > 0
        /\ IF holder = Nobody THEN Open = {} ELSE spent < Deadline
        /\ left' = IF left > 0 THEN left - 1 ELSE 0
        /\ spent' = IF holder = Nobody THEN 0 ELSE spent + 1
    BY <1>12, Zenon DEF Tick
  <2>2. spent \in Nat /\ (step # "flux" => spent' <= SourceTimeout)
    BY <1>0, <2>1 DEF Deadline, TypeOK, Limits
  <2>3. ASSUME NEW v \in Viewers PROVE Timely(v, req[v])' /\ Settled(req[v])'
    <3>1. req'[v] = IF v \notin Open THEN req[v]
                    ELSE [req[v] EXCEPT !.age = Older(@, WriteTimeout), !.waited = @ \/ v # holder,
                            !.hung = IF v = holder THEN @ \cup {step} ELSE @]
      BY <1>12 DEF Tick
    <3>2. req[v] \in RequestType /\ Timely(v, req[v]) /\ Settled(req[v])
      BY <2>1 DEF TypeOK, Explained
    <3>3. CASE v \notin Open
      BY <2>1, <3>1, <3>2, <3>3 DEF Open, Timely, Settled, Excused, NobodyIsNoViewer
    <3>4. CASE v \in Open
      <4> DEFINE r == req[v]  n == req'[v]
      <4>1. /\ n.state = r.state /\ n.age = Older(r.age, WriteTimeout)
            /\ v # holder => n.waited = TRUE /\ n.hung = r.hung
            /\ v = holder => n.hung = r.hung \cup {step} /\ n.waited = r.waited
        BY <3>1, <3>2, <3>4 DEF RequestType
      <4>2. r.state \in {"waiting", "reading"} /\ r.age \in 0..6
        BY <1>0, <3>2, <3>4 DEF Open, RequestType, Limits
      <4>3. n.age = IF r.age < 6 THEN r.age + 1 ELSE r.age
        BY <1>0, <4>1 DEF Older, Limits
      <4>4. Settled(n)
        BY <4>1, <4>2 DEF Settled
      <4>5. proc = "stopping" => n.age + left' >= Grace
        BY <1>0, <2>1, <3>2, <4>2, <4>3 DEF Timely, TypeOK, Limits
      <4>6. r.state = "waiting" => v # holder
        BY <3>2 DEF Timely
      <4>7. ASSUME v = holder, ~n.waited, "flux" \notin n.hung PROVE Within(r)'
        <5>1. step # "flux" /\ ~r.waited /\ "flux" \notin r.hung /\ n.hung = r.hung \cup {step}
          BY <4>1, <4>7
        <5>2. Within(r)
          BY <3>2, <4>7, <5>1 DEF Timely
        <5>3. spent < 5 /\ spent' = spent + 1 /\ holder # Nobody
          BY <1>0, <2>1, <4>7, <5>1 DEF Deadline, NobodyIsNoViewer, Limits
        <5>4. step \in {"apps", "sections"}
          BY <5>1 DEF TypeOK, Steps
        <5>5. CASE step = "apps"
          BY <1>0, <2>1, <2>2, <4>2, <4>3, <5>1, <5>2, <5>3, <5>5 DEF Within, Limits
        <5>6. CASE step = "sections"
          BY <1>0, <2>1, <2>2, <4>2, <4>3, <5>1, <5>2, <5>3, <5>6 DEF Within, Limits
        <5>7. QED
          BY <5>4, <5>5, <5>6
      <4>8. (n.state = "reading" <=> v = holder) /\ (n.state = "waiting" => n.waited)
        BY <3>2, <4>1, <4>6 DEF Timely
      <4>9. QED
        BY <2>1, <4>4, <4>5, <4>7, <4>8 DEF Timely
    <3>5. QED
      BY <3>3, <3>4
  <2>4. QED
    BY <2>1, <2>2, <2>3 DEF Explained
<1>13. CASE UNCHANGED vars
  BY <1>13 DEF vars, startup, get, Explained, Timely, Settled, Excused, Within
<1>14. QED
  BY <1>2, <1>3, <1>4, <1>5, <1>6, <1>7, <1>8, <1>9, <1>10, <1>11, <1>12, <1>13 DEF Next

(* A page is lost only if its viewer queued, met a slow Flux read, or met  *)
(* two slow reads; a request is cut off only after the grace period.       *)
THEOREM LossIsExplainedHolds == Spec => []LossIsExplained
<1>1. Init => Explained
  <2> SUFFICES ASSUME Init PROVE Explained
    OBVIOUS
  <2>1. \A v \in Viewers : req[v].state = "none" /\ v # holder
    BY ServingAssumption DEF Init, NoRequest
  <2>2. spent <= SourceTimeout /\ proc # "stopping"
    BY LimitsAre DEF Init, Limits
  <2>3. QED
    BY <2>1, <2>2 DEF Explained, Timely, Settled
<1>2. Explained => LossIsExplained
  BY DEF Explained, Settled, Excused, LossIsExplained
<1>3. NobodyIsNoViewer
  BY ServingAssumption DEF NobodyIsNoViewer
<1>4. QED
  BY <1>1, <1>2, <1>3, ExplainedStep, Typing, PTL DEF Spec
=============================================================================

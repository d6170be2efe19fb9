---------------------------- MODULE RunningPods ----------------------------
(***************************************************************************)
(* internal/kube/pods.go: ListRunningPods pages through every Running pod  *)
(* of the cluster with limit and continue, up to a page cap.               *)
(*                                                                         *)
(* The API server is external.  The first page fixes the state the whole   *)
(* list is served from; each page scans on from where the token points and *)
(* returns the matching pods, at most a page full of them and perhaps none *)
(* at all, since the field selector is applied after paging.  Nothing says *)
(* that a page gets any further.  A token goes stale when the server       *)
(* compacts its history.                                                   *)
(***************************************************************************)
EXTENDS Integers, FiniteSets

CONSTANTS
  Objects,     \* how many pods there are, running or not, in key order
  PageLimit,   \* runningPodsPageLimit
  MaxPages,    \* runningPodsMaxPages
  Changes      \* bound on how often they come and go during one call

ASSUME PagingAssumption ==
  /\ Objects \in Nat /\ Changes \in Nat
  /\ PageLimit \in Nat \ {0} /\ MaxPages \in Nat \ {0}

VARIABLES
  pods,      \* the pods running now
  changes,   \* how often that has changed
  view,      \* the pods running when the first page was served
  token,     \* key of the last object served, the continue token
  stale,     \* the server has compacted the state the token refers to
  page,      \* pages read
  collected, \* out.Items
  result     \* how ListRunningPods returned

server == <<pods, changes, view, token, stale>>
paging == <<server, page, collected, result>>

Keys == 1..Objects

PagingInit ==
  /\ pods \in SUBSET Keys
  /\ changes = 0 /\ view = {} /\ token = 0 /\ stale = FALSE
  /\ page = 0 /\ collected = {} /\ result = "none"

Running == result = "none"

\* Pods start and stop while the call pages on.
Change ==
  /\ Running /\ changes < Changes
  /\ \E k \in Keys : pods' = IF k \in pods THEN pods \ {k} ELSE pods \cup {k}
  /\ changes' = changes + 1
  /\ UNCHANGED <<view, token, stale, page, collected, result>>

Compact ==
  /\ Running /\ page > 0 /\ ~stale
  /\ stale' = TRUE
  /\ UNCHANGED <<pods, changes, view, token, page, collected, result>>

-----------------------------------------------------------------------------
(* The answer to one request, scanning up to key last.                     *)

Served == IF page = 0 THEN pods ELSE view
Items(last) == Served \cap (token + 1 .. last)

Mut_PageUntilShort(last) ==                      \* a short page ends the list
  /\ Running /\ page < MaxPages /\ ~stale
  /\ last \in token .. Objects /\ Cardinality(Items(last)) <= PageLimit
  /\ view' = Served /\ token' = last /\ page' = page + 1
  /\ collected' = collected \cup Items(last)
  /\ result' = CASE last = Objects \/ Cardinality(Items(last)) < PageLimit -> "ok"
                 [] last < Objects /\ page' = MaxPages -> "tooLarge"
                 [] OTHER -> "none"
  /\ UNCHANGED <<pods, changes, stale>>

\* One turn of the loop: the page is appended, an empty continue ends the
\* list, and a continue on the last page allowed makes it too large.
Page(last) ==
  /\ Running /\ page < MaxPages /\ ~stale
  /\ last \in token .. Objects /\ Cardinality(Items(last)) <= PageLimit
  /\ view' = Served /\ token' = last /\ page' = page + 1
  /\ collected' = collected \cup Items(last)
  /\ result' = CASE last = Objects -> "ok"
                 [] last < Objects /\ page' = MaxPages -> "tooLarge"
                 [] OTHER -> "none"
  /\ UNCHANGED <<pods, changes, stale>>

Mut_PageFailedRestarts ==                        \* starts over when the token expires
  /\ Running
  /\ view' = {} /\ token' = 0 /\ stale' = FALSE /\ page' = 0 /\ collected' = {}
  /\ UNCHANGED <<pods, changes, result>>

\* A denied, timed out or expired page fails the whole call.
PageFailed ==
  /\ Running
  /\ result' = "error"
  /\ UNCHANGED <<server, page, collected>>

\* One request: a page or an error.
PagingRequest == PageFailed \/ \E last \in 0..Objects : Page(last)

PagingNext == Change \/ Compact \/ PagingRequest

PagingSpec == PagingInit /\ [][PagingNext]_paging

-----------------------------------------------------------------------------
(* Properties.                                                             *)

\* Every variable has its type.
PagingTypeOK ==
  /\ pods \subseteq Keys /\ view \subseteq Keys /\ collected \subseteq Keys
  /\ changes \in 0..Changes /\ token \in 0..Objects /\ page \in 0..MaxPages
  /\ stale \in BOOLEAN
  /\ result \in {"none", "ok", "tooLarge", "error"}

\* A list that is returned is the whole list, as it stood when the first page
\* was read: a short or an empty page never ends it early, and pods that come
\* and go between pages neither appear in it nor drop out of it.  And a cluster
\* with more running pods than the cap can carry is never described by a list,
\* "rather than silently returning a truncated answer".
NoTruncatedAnswer ==
  result = "ok" => collected = view /\ Cardinality(view) <= PageLimit * MaxPages
=============================================================================

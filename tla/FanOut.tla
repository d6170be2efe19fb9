------------------------------- MODULE FanOut -------------------------------
(***************************************************************************)
(* internal/kube: the lists that are read one goroutine per kind, and what *)
(* internal/status keeps of the joined answer.                             *)
(*                                                                         *)
(* ListWorkloads, ListFlux and ListJobs start one GetJSON per kind under   *)
(* one deadline, wait for all, and return what was read together with the  *)
(* joined error.  Each caller has its own rule for a joined error:         *)
(* fetchWorkloads keeps a partial answer unless a kind was cut short,      *)
(* fetchJobs keeps nothing unless both kinds answered, and AppendFlux      *)
(* takes whatever there is.  One call at a time: c.mu is held throughout.  *)
(***************************************************************************)
EXTENDS FiniteSets

Kinds == [workloads |-> {"Deployment", "StatefulSet", "DaemonSet"},
          flux      |-> {"HelmRelease", "Kustomization"},
          jobs      |-> {"Job", "CronJob"}]

CONSTANT Lists     \* which of the three lists this instance reads

VARIABLES
  list,      \* the list that is read
  calling,   \* a ListXxx call is under way
  expired,   \* its deadline has passed
  inflight,  \* kinds whose goroutine has not finished
  out,       \* kinds whose items were appended
  errs,      \* kinds with an error, and which: an answer, or a read cut short
  kept       \* what the caller cached last: its kinds, its errors

vars == <<list, calling, expired, inflight, out, errs, kept>>

Errors == {"answered", "cut"}
Nothing == [known |-> FALSE, kinds |-> {}, errs |-> <<>>]

Init ==
  /\ list \in Lists
  /\ calling = FALSE /\ expired = FALSE
  /\ inflight = {} /\ out = {} /\ errs = <<>>
  /\ kept = Nothing

All == Kinds[list]

Call ==
  /\ ~calling
  /\ calling' = TRUE /\ expired' = FALSE
  /\ inflight' = All /\ out' = {} /\ errs' = <<>>
  /\ UNCHANGED <<list, kept>>

\* context.WithTimeout, of ListXxx or of the refresh that called it.
Deadline ==
  /\ calling /\ ~expired
  /\ expired' = TRUE
  /\ UNCHANGED <<list, calling, inflight, out, errs, kept>>

Finish(k) ==
  /\ k \in inflight
  /\ inflight' = inflight \ {k}
  /\ UNCHANGED <<list, calling, expired, kept>>

Put(f, k, e) == [j \in DOMAIN f \cup {k} |-> IF j = k THEN e ELSE f[j]]

Answered(k) == Finish(k) /\ out' = out \cup {k} /\ UNCHANGED errs

Mut_FailedShared(k, e) ==                        \* one err variable for all goroutines
  /\ Finish(k)
  /\ e = "cut" => expired
  /\ errs' = IF inflight = {k} THEN Put(errs, k, e) ELSE errs
  /\ UNCHANGED out

\* errs[i] = err: a denial or an outage, or the deadline.
Failed(k, e) ==
  /\ Finish(k)
  /\ e = "cut" => expired
  /\ errs' = Put(errs, k, e)
  /\ UNCHANGED out

-----------------------------------------------------------------------------
(* The caller, with the joined error.                                      *)

Joined    == [known |-> TRUE, kinds |-> out, errs |-> errs]

Abandoned == \E k \in DOMAIN errs : errs[k] = "cut"

Keeps == CASE list = "flux"      -> TRUE
           [] list = "workloads" -> ~Abandoned
           [] list = "jobs"      -> errs = <<>>

Mut_ReturnWaits ==                               \* waits for every kind to be read
  /\ calling /\ inflight = {} /\ out = All
  /\ kept' = IF Keeps THEN Joined ELSE kept
  /\ calling' = FALSE /\ expired' = FALSE
  /\ out' = {} /\ errs' = <<>>
  /\ UNCHANGED <<list, inflight>>

\* wg.Wait, the return, and what the caller does with it.
Return ==
  /\ calling /\ inflight = {}
  /\ kept' = IF Keeps THEN Joined ELSE kept
  /\ calling' = FALSE /\ expired' = FALSE
  /\ out' = {} /\ errs' = <<>>
  /\ UNCHANGED <<list, inflight>>

Read(k) == Answered(k) \/ \E e \in Errors : Failed(k, e)

Next ==
  \/ Call \/ Deadline \/ Return
  \/ \E k \in All : Read(k)

Spec == Init /\ [][Next]_vars

\* The deadline fires, GetJSON returns once it has, and the joined call goes on.
Fairness ==
  /\ WF_vars(Deadline) /\ WF_vars(Return)
  /\ \A k \in UNION {Kinds[l] : l \in Lists} : WF_vars(Read(k) /\ expired)

FairSpec == Spec /\ Fairness

-----------------------------------------------------------------------------
(* Properties.                                                             *)

\* What is cached is honest: every kind it was to hold is in it or in its
\* error, never silently missing; an answer cut short "says nothing about the
\* cluster" and is never what is cached, outside Get's own Flux read; and the
\* jobs shown are always from a read in which both kinds answered.
KeptIsHonest ==
  kept.known =>
    /\ kept.kinds \cup DOMAIN kept.errs = All
    /\ list # "flux" => \A k \in DOMAIN kept.errs : kept.errs[k] # "cut"
    /\ list = "jobs" => kept.kinds = All

\* Every call returns, however many of its kinds hang.
CallReturns == calling ~> ~calling
=============================================================================

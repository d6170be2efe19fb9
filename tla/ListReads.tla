------------------------------ MODULE ListReads ------------------------------
(***************************************************************************)
(* The two ways internal/kube takes more than one request to read a list:  *)
(* one request per kind, all at once, and page after page.                 *)
(*                                                                         *)
(* refreshSources runs them next to each other, and they share nothing     *)
(* before their section is attached, so a behaviour follows one of them.   *)
(***************************************************************************)
EXTENDS WorkloadSection, RunningPods

VARIABLE way     \* "kinds" or "pages", the read that is followed

joint == <<what, calling, expired, inflight, answered, errs, kept, section>>

ReadsInit ==
  /\ SectionInit /\ PagingInit
  /\ \/ way = "kinds" /\ pods = {}
     \/ way = "pages" /\ what = "jobs" /\ flux = {}

KindsNext == way = "kinds" /\ SectionNext /\ UNCHANGED <<way, paging>>
PagesNext == way = "pages" /\ PagingNext /\ UNCHANGED <<way, joint>>

Request == way = "pages" /\ PagingRequest /\ UNCHANGED <<way, joint>>

ReadsNext == KindsNext \/ PagesNext

ReadsSpec == ReadsInit /\ [][ReadsNext]_<<way, joint, paging>>

\* Each request ends, with a page or with an error, within RequestTimeout.
FairReads == ReadsSpec /\ SectionFairness /\ WF_paging(Request)

-----------------------------------------------------------------------------
(* Properties.                                                             *)

\* Every read returns, however many of its kinds hang and however the server
\* pages, and one of workloads that is kept becomes a section.
EveryReadEnds ==
  /\ SectionAppears
  /\ way = "pages" ~> result # "none"
=============================================================================

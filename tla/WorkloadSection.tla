--------------------------- MODULE WorkloadSection ---------------------------
(***************************************************************************)
(* internal/status/collector.go: fetchWorkloads, from the first of the     *)
(* three concurrent reads to the section of rows.                          *)
(*                                                                         *)
(* FanOut and Unmanaged composed: BuildUnmanaged runs over the workloads   *)
(* of the kinds that answered, if the caller keeps the answer, and the     *)
(* section then carries the joined error.  The other two lists that are    *)
(* read this way, of jobs and of Flux objects, have callers of their own.  *)
(* A section is built from the first read that is kept.                    *)
(***************************************************************************)
EXTENDS Unmanaged

CONSTANTS
  Reads,    \* which of the lists "workloads", "jobs" and "flux" are read
  KindOf    \* the kind of each workload

ASSUME ReadsAssumption ==
  /\ Reads \subseteq {"workloads", "jobs", "flux"}
  /\ \A l \in Lists : \A w \in l : KindOf[w] \in {"Deployment", "StatefulSet", "DaemonSet"}

VARIABLES
  what, calling, expired, inflight, answered, errs, kept,   \* of FanOut
  cluster                                                   \* the workloads there are

Read == INSTANCE FanOut WITH Lists <- Reads, list <- what, out <- answered

section == <<vars, cluster>>

SectionInit ==
  /\ Read!Init
  /\ flux \in Installed /\ cluster = {} /\ list = {}
  /\ stage = "reading" /\ todo = {}
  /\ items = <<>> /\ out = <<>> /\ scanned = 0 /\ ignored = 0

Reading == stage = "reading" /\ UNCHANGED section

\* fetchWorkloads, unless the read was abandoned: BuildUnmanaged begins, over
\* what the kinds that answered had to say.
BuildSection ==
  /\ stage = "reading" /\ what = "workloads" /\ Read!Keeps
  /\ Read!Return
  /\ cluster' \in Lists
  /\ list' = {w \in cluster' : KindOf[w] \in answered}
  /\ stage' = "scan" /\ todo' = list'
  /\ UNCHANGED <<flux, items, out, scanned, ignored>>

ReturnOther == ~(what = "workloads" /\ Read!Keeps) /\ Read!Return /\ Reading

Build ==
  /\ Next
  /\ UNCHANGED <<what, calling, expired, inflight, answered, errs, kept, cluster>>

SectionNext ==
  \/ Read!Call /\ Reading
  \/ Read!Deadline /\ Reading
  \/ (\E k \in Read!All : Read!Read(k)) /\ Reading
  \/ ReturnOther
  \/ BuildSection
  \/ Build

SectionSpec ==
  SectionInit /\ [][SectionNext]_<<what, calling, expired, inflight, answered, errs, kept, section>>

\* BuildUnmanaged loops over what is in memory: nothing in it can wait.
SectionFairness == Read!Fairness /\ WF_section(Build)

-----------------------------------------------------------------------------
(* Properties.                                                             *)

KeptIsHonest == Read!KeptIsHonest

\* Every call returns, however many of its kinds hang, and a read that is kept
\* becomes a section.
SectionAppears == Read!CallReturns /\ (stage = "scan" ~> stage = "done")

Unclaimed == {w \in cluster : IsUnmanaged(w) /\ w.ns \notin IgnoredNS}

\* Whichever kinds failed and in whatever order the others answered, the
\* section hides nothing silently: a workload of the cluster that belongs in
\* it is in it, and a release or workload that misses a replica anywhere reads
\* DEGRADED, or the section carries the error of the kind that did not answer.
NothingSilentlyMissing ==
  stage = "done" =>
    \A w \in Unclaimed : KindOf[w] \notin DOMAIN kept.errs =>
      \E i \in DOMAIN out :
        /\ out[i].ns = w.ns
        /\ out[i].name = IF ReleaseOf(w) = NoRelease THEN w.name ELSE w.instance
        /\ w.ready < w.desired => out[i].state = "DEGRADED"
=============================================================================

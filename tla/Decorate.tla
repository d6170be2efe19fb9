------------------------------ MODULE Decorate ------------------------------
(***************************************************************************)
(* What the Fill functions leave behind on the rows of one cached snapshot *)
(* (internal/status: owned, fillversion, fillgpu, arch, readiness, jobs).  *)
(*                                                                         *)
(* Every page is made by running them over the same rows again, with the   *)
(* workload and node lists the sources hold by then.  Some of the fields   *)
(* they write are reset first, some are only ever added to, and a missing  *)
(* list makes some of them return before they reset anything.              *)
(*                                                                         *)
(* One decoration is one action: c.mu is held.  What a viewer sees of rows *)
(* that change under it is SharedRows.                                     *)
(***************************************************************************)
EXTENDS Integers, Sequences, FiniteSetsExt

CONSTANTS
  Apps,    \* the rows Build makes: [name, owned, jobs, tag, glob]
  Inst,    \* label app.kubernetes.io/instance of each workload
  Lists,   \* the workload lists a refresh may return, as functions
  JobReads, \* the Jobs and CronJobs a refresh may return, as functions
  Named,   \* ACCELERATOR_RESOURCES names the devices
  NoTag    \* the empty version

Workloads == DOMAIN Inst
NoList    == [nil |-> TRUE]  \* c.workloadList = nil, c.jobList = nil: not a list of none

\* What a list says of a workload: the devices one replica asks for, whether
\* only accelerator nodes can run it, the architectures it can land on, its
\* image tag and its replicas.
WorkloadInfo ==
  [dev : Nat, pinned : BOOLEAN, arches : SUBSET STRING, tag : STRING,
   desired : Nat, ready : Nat]

JobStatus == [cron : BOOLEAN, active : Nat, failed : Nat, succeeded : Nat]

ASSUME DecorateAssumption ==
  /\ Named \in BOOLEAN
  /\ DOMAIN Apps \subseteq Nat
  /\ \A i \in DOMAIN Apps : Apps[i].owned \subseteq Workloads /\ Apps[i].glob \in BOOLEAN
  /\ \A i \in DOMAIN Apps : DOMAIN NoList \cap (Workloads \cup Apps[i].jobs) = {}
  /\ NoList \notin Lists \cup JobReads
  /\ \A l \in JobReads : \A j \in DOMAIN l : l[j] \in JobStatus
  /\ \A l \in Lists : DOMAIN l \subseteq Workloads /\ \A w \in DOMAIN l : l[w] \in WorkloadInfo

VARIABLES
  rows,    \* c.snap.Services: the array every page of this snapshot shares
  list,    \* c.workloadList
  nodes,   \* c.nodeList is there and names nodes
  jobs,    \* c.jobList and c.cronJobList
  page     \* the Summary and ArchCounts of the page made last

vars == <<rows, list, nodes, jobs, page>>

NoAlloc == [known |-> FALSE, per |-> 0, desired |-> 0, ready |-> 0]
NoReady == [found |-> FALSE, ready |-> 0, desired |-> 0]
NoPage  == [made |-> FALSE, gpu |-> 0, running |-> 0, waiting |-> 0, stopped |-> 0, arch |-> 0]

Built == [i \in DOMAIN Apps |->
  [owned |-> Apps[i].owned, tag |-> Apps[i].tag, gpu |-> Apps[i].glob,
   alloc |-> NoAlloc, arch |-> {}, ready |-> NoReady, jobs |-> {}]]

Count(rs, P(_)) == Cardinality({i \in DOMAIN rs : P(rs[i])})

-----------------------------------------------------------------------------
(* The Fill functions: each loops over the rows, and what it makes of a row *)
(* depends on that row and its list alone, but for FillOwned.               *)

\* svc.Owned lists the jobs an Application reports as well.
OwnsNothing(rs, i) == rs[i].owned = {} /\ Apps[i].jobs = {}

\* missing[name] = i: of several rows of one name that own nothing, the last.
Missing(rs, name) ==
  {i \in DOMAIN rs : Apps[i].name = name /\ OwnsNothing(rs, i)}

Labelled(i, l) == {w \in DOMAIN l : Inst[w] = Apps[i].name}

Mut_FillOwned(rs, i, l) ==                       \* labels win over ArgoCD's own answer
  [rs[i] EXCEPT !.owned = @ \cup Labelled(i, l)]
FillOwned(rs, i, l) ==
  IF OwnsNothing(rs, i) /\ i = Max(Missing(rs, Apps[i].name))
    THEN [rs[i] EXCEPT !.owned = Labelled(i, l)]
    ELSE rs[i]

Known(row, l) == row.owned \cap DOMAIN l

\* The first owned workload in the list names the image.
FirstOf(ws)     == CHOOSE w \in ws : TRUE
ImageOf(row, l) == l[FirstOf(Known(row, l))].tag

Mut_FillVersions(row, l) ==                      \* forgets what it found before
  IF Known(row, l) = {} THEN row ELSE [row EXCEPT !.tag = ImageOf(row, l)]
FillVersions(row, l) ==
  IF row.tag # NoTag \/ Known(row, l) = {} THEN row ELSE [row EXCEPT !.tag = ImageOf(row, l)]

\* DiscoverAccelerators: unless they are named, only the nodes tell which
\* resources are devices.
Devices(l, ns, w) == IF ns \/ Named THEN l[w].dev ELSE 0
OnGPU(l, ns, w)   == Devices(l, ns, w) > 0 \/ (ns /\ l[w].pinned)
OnGPUOf(row, l, ns) == {w \in Known(row, l) : OnGPU(l, ns, w)}

\* Totals over workloads: the devices of one replica of each, and their replicas.
PerReplica(ws, l, ns) == MapThenSumSet(LAMBDA w : Devices(l, ns, w), ws)
DesiredOf(ws, l)      == MapThenSumSet(LAMBDA w : l[w].desired, ws)
ReadyOf(ws, l)        == MapThenSumSet(LAMBDA w : l[w].ready, ws)

Alloc(ws, l, ns) ==
  [known |-> ws # {}, per |-> PerReplica(ws, l, ns),
   desired |-> DesiredOf(ws, l), ready |-> ReadyOf(ws, l)]
Readiness(ws, l) ==
  [found |-> ws # {}, ready |-> ReadyOf(ws, l), desired |-> DesiredOf(ws, l)]

Mut_FillGPU(row, l, ns) ==                       \* += without the reset
  LET ws == OnGPUOf(row, l, ns) IN
    [row EXCEPT !.gpu = @ \/ ws # {}, !.alloc = [Alloc(ws, l, ns) EXCEPT
       !.desired = @ + row.alloc.desired, !.ready = @ + row.alloc.ready]]

\* svc.GPU is set and never cleared; GPUAlloc is reset before it is summed.
FillGPU(row, l, ns) ==
  LET ws == OnGPUOf(row, l, ns) IN
    [row EXCEPT !.gpu = @ \/ ws # {}, !.alloc = Alloc(ws, l, ns)]

ArchesOf(row, l) == UNION {l[w].arches : w \in Known(row, l)}

FillArch(row, l, ns) ==
  IF ~ns THEN row
  ELSE [row EXCEPT !.arch =
         IF row.gpu \/ Cardinality(ArchesOf(row, l)) # 1 THEN {} ELSE ArchesOf(row, l)]

Mut_FillReadiness(row, l) ==                     \* adds to what was there
  LET now == Readiness(Known(row, l), l) IN
    [row EXCEPT !.ready = [now EXCEPT !.ready = @ + row.ready.ready]]
FillReadiness(row, l) == [row EXCEPT !.ready = Readiness(Known(row, l), l)]

\* Of a Job only; the page draws no conclusion about a CronJob.
JobState(j) ==
  IF j.cron               THEN ""
  ELSE IF j.active > 0    THEN "Active"
  ELSE IF j.failed > 0    THEN "Failed"
  ELSE IF j.succeeded > 0 THEN "Succeeded"
  ELSE ""

Found(i, js) == {<<j, JobState(js[j])>> : j \in Apps[i].jobs \cap DOMAIN js}

\* attachUnmanaged, attachJobs.  Without a workload list only FillReadiness
\* and FillJobs do anything.
FromList(row, l, ns) == FillArch(FillGPU(FillVersions(row, l), l, ns), l, ns)

Filled(rs, l, ns, js) ==
  [i \in DOMAIN rs |->
    LET row == IF l = NoList THEN rs[i] ELSE FromList(FillOwned(rs, i, l), l, ns) IN
      [FillReadiness(row, l) EXCEPT !.jobs = Found(i, js)]]

-----------------------------------------------------------------------------
(* The Summary of a page.                                                  *)

Waiting(row) == row.gpu /\ row.alloc.known /\ row.alloc.desired > 0 /\ row.alloc.ready < row.alloc.desired
Stopped(row) == row.gpu /\ row.alloc.known /\ row.alloc.desired = 0
Running(row) == row.gpu /\ row.alloc.known /\ ~Waiting(row) /\ ~Stopped(row)
IsGPU(row)   == row.gpu
HasArch(row) == row.arch # {}

\* addService counted the rows GPU_GLOBS marked; FillGPU counts again when it
\* has a list, and FillArch counts when it has nodes too.
Summary(rs, l, ns) ==
  IF l = NoList THEN [NoPage EXCEPT !.made = TRUE, !.gpu = Count(Built, IsGPU)]
  ELSE [made |-> TRUE, gpu |-> Count(rs, IsGPU), running |-> Count(rs, Running),
        waiting |-> Count(rs, Waiting), stopped |-> Count(rs, Stopped),
        arch |-> IF ns THEN Count(rs, HasArch) ELSE 0]

-----------------------------------------------------------------------------
Init ==
  /\ rows = Built /\ page = NoPage
  /\ list = NoList /\ nodes = FALSE /\ jobs = NoList

\* A refresh of the snapshot: new rows, nothing left of the old ones.
Rebuild ==
  /\ page.made
  /\ rows' = Built /\ page' = NoPage
  /\ UNCHANGED <<list, nodes, jobs>>

\* decorate, with the lists refreshSources leaves.  A workload list once read
\* is only ever replaced by another, and so are the jobs; a failed node read
\* drops the nodes.
DecorateWith(l, ns, js) ==
  /\ list' = l /\ nodes' = ns /\ jobs' = js
  /\ rows' = Filled(rows, l, ns, js)
  /\ page' = Summary(rows', l, ns)

Refreshed(held, reads) == IF held = NoList THEN reads \cup {NoList} ELSE reads

Next ==
  \/ Rebuild
  \/ \E l \in Refreshed(list, Lists), ns \in BOOLEAN, js \in Refreshed(jobs, JobReads) :
       DecorateWith(l, ns, js)

Spec == Init /\ [][Next]_vars

-----------------------------------------------------------------------------
(* Properties.                                                             *)

\* Whatever the rows are called, making the page again from the same lists
\* changes no row but one that owns nothing, whose name another row shares and
\* has already been given the workloads of: FillOwned looks for the rows left
\* without any by name alone, and finds the next of them each time.
OnlyTwinsUnsettled ==
  page.made => LET again == Filled(rows, list, nodes, jobs) IN
    \A i \in DOMAIN rows :
      \/ again[i] = rows[i]
      \/ /\ OwnsNothing(rows, i)
         /\ \E j \in DOMAIN rows \ {i} :
              /\ Apps[j].name = Apps[i].name /\ OwnsNothing(Built, j)
              /\ rows[j].owned = Labelled(i, list)

\* What a row says of its devices and its pods is summed from the list this
\* page was made with; nothing of an earlier list is in it ("a bare += would
\* keep adding to yesterday's totals"), its jobs are in the list of jobs the
\* page was made with, and the GPU tile counts the marked rows.
TotalsCurrent ==
  /\ page.made => page.gpu = Count(rows, IsGPU)
  /\ page.made => \A i \in DOMAIN rows : \A run \in rows[i].jobs :
       run[1] \in DOMAIN jobs /\ (run[2] = "Failed" => jobs[run[1]].active = 0)
  /\ page.made /\ list # NoList => \A i \in DOMAIN rows :
      LET row == rows[i] IN
        /\ row.alloc.desired = DesiredOf(OnGPUOf(row, list, nodes), list)
        /\ row.ready.desired = DesiredOf(Known(row, list), list)

\* "An Application that reports its own resources is believed", and one that
\* reports nothing but jobs is believed too.
ReportIsBelieved ==
  \A i \in DOMAIN rows : ~OwnsNothing(Built, i) => rows[i].owned = Apps[i].owned

\* Between two refreshes of the snapshot a service never loses the workloads
\* or the version an earlier page found for it.
FoundIsKept ==
  [][page'.made => \A i \in DOMAIN rows :
       /\ rows[i].owned \subseteq rows'[i].owned
       /\ rows[i].tag # NoTag => rows'[i].tag = rows[i].tag]_vars
=============================================================================

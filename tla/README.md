# A TLA+ model of k8s-status

k8s-status is one Go process that answers HTTP requests with a table of what
ArgoCD and Flux deploy in a cluster. It persists nothing. Its state is a
cache: one `Snapshot`, six optional reads with a timestamp each, and the array
of service rows that every page made from a snapshot shares. What is hard
about it is what happens to that cache when many viewers ask at once, when
reads fail, hang, or are cut short, and when the same rows are decorated again
and again with lists that change.

The modules here follow the source file by file. `PROJECT.json` maps every
definition to the lines it stands for.

## Inventory

| Part | State it keeps | Operations | What is hard | What makes it correct |
| --- | --- | --- | --- | --- |
| Collector (`internal/status/collector.go`) | `snap`, `fluxList`, six cached reads with timestamps, one mutex | `Get`, `decorate`, `refreshSources`, six `fetchX` | a mutex held over I/O; goroutines per source; requests that are cancelled; a failure rule per source | one refresh at a time; pages less than a TTL old; stale exactly when it says so; no deadlock |
| Service rows (`state.go`, `pending.go`, `zones.go`) | the array behind `Snapshot.Services` | `FillPending`, `FillZones`, `sortServices` in place; readers without the mutex | repeated decoration; torn reads | no row lost; a page is in its own order; marks and counts agree |
| Service table (`state.go`, `flux.go`, `health.go`) | `Services`, `Summary` | `Build`, `AppendFlux`, `addService`, `Health` | first-match ladders over several fields; two sources in one table | tiles sum and count their rows; a verdict is earned |
| Decoration (`owned.go`, `fillversion.go`, `fillgpu.go`, `accelerators.go`, `arch.go`, `readiness.go`, `jobs.go`) | fields of the rows | six `FillX` over the same rows | some fields are reset, some only ever set; lists come and go | idempotent; totals of this page's lists only |
| Spread (`zones.go`, owner lookup of `pending.go`) | tallies per row and per group | `FillZones`, four gauges | order of the pods; nodes without zone; two owner lists | each pod once; gauges part |
| Mesh policy (`mesh.go`) | none | `BuildMesh`, `ResolveServicePolicy` | precedence, UNSET, failed reads | Istio's precedence; nothing known from a failure |
| Pod pagination (`internal/kube/pods.go`) | token, page count | `ListRunningPods` | empty pages, expiry, cap | whole list, error, or "too large" |
| Concurrent reads (`internal/kube/{workloads,flux,jobs,client}.go`) | items and errors of one call | `ListWorkloads`, `ListFlux`, `ListJobs` | partial failure under one deadline | partial is marked; goroutines joined |
| Unmanaged workloads (`unmanaged.go`, `counters.go`) | none | `BuildUnmanaged`, `isUnmanaged`, `collapseReleases` | a list in any order; a Flux release looks like a Helm one | each workload once; a release is the sum and the worst of its members |
| Nodes (`nodes.go`, `accelerators.go`) | none | `BuildNodeStats`, `DiscoverAccelerators` | one node under several headings; labels and capacity that disagree; nodes that linger | the headings agree; the version shown is a ready node's where there is one |
| Web (`internal/web`) | none: the URL is the state | `handlePage`, `handleAPI`, `handleVersions`, `ParseFilter`, `Apply`, the `Href` functions | links built from links; reads shared rows after the mutex is released | links never mix what excludes itself; a link leads to as many rows as it says; the cached rows stay |
| Startup and shutdown (`cmd/k8s-status/main.go`, `internal/kube/discovery.go`) | which listers are wired | `parseSources`, `detectSources`, serving, `Shutdown` | probes that fail; timeouts that add up to more than the write timeout | a page is lost only for a reason; no controller is passed over |

How they interact: a handler calls `Collector.Get`. `Get` takes the mutex,
perhaps reads ArgoCD and Flux and calls `Build` and `AppendFlux`, then calls
`decorate`: `refreshSources` starts one goroutine per source that is older
than the TTL, each a call into `internal/kube`, and waits for all; then the
`attachX` functions write what is cached into the rows. The mutex is released
and the handler walks over the rows.

Left out altogether: the markup, icons, repository links, image names, error hints and the
JSON shapes (formatting without state), the fixture server, the chart, the
scripts and the browser tests.

## Modules

**Collector** is `Get` and everything it calls, as far as control goes. A
viewer's `pc` says where its goroutine stands: `lock` (waiting for `c.mu`),
`apps` and `flux` (the two reads of the snapshot), `build`, `start` and `wait`
(inside `decorate`), `done` (the page is returned). Each read is a start and a
later answer with the clock running in between, and it may succeed, fail, or be
abandoned. The data is abstracted to when it was stored and how its read ended:
`snap` is `[at, helm, kust]`, `cache[s]` is `[at, val]`. Nodes, workloads,
pending and running pods share the action `FetchPlain`, with `OnFailure` for
what each stores when its read fails; `FetchJobs` keeps its last good answer and
`FetchMesh` stores two fields, so they are actions of their own.

**SnapshotRegister** is the abstract specification: one register that a request
reads in one step and that is either fresh or, with an error, marked stale.
`Collector!ImplementsRegister` is the refinement: `good <- snap.at`, `phase`
and `answer` from `pc` and `page`.

**SharedRows** is the memory behind `Snapshot.Services`: `heap` holds one array
per built snapshot, a page is an index into it and a `Summary` of its own.
`wired` says which of the two writers main has enabled.
`FillPending` (unblock, block, sort) and `FillZones` (unzone, zone) are actions
of one store to a row each, and viewers read row by row meanwhile. The sort is
the insertion sort `sort.Slice` does for up to twelve elements. Its swap is that
of `reflect.Swapper`, two stores and a temporary (`SortLift`, `SortPut`,
`hand`), between which the array has one row twice and another not at all.
`touched` tells what was done to a page while its viewer read: rows marked, rows
moved. A store of a row is one step, though a row is many words: a viewer may in
fact read half of one.

**Build** folds both lists into rows and tiles, one action per turn of a loop.
`sort.Slice` is any arrangement consistent with the order, so rows that compare
equal may come out either way. `Health` is integer arithmetic; the float
`math.Round` of a number that is not negative rounds half up.

**Decorate** is the six `Fill` functions in the order of `attachUnmanaged` and
`attachJobs`, each as a function from one row and the lists to that row
(`FillOwned` also asks which row of a name comes last). A list that is not there
(`NoList`) is told apart from a list of nothing, since the `Fill` functions
return early for the first and reset for the second. A state is what the rows
have become after any number of pages with any lists. Which nodes admit a
workload is part of the list (`pinned`, `arches`).

**Owners**, **Nodes**, **MeshPolicy** and **Spread** are the attach functions of
one page: `Nodes` is `BuildNodeStats`, one action per turn of its loop, with the
accelerators discovered or overridden; `MeshPolicy` is `BuildMesh` and
`ResolveServicePolicy` as operators; `Owners` is the owner lookup; and `Spread`
extends all three with `FillZones`, which joins the pods to the nodes, resolves
policies and tallies. A name is the sequence of its dash-separated segments. One
owner reference per pod. The Helm release or workload a group stands for is an
input (`Untracked`).

**Unmanaged** is `BuildUnmanaged`: the scan takes the workloads of the list in
any order (`ListWorkloads` appends its kinds as they answer), the collapse folds
one selected row per step, and the sort is any arrangement its order allows. A
workload is its markers, its release and its counters; two kinds of one name
are one workload here.

**RunningPods** is `ListRunningPods` against an external API server, which
fixes its view at the first page, pages before it filters, makes as little
progress per page as it likes, and may expire the token.

**FanOut** is the three joined reads with their deadline and what the caller
does with a joined error. Only one call runs at a time: `c.mu` is held.

**WorkloadSection** composes `FanOut` and `Unmanaged` as `fetchWorkloads` does:
`BuildUnmanaged` starts from the workloads of the kinds that answered, if the
caller keeps the answer, and the section carries the joined error. **ListReads**
adds the paged read of `RunningPods`, the other way this code takes several
requests to read a list; a behaviour follows one of the two, since they share
nothing before their section is attached.

**Browse** is `filter.go`, the links of `render.go` and `handlePage`. The
server keeps nothing, so the state is the URL the browser asked for last, the page on
screen and the snapshot the collector holds. The actions are those of a viewer:
following a link of the page, picking a refresh interval, typing a URL, waiting
for the reload; and a new snapshot, between any two of them. A query keeps its
entries as they were spelled, since the chips compare the raw value and the
filter the trimmed one. The snapshots are a parameter of type `Snapshot`; a
table narrowed or put in order is the sequence of the rows at some places
(`InOrder`). The numbers beside the links come from two places: the tiles and
chips from `render.go` (`Count`), the gauges from the totals of `FillZones`
(`Gauge`), which for the spread count services and workloads alike, those in
namespaces of `UNMANAGED_IGNORE_NS` too (`ignored`), and for the mesh services
alone. `LinksDoAsSaid` says of each which rows of the two tables it stands for.

**Serving** is `main`: `parseSources`, `detectSources` probe by probe under one
deadline, listening, requests, and `Shutdown`. Time is in units of five seconds,
the greatest common divisor of the timeouts involved (10, 15, 25 and 30
seconds). `Get` is reduced to what it waits for: `step` is the read it is in and
`spent` how long that has taken. `waited` and `hung` record why a request
is as old as it is. The optional sections are one read, because
`refreshSources` waits for the slowest of them.

Beyond these, the modules are composed through constants and inputs and not by
one product specification: `Collector` fixes who may run when (`OneRefresh`),
which is what lets `SharedRows`, `Decorate`, `Spread` and `ListReads` take one
decoration or one call at a time, and what lets `Serving` have one `step` for
the whole server.

## Runs

Passing:

| Run | Shows | Bounds, and why they are enough |
| --- | --- | --- |
| `core` | mutual exclusion, freshness, stale pages, spacing, monotone pages, refinement | two viewers, sources `jobs` (a failure is not stored) and `mesh` (a failure is stored, in two fields), no Flux, TTL 2, clock to 3: a page can be fresh, aged, and past the TTL, and rebuilt once after it |
| `live` | every request is answered; a complete Flux list is never lost | Flux and `workloads`, one of the four sources of one rule, TTL 1, clock to 1: two rebuilds, the second one failing or cancelled; without symmetry |
| `rows` | a page with blocked rows in its own order, counts right and split by kind, zone marks current, a page sound where no sort moved rows under it | three rows of two severities and three kinds of shortage, two viewers, two snapshots: enough for a swap past a neighbour and for a page of an older snapshot. One writer is wired at a time; `mutated` wires both. |
| `reads` | what is kept of a joined read is honest about what it lacks; each workload accounted for once, releases whole, Flux's not listed, nothing missing without an error; a pod list is whole or an honest cap; every read ends | all three joined reads with their own kinds; every cluster of up to four of ten workloads of three kinds, in every order, with three sets of HelmReleases: a release of three members, one of the same name elsewhere, three ways of being claimed. Six pods, pages of two, two pages: below, at and above the cap |
| `decorate` | making a page again changes no row but a twin, totals and jobs current, reports believed, findings kept | four rows, two of them of one name, three workloads, two jobs, every list they can appear in, the empty one and none at all |
| `build` | tiles, verdicts, percentage and the arcs of its ring | every health and sync of one Application, each prune flag, both phases of the root; every combination of Flux conditions |
| `spread` | node headings agree and are those of the nodes, devices sum, the version is a ready node's; pods joined by their names and tallied; gauges; policy of a row is its own and Istio's; nothing from a failure | three slices of the inputs: up to three pods over seven owners and four places; up to three nodes of every readiness, label, capacity (a sliced card that is not handed out whole among them) and version; lists of up to two policies of every selector and mode with every way the mesh read can end |
| `browse` | links never mix filters that exclude each other, show what the number beside them counts; typos show nothing; the cache stays | three services and two other workloads told apart by every filter, a third in an ignored namespace, a second snapshot without mesh or workloads, and typed URLs that no link makes. Click sequences are unbounded: the reachable URLs are finite |
| `serving` | a lost page has a reason; detection believes what it found | two viewers, so that one queues behind the other; every shape of `SOURCES`. The clock is unbounded: ages stop at the limit that matters |

Each property of these runs has a mutant: a changed definition that a bug of
the code could amount to, under which the run fails.

The violation runs each show a sentence of a comment that the code does not
keep; `findings` quotes it.

- `cancel`: a viewer leaving during the Flux read gets its cancelled answer cached for everyone.
- `mutated`: the rows of a cached snapshot are rewritten under callers who hold them.
- `slow`: the Flux read may take 30 seconds, as long as the write timeout, so that this optional source alone blanks the page of the viewer who met it.

`CHECK_DEADLOCK FALSE` stands where the system ends: `Build`, `Spread` and
`Unmanaged` are one computation, `RunningPods` is one call, a `Serving` process
exits.

### Fairness

`Collector!Fairness` is weak fairness on the steps of a goroutine that holds the
mutex and on the source goroutines, since every upstream read is bounded by a
timeout (`RequestTimeout`, `sourceTimeout`), and strong fairness on taking the
mutex: a `sync.Mutex` in starvation mode hands over to a waiter of more than a
millisecond. Nothing is assumed of viewers asking, leaving or of how a read
ends. `FanOut` assumes that its deadline fires and that a read returns once it
has; `ListReads` that each request for a page ends and that `BuildUnmanaged`, a
loop over memory, goes on. `SharedRows!FairSpec` only
says that the program does not stop; it is used for a counterexample.

## Proofs

Proved for every value of the constants, from the named assumptions of the
modules: `CollectorAssumption`, `NobodyAssumption`, `PagingAssumption`,
`InputsAssumption`, `UnmanagedAssumption`, `ServingAssumption`,
`RefreshAssumption`, `RowsAssumption`, `ReadsAssumption`, `DecorateAssumption`,
`SpreadAssumption`, `NodesAssumption`. They give the types of the constants and
say that `Nobody` is not a viewer, that a list is indexed from 1 to its length,
that services, lists and the resources of `ACCELERATOR_RESOURCES` are finite,
and, in `SpreadAssumption`, what a cluster guarantees: node names are unique, a
node names finitely many resources, a kubelet hands out no more of one than its
node has, and a pod has a namespace.

**CollectorProofs.** None of the properties is inductive. `IInv` adds to
`TypeOK`: `Mutex` (a viewer inside `Get` is the holder), `Past` (no timestamp
is in the future, so ages only grow), `Underway` (goroutines read only while
their viewer waits, so the cache is settled when it is attached), `Refreshed`
(while a viewer waits, each source is being read, was lost, or is current for
the time it asked), `Pages` (a draft is fresh for its viewer, or is stale and
carries the error) and `Served` (the same of pages handed out). `Inductive` has
one step per action. The freshness, honesty and exclusion theorems are
consequences; the action properties `RebuildSpacing`, `PagesNeverGoBack` and
`FluxNeverForgotten` follow step by step under `IInv`. `Refinement` shows that
each step is a step of `SnapshotRegister` or a stutter: a successful read is
its `Refresh`, and a page is answered where it is attached, with the register
unchanged since its draft because the lock was held throughout.

**SharedRowsProofs.** What makes this hard is that the loops store row by row
into an array that an insertion sort is about to permute, and that the
properties count rows. So `IInv` speaks of services and not of places:
`Arrays` (each array has one row for each service, the one in work once the
swap under way is done: `Current`), `Blocking` and `Zoning` (for each loop, what the rows below its index
already look like and what the counters of the page have counted, as the size
of a set of services), and `Pages` (what a viewer has read so far of an array
nobody has touched since). `RowsOf`, a bijection from the places to the
services, turns those sets into the counts of `MarksCurrent` and
`QuietPageSound` at the end. `Sorting` is the invariant of insertion sort
(`Inserted`: in order so far, but for the row that is sinking), kept by a swap
(`InsertedSwap`) and by a row that has sunk (`InsertedNext`), whatever order an
earlier page left; later loops write no field the order looks at, so what is
sorted stays so until the page is handed out, which is `RowsAreInOrder`. It is
about an insertion sort for any number of services, where the library changes its
algorithm above twelve.

**ListReadsProofs.** The joined and the paged read share no variable that both
change, so each has its invariant. `Joining`: while a call runs, every kind is
in flight, answered or has failed; `KeptIsHonest` is what is left when none is
in flight. `RowsInv` is about `BuildUnmanaged` over
the answers: `AllListed` says that each workload which belongs into the
section is still to come or in a row (`Shows`), through the scan, the collapse
and the sort, so that `NothingSilentlyMissing` needs no sum over the list;
`RowsJudged` ties the name and namespace a row shows to the release the scan
judged, for `FluxIsNotListed`; `Folded` says that of a folded release one row is
left and that it is degraded just when some member was, which is
`ReleasesAreWhole`, half way as well as at the end.

`RowsAddUp` is about sums, and what a fold computes would need an induction over
data. Here the sum of a function of naturals is a cardinality: `SumIs` says that
`SumFunction` is the number of its `Units`, one for each index and each number
below its value, and proves it by looking at a smallest set of indexes on which
the two differ. `SumMore`, `SumLess`, `SumSplit` and `SumMoved` then say
what a sum becomes when an index is added, taken away, changed or renamed, each
by a bijection of units. The invariant `Adding` says that `scanned` and `ignored`
are the sizes of the sets of workloads they count, that each row still to be
folded is that of one workload of its own (the injection `src`), and that each
folded row amounts to (`Amount`) the members taken so far, whatever their order.
`AmountFounded` and `AmountJoined` are its two steps in the fold and
`AmountMoved` is the sort; `FinishedAddsUp` reads the property off it.

For the paged read, `Prefix` says that the items so far are
the view up to the token, and `Bounded` that they are at most a page full per
page read: with `token = Objects` at the end, a returned list is the whole view
and the view fits the cap.

**DecorateProofs.** Lemmas say, for one row and field by field, what one
decoration makes of it (`FilledRow`: `Says`). `SaysAgain` is the fixpoint: a row
that says what the lists say is left alone by the same lists. `OnlyTwinsUnsettled`
is about the one field a list can add to a row that is left alone: `FillOwned`
gives the workloads of a name to the row that comes last among those that have
none (`owned.go:25-33`), so that a row which is still without them afterwards
and would now get them was beaten by another one of its name (`OwnedAgain`).
No theorem supposes that names are distinct.

**BuildProofs.** `TilesCountRows` is inductive given `TypeOK`: appending a row
adds one to one tile (`AddServiceCounts`), because the switch of `addService`
gives no two states one field and the page shows each field under its own state
(`FieldOfState`), and sorting is a bijection of the
rows and keeps every count (`SortCounts`). `TilesSumHolds` needs an invariant
of its own. The verdict theorems rest on `RowsJudged` (a row that drifts came
from an Application when the root was settled; a Flux row has a Flux verdict; a
calm row was earned by an object of its name) and `NoneBeforeRoot` (there are
no rows before the root is chosen, so the root a row was judged by is the one
the property speaks of). `HealthIsShare` is the integer arithmetic of a rounded
percentage over tiles that sum.

**SpreadProofs.** Both loops, over the nodes and over the pods, have the same
kind of invariant: so far, each number is the cardinality of a set of indexes
below the one that comes next, so a turn adds one index to a set or none
(`NextIndex`, `ToldAdd`). `DevicesInv` says that the counts per resource sum to
the total so far: a turn adds to each resource what the node has of it, and the
sum of a sum of two functions is the sum of the sums (`SumPlus`, `SumZero`, on
the same count of units as in `ListReadsProofs`); a node under a resource, and
a row with something to hand out, is a node that was counted as one with usable
devices. `KindsInv`, `RowsInv`, `ArchInv`, `ZonesInv` and
`VersionInv` are those of the nodes; `Told` says it of the tally of one service
or group, and that the pod that speaks for its policy is one of its own.
`IndexByName` says of the owner lookup that it gives a workload the reference
names, or else one of the longest name that the pod's continues, wherever they
are in the list, and `Joined` reads `JoinedByName` off the two lookups. At the
end the sets are all nodes and all pods of the row. The gauges then part
because the predicates that are counted part the rows (`RowSpread`, `Gauges`),
and a placed pod has a node with a zone (`ZoneIsNodes`). `Precedence` and
`RowPolicy` are about `ResolveServicePolicy` alone and need no invariant.

**BrowseProofs.** Each operator that makes a link (`FilterHref`, `RemoveHref`,
`ClearHref`) makes a pure query of a pure one, where pure says that at most one
chip of the views row is set and that the view is alone, and leaves no value
padded (`Canonical`). `Kept` adds that the page on screen was asked for by a
URL, so that an untyped URL comes from a link of a page that was itself reached
untyped; that its rows are of a well typed snapshot; and `TypoShowsNothing`
itself. `HrefSwitches` then says that a link switches its filter, and
`LinkCounts` that where one filter is all there is, the rows that pass
(`OnlyRows`) in the tables that are shown (`OnlyTables`) are those that were
counted, over both tables and the ignored workloads for the spread gauges
(`CountBoth`, `TableLengths`). `NothingPasses`
is the typo, and `PageLeavesCache` that without a row filter `Apply` hands out
the cached rows in their order and `sortRunningFirst` is not called. All of it
is for any snapshots, any typed URLs and click sequences of any length.

**ServingProofs.** `Detected` adds to `SourcesBelieved` that a process without
a client asked for nothing; `AskedInFull` says what an empty `Pending` implies.
`Explained` accounts for the age of a request: `Timely` says that one that
never waited is no older than its own reads (`Within`), and that while shutting
down the age of an open request and the time left make up the grace period.
The page of a request that met one read of at most 25 seconds is then written in
time, which is `LateIsExcused`.

`FluxNeverDrifts`, `TilesSum`, `ReleasesAreWhole` and the type invariants of
`Collector` and `Build` are proved only; no run repeats them. The inductive
invariants of `SharedRows`, `ListReads`, `Decorate`, `Build` and `Spread` hold in
the bounds of their runs too.

Only model-checked: liveness (`Answered`, `EveryReadEnds`), which is beyond the
prover. Every other property of the passing runs is a theorem.

## Known divergences

Places where the code and what its comments or the README say of it part, met
while modelling. The modules follow the code; no run is kept for these:

- `fluxList` is nil next to a Flux section read from a cluster (`collector.go:229-238`): the release keys are then empty and Flux's releases are listed as unmanaged.
- While ArgoCD is down, each caller of a burst reads it again: a failed refresh does not move `snapAt` (`collector.go:215-222`).
- A failed workload read replaces the good one, though the comment of `fetchJobs` says it is kept "the same as fetchWorkloads" (`collector.go:351-367`). A partial answer of the jobs read is dropped, and one of the workloads is tallied as if it were whole.
- `FillZones` returns before its reset when pods or nodes are missing, so rows keep the zones of an earlier page (`zones.go:304`); the GPU mark is never cleared (`fillgpu.go:68`), and an architecture is left when the nodes go (`arch.go:20`).
- Rows are sorted again only when a page has a stuck pod (`pending.go:88-96`, `165`). One without takes the marks off and keeps the order of an earlier page of the same snapshot, in which a service that is OK and no longer blocked may stand above one in WARNING, though "the things that need attention are always at the top" (`README.md:249-250`). `RowsInOrder` therefore speaks of pages with a blocked row only.
- `FillOwned` gives the workloads of a name to the last of the rows of that name that own nothing (`owned.go:25-33`), and the next decoration of the same snapshot to the one before it. A HelmRelease and a Kustomization of one name, of which Flux reports no resources, so share their pods, devices and architecture from the second page on, though "totals must not accumulate" (`idempotent_test.go:9-10`). `OnlyTwinsUnsettled` says that nothing else can change.
- "So "api" does not claim a pod belonging to "api-canary"" (`pending.go:82-83`) is not so when `api-canary` is in no service: `ownerIndex` tries the name prefix in the list of the services before the other list is asked (`zones.go:440-465`), and counts the pod for `api`. `TalliesAgree` says by which names a pod is joined.
- The "at risk" numbers of the spread gauges count the workloads outside GitOps in every namespace (`zones.go:386-408`), while the section leaves out those of `UNMANAGED_IGNORE_NS` (`unmanaged.go:107`). Their links so lead to fewer rows than "the exact rows" the number is to summarize (`filter.go:36`), and `LinksDoAsSaid` says how many fewer. The links of the mesh gauges, which count services, show the workloads table as well.
- A resource of another kind that shares an Application's name marks it for pruning (`state.go:329-337`). An Application whose sync is `Unknown` can be OK. A HelmRelease and a Kustomization of one name and namespace compare equal in the sort.
- The first pod in the list speaks for the policy of its row (`zones.go:450`). A default policy scoped by a selector is taken for the mesh's, and a required label with an empty value matches a pod that lacks it (`mesh.go:181-191`).
- "If members disagree, say so rather than pick one" (`unmanaged.go:324`) holds only when the first member in the list records no version: otherwise its version is shown, so the answer changes with the order in which the kinds answered.
- `?view=` with a word that is no view shows every service, though an unknown word is to match nothing (`filter.go:24-25`); "every active filter has to appear as a removable chip" (`filter_test.go:297-298`) is not so of the spread and mesh filters (`render.go:446-467`), and the JSON echoes only status, sync and gpu.
- A typed `?gpu=yes&spread=zone` lists the workloads of one zone: an unknown word empties the service table only, since the other filters "hide the whole table for them instead" (`filter.go:312`) unless the spread or mesh filter shows it. `TypoShowsNothing` says which table is empty when.
- A typed `?view=unmanaged&arch=arm64` hides the services, so the arm64 chip looks off, and clicking it deletes the filter instead of showing arm64 (`render.go:286`). A value typed with spaces filters, but its chip does not switch off.
- Naming a resource twice in `ACCELERATOR_RESOURCES` counts its devices twice: `splitGlobs` keeps both (`main.go:492-504`).
- `SOURCES=auto` and `MESH_MTLS` each wait up to 30 seconds for a hanging API server before the process listens (`main.go:309-311`, `main.go:418`). `REFRESH_SECONDS` is not held between 5 and 3600 as `?refresh=` is.
- One `Get` may take 25 seconds for ArgoCD, 30 for Flux and 25 for the sections, and an optional source that always hangs is read again by every one of them, so that viewers queue past the write timeout of 30 seconds. `LossIsExplained` says when a page can be lost; it does not say that none is.
- The README gives a body cap of 16 MiB where the code has 64.

## Not modelled

- `FillGPU` writes to the `NodeStats`, and `FillZones` to the `Unmanaged` items, that earlier pages still point at: the same hazard as `NeverMutatedWhileHeld`, which is shown for the service rows only.
- That `sort.Slice` is not stable is modelled (`Build`, `Unmanaged`), but no property forbids rows that compare equal from changing places.
- Which nodes a selector admits, what a service lacks, the quantity parser, images, chart versions, schedules and the texts of a row: string and number handling without state, taken as inputs.
- The JSON shapes, `/api/versions`, the markup of the page, cluster error hints and repository links: formatting.
- Decoding of API objects; the fixture server, a test double; the chart, scripts and browser tests.

## Plan

Written in this order, the most important behaviour first: `Collector` with its
register and proofs; `SharedRows`; `FanOut` and `RunningPods`, the reads under
the cache; `Build` and `Decorate`, what goes into the rows; `Owners`, `Nodes`,
`MeshPolicy` and `Spread`; `Unmanaged` with its proofs, and `WorkloadSection`
and `ListReads` over the reads; `Browse` and `Serving` with theirs. Then the
proofs of what the earlier modules promise: `SharedRows`, the joined reads and
their section, `Decorate`, and `Spread` with its nodes and policies; last the
links of `Browse` and the sums of `Unmanaged` and `Nodes`.

What would come next: the writes to `NodeStats` and `Unmanaged` in
`SharedRows`.

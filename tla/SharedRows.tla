----------------------------- MODULE SharedRows -----------------------------
(***************************************************************************)
(* The service rows behind a Snapshot (internal/status).                   *)
(*                                                                         *)
(* decorate copies the Snapshot struct, so each page has a Summary of its  *)
(* own, but the copy's Services slice still points at the array of rows of *)
(* the cached snapshot.  FillPending and FillZones rewrite that array row  *)
(* by row, in place, under the mutex, while viewers who already have a     *)
(* page walk over the same rows without it.                                *)
(*                                                                         *)
(* A row is a service with the two marks decorate owns: blocked stands for *)
(* what FillPending writes, which it always resets first, and zoned for    *)
(* what FillZones writes (Zones, Nodes, Mesh, Policy), which it resets     *)
(* only when it has pods and nodes to go by.                               *)
(***************************************************************************)
EXTENDS Integers, Sequences, FiniteSets

CONSTANTS
  Viewers,
  Services,   \* a set of numbers: the alphabetical order of the names
  Severity,   \* the rank of each service's own state, smaller is worse
  Warning,    \* severity[StateWarning]
  Lacks,      \* what the scheduler says each service's pods are short of
  Wirings,    \* the sets of sources, of those that touch rows, to start with
  Builds      \* bound on how many snapshots are built

Nobody == "nobody"
ASSUME RowsAssumption ==
  /\ Nobody \notin Viewers
  /\ Services \subseteq Nat /\ IsFiniteSet(Services)
  /\ Severity \in [Services -> Nat] /\ Warning \in Nat /\ Builds \in Nat
  /\ Lacks \in [Services -> SUBSET {"accelerator", "other"}]
  /\ Wirings \subseteq SUBSET {"pending", "running"}

VARIABLES
  wired,    \* c.pending # nil and c.running # nil, as main wired them
  heap,     \* the row arrays, one per built snapshot
  holder,   \* who holds c.mu
  phase,    \* how far its decorate has come
  at,       \* the loop index of that phase, and of insertion sort's inner loop
  hand,     \* the row a swap has lifted out of the array, reflect.Swapper's tmp
  pending,  \* services with a pod the scheduler refused
  lists,    \* c.runningPods and c.nodeList are both there
  placed,   \* services with a running pod on a known node
  acc,      \* FillPending: verdicts not yet written to a row
  copy,     \* the blocked tiles and Summary.Zoned of the page being made
  page,     \* what each viewer was given: an array and a Summary
  shown,    \* the rows each viewer has read off its page so far
  touched   \* what was done to the rows of the page while the viewer read

sources == <<pending, lists, placed>>
readers == <<page, shown, touched>>
vars == <<wired, heap, holder, phase, at, hand, sources, acc, copy, readers>>

NoSummary == [blocked |-> 0, kinds |-> [accelerator |-> 0, cpu |-> 0, placement |-> 0], zoned |-> 0]
NoRow  == [svc |-> 0, blocked |-> FALSE, zoned |-> FALSE]
NoPage == [array |-> 0, blocked |-> 0, zoned |-> 0]
cur    == Len(heap)                       \* c.snap points at the newest array
N      == Cardinality(Services)

Init ==
  /\ wired \in Wirings
  /\ heap = <<>> /\ holder = Nobody /\ phase = "idle" /\ at = <<1, 1>> /\ hand = NoRow
  /\ pending = {} /\ lists = FALSE /\ placed = {} /\ acc = {}
  /\ copy = NoSummary
  /\ page = [v \in Viewers |-> NoPage]
  /\ shown = [v \in Viewers |-> <<>>]
  /\ touched = [v \in Viewers |-> {}]

-----------------------------------------------------------------------------
(* rank and the order of sortServices.                                     *)

Mut_Rank(row) == Severity[row.svc]               \* the state alone
Rank(row) ==
  IF row.blocked /\ Severity[row.svc] > Warning THEN Warning ELSE Severity[row.svc]

Less(a, b) ==
  \/ Rank(a) < Rank(b)
  \/ Rank(a) = Rank(b) /\ a.svc < b.svc

Fresh(s) == [svc |-> s, blocked |-> FALSE, zoned |-> FALSE]

\* What Build leaves: every service once, in the order of sortServices.
BuiltRows ==
  {rows \in [1..N -> {Fresh(s) : s \in Services}] :
     \A i, j \in 1..N : i < j => Less(rows[i], rows[j])}

-----------------------------------------------------------------------------
(* Get: take the mutex, perhaps build, and refresh the optional sources.   *)

Count(rows, P(_)) == Cardinality({k \in DOMAIN rows : P(rows[k])})
IsBlocked(row)    == row.blocked
IsZoned(row)      == row.zoned

AfterPending == IF "running" \in wired THEN "unzone" ELSE "return"   \* attachPending, attachZones

Get(v) ==
  /\ holder = Nobody /\ page[v] = NoPage
  /\ holder' = v /\ at' = <<1, 1>>
  /\ phase' = IF "pending" \in wired THEN "unblock" ELSE AfterPending
  /\ \/ cur > 0 /\ UNCHANGED heap
     \/ /\ cur < Builds
        /\ \E rows \in BuiltRows : heap' = Append(heap, rows)
  /\ pending' \in IF "pending" \in wired THEN SUBSET Services ELSE {{}}
  /\ \/ "running" \in wired /\ lists' = TRUE /\ placed' \in SUBSET Services
     \/ lists' = FALSE /\ placed' = {}
  /\ UNCHANGED <<wired, hand, acc, copy, readers>>

\* One store to a row of the cached array, seen by whoever reads it now: a
\* mark on the row that is there, or another row in its place.
Store(k, row, how) ==
  /\ heap' = [heap EXCEPT ![cur][k] = row]
  /\ touched' = [v \in Viewers |->
                    IF page[v].array = cur THEN touched[v] \cup {how} ELSE touched[v]]
  /\ UNCHANGED <<holder, wired, sources, page, shown>>

Write(k, row) == Store(k, row, "marked") /\ UNCHANGED hand

Skip == UNCHANGED <<heap, hand, holder, wired, sources, readers>>

Then(p) == phase' = p /\ at' = <<1, 1>>

\* FillPending, first loop: Blocked = nil on every row.
Mut_UnblockOnlyIfPending ==                      \* an early return before the reset
  /\ phase = "unblock"
  /\ IF at[1] <= N /\ pending # {}
       THEN /\ Write(at[1], [heap[cur][at[1]] EXCEPT !.blocked = FALSE])
            /\ at' = <<at[1] + 1, 1>> /\ UNCHANGED <<phase, acc>>
       ELSE Skip /\ Then("block") /\ acc' = pending
  /\ UNCHANGED copy
Unblock ==
  /\ phase = "unblock"
  /\ IF at[1] <= N
       THEN /\ Write(at[1], [heap[cur][at[1]] EXCEPT !.blocked = FALSE])
            /\ at' = <<at[1] + 1, 1>> /\ UNCHANGED <<phase, acc>>
       ELSE Skip /\ Then("block") /\ acc' = pending
  /\ UNCHANGED copy

\* Blocked.Kind: an accelerator is blamed before anything else, and a pod
\* that lacks nothing found no node to match.
Kind(s) ==
  IF "accelerator" \in Lacks[s] THEN "accelerator"
  ELSE IF Lacks[s] # {} THEN "cpu" ELSE "placement"

\* FillPending, last loop: the verdicts, in map order; then it sorts, but
\* only when there was one.
Block ==
  /\ phase = "block"
  /\ \/ \E k \in 1..N :
          /\ heap[cur][k].svc \in acc
          /\ Write(k, [heap[cur][k] EXCEPT !.blocked = TRUE])
          /\ acc' = acc \ {heap[cur][k].svc}
          /\ copy' = [copy EXCEPT !.blocked = @ + 1, !.kinds[Kind(heap[cur][k].svc)] = @ + 1]
          /\ UNCHANGED <<phase, at>>
     \/ /\ acc = {}
        /\ Skip /\ UNCHANGED <<acc, copy>>
        /\ IF pending # {} THEN phase' = "sort" /\ at' = <<2, 2>> ELSE Then(AfterPending)

\* sortServices: sort.Slice is an insertion sort of up to twelve rows.  The
\* row at at[2] sinks while it is less than its neighbour; when it has sunk,
\* the next one is taken.
Sinks ==
  at[1] <= N /\ at[2] > 1 /\ Less(heap[cur][at[2]], heap[cur][at[2] - 1])

Sort ==
  /\ phase = "sort" /\ ~Sinks
  /\ Skip /\ UNCHANGED <<acc, copy>>
  /\ IF at[1] > N THEN Then(AfterPending)
                  ELSE at' = <<at[1] + 1, at[1] + 1>> /\ UNCHANGED phase

\* A swap of neighbours is two stores: the row is lifted and the neighbour
\* put in its place, so that for a while the array has that one twice, and
\* then the row is put where the neighbour was.
SortLift ==
  /\ phase = "sort" /\ Sinks
  /\ hand' = heap[cur][at[2]]
  /\ Store(at[2], heap[cur][at[2] - 1], "moved")
  /\ phase' = "swap"
  /\ UNCHANGED <<at, acc, copy>>

SortPut ==
  /\ phase = "swap"
  /\ Store(at[2] - 1, hand, "moved")
  /\ hand' = NoRow
  /\ phase' = "sort" /\ at' = <<at[1], at[2] - 1>>
  /\ UNCHANGED <<acc, copy>>

\* FillZones returns at once without pods or nodes; otherwise it resets
\* every row before it counts.
Unzone ==
  /\ phase = "unzone"
  /\ \/ ~lists /\ Skip /\ Then("return")
     \/ /\ lists /\ at[1] <= N
        /\ Write(at[1], [heap[cur][at[1]] EXCEPT !.zoned = FALSE])
        /\ at' = <<at[1] + 1, 1>> /\ UNCHANGED phase
     \/ lists /\ at[1] > N /\ Skip /\ Then("zone")
  /\ UNCHANGED <<acc, copy>>

\* Marks the rows whose pods landed in a zone, then counts the marked rows.
Zone ==
  /\ phase = "zone"
  /\ IF at[1] > N
       THEN Skip /\ Then("return") /\ copy' = [copy EXCEPT !.zoned = Count(heap[cur], IsZoned)]
       ELSE /\ IF heap[cur][at[1]].svc \in placed
                 THEN Write(at[1], [heap[cur][at[1]] EXCEPT !.zoned = TRUE]) ELSE Skip
            /\ at' = <<at[1] + 1, 1>> /\ UNCHANGED <<phase, copy>>
  /\ UNCHANGED acc

\* Unlock; the variables of this decorate are gone.
Leave ==
  /\ holder' = Nobody /\ phase' = "idle" /\ at' = <<1, 1>>
  /\ pending' = {} /\ lists' = FALSE /\ placed' = {}
  /\ copy' = NoSummary

Mut_ReturnSummaryOfFirst ==                      \* hands out the cached copy's summary
  /\ phase = "return"
  /\ page' = [page EXCEPT ![holder] = [array |-> cur, blocked |-> 0, zoned |-> 0]]
  /\ Leave
  /\ UNCHANGED <<wired, heap, hand, acc, shown, touched>>
Return ==
  /\ phase = "return"
  /\ page' = [page EXCEPT ![holder] = [array |-> cur, blocked |-> copy.blocked,
                                       zoned |-> copy.zoned]]
  /\ Leave
  /\ UNCHANGED <<wired, heap, hand, acc, shown, touched>>

-----------------------------------------------------------------------------
(* handlePage and handleAPI walk over the rows outside the mutex.          *)

ReadRow(v) ==
  /\ page[v] # NoPage /\ Len(shown[v]) < N
  /\ shown' = [shown EXCEPT ![v] = Append(@, heap[page[v].array][Len(@) + 1])]
  /\ UNCHANGED <<heap, holder, phase, at, hand, wired, sources, acc, copy, page, touched>>

Respond(v) ==
  /\ page[v] # NoPage /\ Len(shown[v]) = N
  /\ page' = [page EXCEPT ![v] = NoPage]
  /\ shown' = [shown EXCEPT ![v] = <<>>]
  /\ touched' = [touched EXCEPT ![v] = {}]
  /\ UNCHANGED <<heap, holder, phase, at, hand, wired, sources, acc, copy>>

Next ==
  \/ \E v \in Viewers : Get(v) \/ ReadRow(v) \/ Respond(v)
  \/ Unblock \/ Block \/ Sort \/ SortLift \/ SortPut \/ Unzone \/ Zone \/ Return

Spec == Init /\ [][Next]_vars

Fairness == WF_vars(Next)      \* requests keep coming and are answered
FairSpec == Spec /\ Fairness

-----------------------------------------------------------------------------
(* Properties.                                                             *)

Complete(rows) == {rows[k].svc : k \in DOMAIN rows} = Services

\* The rows a digest must not leave out: those in a bad state, and those the
\* scheduler cannot place, whatever their state says.
Attention(row) == row.blocked \/ Severity[row.svc] <= Warning

AttentionFirst(rows) ==
  \A i, j \in DOMAIN rows : i < j /\ Attention(rows[j]) => Attention(rows[i])

\* A page with a blocked row (one without is not sorted) is in the order of its
\* own verdicts, whatever order an earlier decoration left: every service is there, no row that
\* needs attention stands below one that does not, and the rows that are not
\* blocked stand by severity and then by name.
RowsInOrder ==
  phase = "return" /\ pending # {} =>
    LET rows == heap[cur] IN
      /\ Complete(rows) /\ AttentionFirst(rows)
      /\ \A i, j \in 1..N : i < j /\ ~rows[i].blocked /\ ~rows[j].blocked =>
           \/ Severity[rows[i].svc] < Severity[rows[j].svc]
           \/ Severity[rows[i].svc] = Severity[rows[j].svc] /\ rows[i].svc < rows[j].svc

WaitsForDevice(row) == row.blocked /\ "accelerator" \in Lacks[row.svc]

\* When decorate returns, the marks of an earlier decoration of the same rows
\* are gone: the blocked count of the page is the number of rows marked
\* blocked, each of them under one kind of shortage; and where FillZones had
\* pods and nodes to go by, the rows it leaves marked are those that have a
\* placed pod now, and the page counts them.
MarksCurrent ==
  phase = "return" =>
    /\ copy.blocked = Count(heap[cur], IsBlocked)
    /\ copy.blocked = copy.kinds.accelerator + copy.kinds.cpu + copy.kinds.placement
    /\ copy.kinds.accelerator = Count(heap[cur], WaitsForDevice)
    /\ lists => /\ \A k \in 1..N : heap[cur][k].zoned <=> heap[cur][k].svc \in placed
                /\ copy.zoned = Count(heap[cur], IsZoned)

\* A viewer can meet a service twice, or never, only if a sort was moving rows
\* while it read: marks alone never do that.  A page nobody wrote to at all
\* shows as many blocked rows as its own summary says.
QuietPageSound ==
  \A v \in Viewers : page[v] # NoPage /\ Len(shown[v]) = N =>
    /\ "moved" \notin touched[v] => Complete(shown[v])
    /\ touched[v] = {} => Count(shown[v], IsBlocked) = page[v].blocked

(* What a comment says, and the code does not do.                         *)

\* "the cached snapshot is never mutated after callers have a pointer to it"
\* (decorate).
NeverMutatedWhileHeld ==
  [][\A v \in Viewers : page[v] # NoPage /\ page'[v] = page[v] =>
       heap'[page[v].array] = heap[page[v].array]]_vars
=============================================================================

-------------------------- MODULE SharedRowsProofs --------------------------
(***************************************************************************)
(* For every set of services, every order of their states and any number   *)
(* of viewers, decorating a cached array of rows again and again leaves    *)
(* neither an order nor a mark of an earlier decoration on a page with     *)
(* blocked rows, and shows a viewer nobody disturbed what its own summary  *)
(* says.                                                                   *)
(*                                                                         *)
(* The invariant says, for each loop, what the rows below its index look   *)
(* like already, in terms of the services they are about and not of their  *)
(* places: sorting then cannot disturb it.  In the middle of a swap, when  *)
(* the array has one row twice, it speaks of the array the swap will leave *)
(* (Current).  A bijection from the places to the services turns it into   *)
(* the counts of the properties at the end.                                *)
(***************************************************************************)
EXTENDS SharedRows, FiniteSetTheorems, FunctionTheorems, TLAPS

Row == [svc : Services, blocked : BOOLEAN, zoned : BOOLEAN]

\* An array has one row for each service.
OneRowEach(rows) ==
  /\ rows \in [1..N -> Row]
  /\ \A i, j \in 1..N : rows[i].svc = rows[j].svc => i = j
  /\ \A s \in Services : \E k \in 1..N : rows[k].svc = s

Phases    == {"idle", "unblock", "block", "sort", "swap", "unzone", "zone", "return"}
PerKind   == [accelerator : Nat, cpu : Nat, placement : Nat]
Summaries == [blocked : Nat, kinds : PerKind, zoned : Nat]
Touches   == SUBSET {"marked", "moved"}
Lifted    == [svc : Nat, blocked : BOOLEAN, zoned : BOOLEAN]
Page      == [array : Nat, blocked : Nat, zoned : Nat]

\* Every variable has its type, and the loop indexes are in their arrays.
TypeOK ==
  /\ wired \subseteq {"pending", "running"}
  /\ heap \in Seq([1..N -> Row])
  /\ holder \in Viewers \cup {Nobody} /\ phase \in Phases
  /\ at \in (Nat \ {0}) \X (Nat \ {0})
  /\ pending \subseteq Services /\ acc \subseteq Services /\ placed \subseteq Services
  /\ lists \in BOOLEAN
  /\ copy \in Summaries
  /\ page \in [Viewers -> Page]
  /\ shown \in [Viewers -> Seq(Row)]
  /\ touched \in [Viewers -> Touches]
  /\ hand \in Lifted

\* The array decorate works on, as it is once a swap under way is done.
Current ==
  IF phase = "swap" THEN [heap[cur] EXCEPT ![at[2] - 1] = hand] ELSE heap[cur]

Arrays ==
  /\ \A a \in 1..cur : a # cur => OneRowEach(heap[a])
  /\ cur > 0 => OneRowEach(Current)

BlockedIn(rows) == Cardinality({k \in 1..N : rows[k].blocked})

\* A viewer reads its array from the front.  Until a row is moved, what it has
\* read are the services that are there, and no swap is under way; until one
\* is touched at all, it is what is there.
PageKept(v) ==
  /\ Len(shown[v]) <= N
  /\ page[v] = NoPage => shown[v] = <<>>
  /\ page[v] # NoPage =>
       /\ page[v].array \in 1..cur
       /\ "moved" \notin touched[v] =>
            /\ phase = "swap" => page[v].array # cur
            /\ \A k \in 1..Len(shown[v]) : shown[v][k].svc = heap[page[v].array][k].svc
       /\ touched[v] = {} =>
            /\ \A k \in 1..Len(shown[v]) : shown[v][k] = heap[page[v].array][k]
            /\ page[v].blocked = BlockedIn(heap[page[v].array])

Pages == \A v \in Viewers : PageKept(v)

\* The holder of the mutex has a snapshot and no page yet.
Held ==
  /\ phase = "idle" <=> holder = Nobody
  /\ phase # "idle" => cur > 0 /\ page[holder] = NoPage

\* What this decorate has to do is what the sources it has can be asked for.
Wired ==
  /\ "pending" \notin wired => pending = {} /\ phase \notin {"unblock", "block", "sort", "swap"}
  /\ lists => "running" \in wired
  /\ phase = "idle" => copy = NoSummary

\* The summary counts these services as blocked, each under one kind.
Devices(blocked) == {s \in blocked : "accelerator" \in Lacks[s]}

Counted(c, blocked) ==
  /\ c.blocked = Cardinality(blocked)
  /\ c.kinds.accelerator = Cardinality(Devices(blocked))
  /\ c.blocked = c.kinds.accelerator + c.kinds.cpu + c.kinds.placement

Marked(blocked) == \A k \in 1..N : Current[k].blocked <=> Current[k].svc \in blocked

\* How far FillPending has come.
Blocking ==
  /\ phase = "idle" /\ "pending" \notin wired /\ cur > 0 => Marked({})
  /\ phase = "unblock" => copy = NoSummary /\ \A k \in 1..N : k < at[1] => ~Current[k].blocked
  /\ phase = "block" => acc \subseteq pending /\ Counted(copy, pending \ acc) /\ Marked(pending \ acc)
  /\ phase \in {"sort", "swap", "unzone", "zone", "return"} => Counted(copy, pending) /\ Marked(pending)

\* How far FillZones has come.
Zoning ==
  /\ phase = "unzone" /\ lists => \A k \in 1..N : k < at[1] => ~Current[k].zoned
  /\ phase = "zone" =>
       \A k \in 1..N : Current[k].zoned <=> k < at[1] /\ Current[k].svc \in placed
  /\ phase = "return" /\ lists =>
       /\ \A k \in 1..N : Current[k].zoned <=> Current[k].svc \in placed
       /\ copy.zoned = Count(Current, IsZoned)

\* Insertion sort: the first i rows are in order, but for the one in place j,
\* which is only known to belong before those after it.
Inserted(rows, i, j) ==
  \A a, b \in 1..N : a < b /\ b <= i /\ b # j => Less(rows[a], rows[b])

Sorted(rows) == \A a, b \in 1..N : a < b => Less(rows[a], rows[b])

\* How far the sort has come; later loops leave its order alone.
Sorting ==
  /\ phase = "sort" => at[2] <= at[1] /\ (at[1] > N => at[2] = at[1]) /\ Inserted(Current, at[1], at[2])
  /\ phase = "swap" => /\ 1 < at[2] /\ at[2] <= at[1] /\ at[1] <= N
                       /\ Inserted(Current, at[1], at[2] - 1)
  /\ phase \in {"unzone", "zone", "return"} /\ pending # {} => Sorted(Current)

IInv == TypeOK /\ Arrays /\ Pages /\ Held /\ Wired /\ Blocking /\ Sorting /\ Zoning

-----------------------------------------------------------------------------
(* The order of the rows.                                                  *)

LEMMA NIsNat == N \in Nat
BY RowsAssumption, FS_CardinalityType DEF N

LEMMA RankIsNat ==
  ASSUME NEW row \in Row
  PROVE  Rank(row) \in Nat /\ row.svc \in Nat
BY RowsAssumption DEF Row, Rank

\* Less orders rows of different services strictly and totally.
LEMMA LessOrders ==
  ASSUME NEW a \in Row, NEW b \in Row, NEW c \in Row
  PROVE  /\ Less(a, b) /\ Less(b, c) => Less(a, c)
         /\ a.svc # b.svc => Less(a, b) \/ Less(b, a)
         /\ ~Less(a, a)
<1>1. /\ Rank(a) \in Nat /\ Rank(b) \in Nat /\ Rank(c) \in Nat
      /\ a.svc \in Nat /\ b.svc \in Nat /\ c.svc \in Nat
  BY RankIsNat
<1>2. QED
  BY <1>1 DEF Less

\* The order does not look at the zones.
LEMMA LessOfMarks ==
  ASSUME NEW a, NEW b, NEW c, NEW d,
         a.svc = c.svc, a.blocked = c.blocked, b.svc = d.svc, b.blocked = d.blocked
  PROVE  Less(a, b) <=> Less(c, d)
<1>1. Rank(a) = Rank(c) /\ Rank(b) = Rank(d)
  BY DEF Rank
<1>2. QED
  BY <1>1 DEF Less

\* The row in place j sinks past its neighbour.
LEMMA InsertedSwap ==
  ASSUME NEW rows \in [1..N -> Row], NEW i \in 1..N, NEW j \in 2..i,
         Inserted(rows, i, j), Less(rows[j], rows[j - 1])
  PROVE  Inserted([rows EXCEPT ![j] = rows[j - 1], ![j - 1] = rows[j]], i, j - 1)
<1> DEFINE new == [rows EXCEPT ![j] = rows[j - 1], ![j - 1] = rows[j]]
<1>1. /\ i \in Nat /\ j \in Nat /\ i <= N /\ j <= i /\ N \in Nat /\ j - 1 \in 1..N /\ j \in 1..N
  BY NIsNat
<1>2. \A k \in 1..N : new[k] = IF k = j THEN rows[j - 1] ELSE IF k = j - 1 THEN rows[j] ELSE rows[k]
  BY <1>1
<1> HIDE DEF new
<1>3. SUFFICES ASSUME NEW a \in 1..N, NEW b \in 1..N, a < b, b <= i, b # j - 1
               PROVE  Less(new[a], new[b])
  BY DEF Inserted, new
<1>4. \A k, m \in 1..N : k < m /\ m <= i /\ m # j => Less(rows[k], rows[m])
  BY DEF Inserted
<1>5. CASE b = j
  <2>1. new[b] = rows[j - 1]
    BY <1>2, <1>5
  <2>2. CASE a = j - 1
    BY <1>1, <1>2, <2>1, <2>2
  <2>3. CASE a # j - 1
    <3>1. new[a] = rows[a] /\ a < j - 1 /\ j - 1 <= i /\ j - 1 # j
      BY <1>1, <1>2, <1>3, <1>5, <2>3
    <3>2. QED
      BY <1>1, <1>4, <2>1, <3>1
  <2>4. QED
    BY <2>2, <2>3
<1>6. CASE b # j
  <2>1. new[b] = rows[b]
    BY <1>2, <1>3, <1>6
  <2>2. \E k \in 1..N : new[a] = rows[k] /\ k < b
    <3>1. CASE a = j
      BY <1>1, <1>2, <1>3, <3>1
    <3>2. CASE a = j - 1
      <4>1. j < b
        BY <1>1, <1>3, <1>6, <3>2
      <4>2. QED
        BY <1>1, <1>2, <3>2, <4>1
    <3>3. CASE a # j /\ a # j - 1
      BY <1>2, <1>3, <3>3
    <3>4. QED
      BY <3>1, <3>2, <3>3
  <2>3. QED
    BY <1>3, <1>4, <1>6, <2>1, <2>2
<1>7. QED
  BY <1>5, <1>6

\* The row in place j has sunk.
LEMMA InsertedNext ==
  ASSUME NEW rows, OneRowEach(rows), NEW i \in 1..N, NEW j \in 1..i,
         Inserted(rows, i, j), j = 1 \/ ~Less(rows[j], rows[j - 1])
  PROVE  Inserted(rows, i + 1, i + 1)
<1>1. /\ i \in Nat /\ j \in Nat /\ i <= N /\ j <= i /\ N \in Nat /\ j \in 1..N
      /\ rows \in [1..N -> Row]
  BY NIsNat DEF OneRowEach
<1>2. SUFFICES ASSUME NEW a \in 1..N, NEW b \in 1..N, a < b, b <= i + 1, b # i + 1
               PROVE  Less(rows[a], rows[b])
  BY DEF Inserted
<1>3. b <= i
  BY <1>1, <1>2
<1>4. CASE b # j
  BY <1>2, <1>3, <1>4 DEF Inserted
<1>5. CASE b = j
  <2>1. j - 1 \in 1..N /\ j - 1 # j /\ j - 1 <= i /\ ~Less(rows[j], rows[j - 1])
    BY <1>1, <1>2, <1>5
  <2>2. rows[j].svc # rows[j - 1].svc
    BY <1>1, <2>1 DEF OneRowEach
  <2>3. rows[j] \in Row /\ rows[j - 1] \in Row /\ rows[a] \in Row
    BY <1>1, <2>1
  <2>4. Less(rows[j - 1], rows[j])
    BY <2>1, <2>2, <2>3, LessOrders
  <2>5. a = j - 1 \/ a < j - 1
    BY <1>1, <1>2, <1>5
  <2>6. a < j - 1 => Less(rows[a], rows[j - 1])
    BY <2>1 DEF Inserted
  <2>7. QED
    BY <1>5, <2>3, <2>4, <2>5, <2>6, LessOrders
<1>6. QED
  BY <1>4, <1>5

\* Marks of the zones leave the order alone.
LEMMA SortedStays ==
  ASSUME NEW rows, NEW new, Sorted(rows),
         \A k \in 1..N : new[k].svc = rows[k].svc /\ new[k].blocked = rows[k].blocked
  PROVE  Sorted(new)
<1> SUFFICES ASSUME NEW a \in 1..N, NEW b \in 1..N, a < b PROVE Less(new[a], new[b])
  BY DEF Sorted
<1>1. Less(rows[a], rows[b])
  BY DEF Sorted
<1>2. QED
  BY <1>1, LessOfMarks

-----------------------------------------------------------------------------
(* Arrays of rows.                                                         *)

\* In an array with one row for each service, as many rows are about some
\* services as there are of those services.
LEMMA RowsOf ==
  ASSUME NEW rows, OneRowEach(rows), NEW T \in SUBSET Services
  PROVE  Cardinality({k \in 1..N : rows[k].svc \in T}) = Cardinality(T)
<1> DEFINE K == {k \in 1..N : rows[k].svc \in T}
           f == [k \in K |-> rows[k].svc]
<1>1. IsFiniteSet(K)
  <2>1. IsFiniteSet(1..N)
    BY NIsNat, FS_Interval
  <2>2. QED
    BY <2>1, FS_Subset
<1>2. f \in [K -> T] /\ \A i, j \in K : f[i] = f[j] => i = j
  BY DEF OneRowEach
<1>3. \A t \in T : \E k \in K : f[k] = t
  BY DEF OneRowEach
<1>4. f \in Bijection(K, T)
  BY <1>2, <1>3, Fun_IsBij
<1>5. ExistsBijection(K, T)
  BY <1>4, Fun_ExistsBij
<1>6. QED
  BY <1>1, <1>5, FS_Bijection

\* A store that leaves the service of a row alone.
LEMMA Overwritten ==
  ASSUME NEW rows, OneRowEach(rows), NEW k \in 1..N, NEW row \in Row, row.svc = rows[k].svc
  PROVE  OneRowEach([rows EXCEPT ![k] = row])
<1> DEFINE new == [rows EXCEPT ![k] = row]
<1>1. new \in [1..N -> Row] /\ \A i \in 1..N : new[i].svc = rows[i].svc
  BY DEF OneRowEach
<1>2. QED
  BY <1>1 DEF OneRowEach

\* A swap of neighbours.
LEMMA Swapped ==
  ASSUME NEW rows, OneRowEach(rows), NEW i \in 1..N, NEW j \in 1..N, i # j
  PROVE  OneRowEach([rows EXCEPT ![j] = rows[i], ![i] = rows[j]])
<1> DEFINE new == [rows EXCEPT ![j] = rows[i], ![i] = rows[j]]
           p   == [k \in 1..N |-> IF k = i THEN j ELSE IF k = j THEN i ELSE k]
<1>1. rows \in [1..N -> Row]
  BY DEF OneRowEach
<1>2. new \in [1..N -> Row] /\ p \in [1..N -> 1..N] /\ \A k \in 1..N : new[k] = rows[p[k]] /\ p[p[k]] = k
  BY <1>1
<1> HIDE DEF new, p
<1>3. \A k, m \in 1..N : new[k].svc = new[m].svc => k = m
  BY <1>2 DEF OneRowEach
<1>4. \A s \in Services : \E k \in 1..N : new[k].svc = s
  BY <1>2 DEF OneRowEach
<1>5. QED
  BY <1>2, <1>3, <1>4 DEF OneRowEach, new

\* A mark, set or taken off.
LEMMA MarkRow ==
  ASSUME NEW row \in Row, NEW b \in BOOLEAN
  PROVE  /\ [row EXCEPT !.blocked = b] \in Row
         /\ [row EXCEPT !.blocked = b].svc = row.svc
         /\ [row EXCEPT !.blocked = b].blocked = b
         /\ [row EXCEPT !.blocked = b].zoned = row.zoned
         /\ [row EXCEPT !.zoned = b] \in Row
         /\ [row EXCEPT !.zoned = b].svc = row.svc
         /\ [row EXCEPT !.zoned = b].blocked = row.blocked
         /\ [row EXCEPT !.zoned = b].zoned = b
BY DEF Row

\* What Build leaves is one row for each service, none of them marked.
LEMMA BuiltRowsAre ==
  ASSUME NEW rows \in BuiltRows
  PROVE  OneRowEach(rows) /\ \A k \in 1..N : ~rows[k].blocked
<1>1. rows \in [1..N -> {Fresh(s) : s \in Services}]
      /\ \A i, j \in 1..N : i < j => Less(rows[i], rows[j])
  BY DEF BuiltRows
<1>2. \A k \in 1..N : \E s \in Services : rows[k] = [svc |-> s, blocked |-> FALSE, zoned |-> FALSE]
  <2> TAKE k \in 1..N
  <2>1. rows[k] \in {Fresh(s) : s \in Services}
    BY <1>1
  <2>2. QED
    BY <2>1 DEF Fresh
<1>3. \A k \in 1..N : rows[k] \in Row /\ ~rows[k].blocked
  <2> TAKE k \in 1..N
  <2>1. PICK s \in Services : rows[k] = [svc |-> s, blocked |-> FALSE, zoned |-> FALSE]
    BY <1>2
  <2>2. QED
    BY <2>1 DEF Row
<1>4. \A i, j \in 1..N : i < j => rows[i].svc # rows[j].svc
  <2> SUFFICES ASSUME NEW i \in 1..N, NEW j \in 1..N, i < j, rows[i].svc = rows[j].svc PROVE FALSE
    OBVIOUS
  <2>1. rows[i] = rows[j]
    <3>1. PICK s \in Services : rows[i] = [svc |-> s, blocked |-> FALSE, zoned |-> FALSE]
      BY <1>2
    <3>2. PICK t \in Services : rows[j] = [svc |-> t, blocked |-> FALSE, zoned |-> FALSE]
      BY <1>2
    <3>3. QED
      BY <3>1, <3>2
  <2>2. Less(rows[i], rows[i])
    BY <1>1, <2>1
  <2>3. QED
    BY <1>3, <2>2, LessOrders
<1>5. \A i, j \in 1..N : rows[i].svc = rows[j].svc => i = j
  BY <1>4, NIsNat
<1>6. \A s \in Services : \E k \in 1..N : rows[k].svc = s
  <2> DEFINE f == [k \in 1..N |-> rows[k].svc]
  <2>1. f \in Injection(1..N, Services)
    <3>1. f \in [1..N -> Services] /\ \A i, j \in 1..N : f[i] = f[j] => i = j
      BY <1>5, <1>3 DEF Row
    <3>2. QED
      BY <3>1, Fun_IsInj
  <2>2. Cardinality(1..N) = Cardinality(Services)
    <3>1. Cardinality(1..N) = N
      BY NIsNat, FS_Interval
    <3>2. QED
      BY <3>1 DEF N
  <2>3. f \in Surjection(1..N, Services)
    BY <2>1, <2>2, RowsAssumption, FS_Injection
  <2>4. \A s \in Services : \E k \in 1..N : f[k] = s
    <3> HIDE DEF f
    <3>1. QED
      BY <2>3 DEF Surjection
  <2>5. QED
    BY <2>4
<1>7. QED
  BY <1>1, <1>5, <1>6, <1>3 DEF OneRowEach

\* One more blocked service, under the kind of shortage Blocked.Kind names.
LEMMA OneMore ==
  ASSUME NEW c \in Summaries, NEW S \in SUBSET Services, Counted(c, S), NEW s \in Services \ S,
         NEW d, d = [c EXCEPT !.blocked = @ + 1, !.kinds[Kind(s)] = @ + 1]
  PROVE  d \in Summaries /\ Counted(d, S \cup {s})
<1>1. c.blocked \in Nat /\ c.kinds \in PerKind /\ c.zoned \in Nat
      /\ c.kinds.accelerator \in Nat /\ c.kinds.cpu \in Nat /\ c.kinds.placement \in Nat
  BY DEF Summaries, PerKind
<1>2. Kind(s) \in {"accelerator", "cpu", "placement"}
      /\ (Kind(s) = "accelerator" <=> "accelerator" \in Lacks[s])
  BY DEF Kind
<1> DEFINE m == [c.kinds EXCEPT ![Kind(s)] = @ + 1]
<1>3. d.blocked = c.blocked + 1 /\ d.kinds = m /\ d.zoned = c.zoned /\ d = [blocked |-> d.blocked, kinds |-> m, zoned |-> d.zoned]
  BY DEF Summaries
<1>4. /\ m \in PerKind
      /\ m.accelerator = c.kinds.accelerator + (IF Kind(s) = "accelerator" THEN 1 ELSE 0)
      /\ m.accelerator + m.cpu + m.placement = c.kinds.accelerator + c.kinds.cpu + c.kinds.placement + 1
  BY <1>1, <1>2 DEF PerKind
<1>5. IsFiniteSet(S) /\ IsFiniteSet(Devices(S))
  BY RowsAssumption, FS_Subset DEF Devices
<1>6. Cardinality(S \cup {s}) = Cardinality(S) + 1
  BY <1>5, FS_AddElement
<1>7. Cardinality(Devices(S \cup {s})) =
        IF "accelerator" \in Lacks[s] THEN Cardinality(Devices(S)) + 1 ELSE Cardinality(Devices(S))
  <2>1. CASE "accelerator" \in Lacks[s]
    <3>1. Devices(S \cup {s}) = Devices(S) \cup {s} /\ s \notin Devices(S)
      BY <2>1 DEF Devices
    <3>2. QED
      BY <1>5, <2>1, <3>1, FS_AddElement
  <2>2. CASE "accelerator" \notin Lacks[s]
    <3>1. Devices(S \cup {s}) = Devices(S)
      BY <2>2 DEF Devices
    <3>2. QED
      BY <2>2, <3>1
  <2>3. QED
    BY <2>1, <2>2
<1> HIDE DEF m
<1>8. d \in Summaries
  BY <1>1, <1>3, <1>4 DEF Summaries
<1>9. c.blocked = Cardinality(S) /\ c.kinds.accelerator = Cardinality(Devices(S))
      /\ c.blocked = c.kinds.accelerator + c.kinds.cpu + c.kinds.placement
  BY DEF Counted
<1>10. d.blocked = Cardinality(S \cup {s}) /\ d.blocked = m.accelerator + m.cpu + m.placement
  BY <1>1, <1>3, <1>4, <1>6, <1>9
<1>11. m.accelerator = Cardinality(Devices(S \cup {s}))
  BY <1>1, <1>2, <1>4, <1>7, <1>9
<1>12. QED
  BY <1>3, <1>8, <1>10, <1>11 DEF Counted

-----------------------------------------------------------------------------
(* What every step that leaves the pages alone does to what they show.     *)

\* A mark on a row of the newest array, of which the pages that show it are
\* told.
LEMMA Stored ==
  ASSUME TypeOK, Arrays, Pages, cur > 0, phase # "swap", phase' # "swap",
         NEW new, OneRowEach(new), \A k \in 1..N : new[k].svc = Current[k].svc,
         heap' = [heap EXCEPT ![cur] = new],
         touched' = [v \in Viewers |->
                       IF page[v].array = cur THEN touched[v] \cup {"marked"} ELSE touched[v]],
         UNCHANGED <<page, shown>>
  PROVE  /\ heap' \in Seq([1..N -> Row]) /\ touched' \in [Viewers -> Touches]
         /\ cur' = cur /\ Current' = new
         /\ Arrays' /\ Pages'
<1>1. heap \in Seq([1..N -> Row]) /\ cur \in Nat /\ cur \in 1..cur /\ new \in [1..N -> Row]
  BY DEF TypeOK, cur, OneRowEach
<1>2. heap' \in Seq([1..N -> Row]) /\ Len(heap') = Len(heap)
  BY <1>1 DEF cur
<1>3. cur' = cur /\ heap'[cur] = new /\ \A a \in 1..cur : a # cur => heap'[a] = heap[a]
  <2>1. cur' = cur
    BY <1>2 DEF cur
  <2>2. DOMAIN heap = 1..cur
    BY <1>1 DEF cur
  <2>3. QED
    BY <1>1, <2>1, <2>2
<1>4. /\ touched' \in [Viewers -> Touches]
      /\ \A v \in Viewers : /\ "moved" \in touched'[v] <=> "moved" \in touched[v]
                            /\ touched'[v] = {} => touched[v] = {} /\ page[v].array # cur
  BY DEF TypeOK, Touches
<1>5. Current = heap[cur] /\ Current' = new
  BY <1>3 DEF Current
<1>6. Arrays'
  BY <1>3, <1>5 DEF Arrays
<1>7. Pages'
  <2> SUFFICES ASSUME NEW v \in Viewers PROVE PageKept(v)'
    BY DEF Pages
  <2>1. PageKept(v)
    BY DEF Pages
  <2>2. ASSUME page[v] # NoPage, touched'[v] = {} PROVE heap'[page[v].array] = heap[page[v].array]
    BY <1>3, <1>4, <2>1, <2>2 DEF PageKept
  <2>3. ASSUME page[v] # NoPage, NEW k \in 1..N
        PROVE  heap'[page[v].array][k].svc = heap[page[v].array][k].svc
    BY <1>3, <1>5, <2>1, <2>3 DEF PageKept
  <2>4. Len(shown[v]) <= N /\ Len(shown[v]) \in Nat
    BY <2>1 DEF PageKept, TypeOK
  <2>5. \A k \in 1..Len(shown[v]) : k \in 1..N
    BY <2>4, NIsNat
  <2>6. QED
    BY <1>3, <1>4, <2>1, <2>2, <2>3, <2>5 DEF PageKept
<1>8. QED
  BY <1>2, <1>3, <1>4, <1>5, <1>6, <1>7

\* One of the two stores of a swap.
LEMMA Moved ==
  ASSUME TypeOK, Arrays, Pages, cur > 0, NEW new \in [1..N -> Row],
         heap' = [heap EXCEPT ![cur] = new], OneRowEach(Current'),
         touched' = [v \in Viewers |->
                       IF page[v].array = cur THEN touched[v] \cup {"moved"} ELSE touched[v]],
         UNCHANGED <<page, shown>>
  PROVE  /\ heap' \in Seq([1..N -> Row]) /\ touched' \in [Viewers -> Touches]
         /\ cur' = cur /\ Arrays' /\ Pages'
<1>1. heap \in Seq([1..N -> Row]) /\ cur \in Nat
  BY DEF TypeOK, cur
<1>2. heap' \in Seq([1..N -> Row]) /\ Len(heap') = Len(heap)
  BY <1>1 DEF cur
<1>3. cur' = cur /\ \A a \in 1..cur : a # cur => heap'[a] = heap[a]
  <2>1. cur' = cur
    BY <1>2 DEF cur
  <2>2. DOMAIN heap = 1..cur
    BY <1>1 DEF cur
  <2>3. QED
    BY <1>1, <2>1, <2>2
<1>4. /\ touched' \in [Viewers -> Touches]
      /\ \A v \in Viewers :
           "moved" \notin touched'[v] => touched'[v] = touched[v] /\ page[v].array # cur
  BY DEF TypeOK, Touches
<1>5. Arrays'
  BY <1>3 DEF Arrays
<1>6. Pages'
  <2> SUFFICES ASSUME NEW v \in Viewers PROVE PageKept(v)'
    BY DEF Pages
  <2>1. PageKept(v)
    BY DEF Pages
  <2>2. "moved" \notin touched'[v] /\ page[v] # NoPage =>
          heap'[page[v].array] = heap[page[v].array] /\ page[v].array # cur
    BY <1>3, <1>4, <2>1 DEF PageKept
  <2>3. touched'[v] = {} => "moved" \notin touched'[v]
    OBVIOUS
  <2>4. QED
    BY <1>3, <1>4, <2>1, <2>2, <2>3 DEF PageKept
<1>7. QED
  BY <1>2, <1>3, <1>4, <1>5, <1>6

\* No store.
LEMMA NotStored ==
  ASSUME TypeOK, Arrays, Pages, UNCHANGED <<heap, page, shown, touched>>,
         phase # "swap", phase' # "swap"
  PROVE  /\ heap' \in Seq([1..N -> Row]) /\ touched' \in [Viewers -> Touches]
         /\ cur' = cur /\ Current' = Current
         /\ Arrays' /\ Pages'
BY DEF TypeOK, Arrays, Pages, PageKept, cur, Current, NoPage

\* One row is written.
LEMMA Wrote ==
  ASSUME IInv, cur > 0, NEW k \in 1..N, NEW row \in Row, row.svc = Current[k].svc, Write(k, row),
         phase # "swap", phase' # "swap"
  PROVE  /\ heap' \in Seq([1..N -> Row]) /\ touched' \in [Viewers -> Touches]
         /\ cur' = cur /\ Current' = [Current EXCEPT ![k] = row]
         /\ Arrays' /\ Pages'
         /\ UNCHANGED <<hand, holder, wired, pending, lists, placed, page, shown>>
<1> DEFINE new == [Current EXCEPT ![k] = row]
<1>1. heap \in Seq([1..N -> Row]) /\ cur \in 1..cur /\ cur \in Nat
  BY DEF IInv, TypeOK, cur
<1>2. OneRowEach(Current)
  BY <1>1 DEF IInv, Arrays
<1>3. OneRowEach(new) /\ \A i \in 1..N : new[i].svc = Current[i].svc
  BY <1>2, Overwritten DEF OneRowEach
<1>4. heap' = [heap EXCEPT ![cur] = new]
  BY DEF Write, Store, Current
<1>5. touched' = [v \in Viewers |->
                    IF page[v].array = cur THEN touched[v] \cup {"marked"} ELSE touched[v]]
      /\ UNCHANGED <<hand, holder, wired, pending, lists, placed, page, shown>>
  BY DEF Write, Store, sources
<1> HIDE DEF new
<1>6. QED
  BY <1>3, <1>4, <1>5, Stored DEF IInv, new

\* No row is written.
LEMMA Skipped ==
  ASSUME IInv, Skip, phase # "swap", phase' # "swap"
  PROVE  /\ heap' \in Seq([1..N -> Row]) /\ touched' \in [Viewers -> Touches]
         /\ cur' = cur /\ Current' = Current
         /\ Arrays' /\ Pages'
         /\ UNCHANGED <<hand, holder, wired, pending, lists, placed, page, shown>>
<1>1. UNCHANGED <<heap, page, shown, touched, hand, holder, wired, pending, lists, placed>>
  BY DEF Skip, sources, readers
<1>2. QED
  BY <1>1, NotStored DEF IInv

-----------------------------------------------------------------------------
(* The steps of decorate.                                                  *)

\* The array in work has a row for each service, whose index is in range.
LEMMA AtWork ==
  ASSUME IInv, phase # "idle"
  PROVE  /\ cur \in Nat /\ cur > 0 /\ OneRowEach(Current)
         /\ at[1] \in Nat /\ at[1] > 0 /\ at[2] \in Nat /\ at[2] > 0
<1>1. cur \in Nat /\ cur > 0 /\ cur \in 1..cur
  BY DEF IInv, TypeOK, Held, cur
<1>2. QED
  BY <1>1 DEF IInv, TypeOK, Arrays

LEMMA UnblockStep == ASSUME IInv, Unblock PROVE IInv'
<1>1. phase = "unblock" /\ copy' = copy
  BY DEF Unblock
<1>2. copy = NoSummary /\ \A k \in 1..N : k < at[1] => ~Current[k].blocked
  BY <1>1 DEF IInv, Blocking
<1>3. /\ cur > 0 /\ OneRowEach(Current) /\ Current \in [1..N -> Row]
      /\ at[1] \in Nat /\ at[1] > 0
  BY <1>1, AtWork DEF OneRowEach
<1>4. CASE at[1] <= N
  <2> DEFINE k == at[1]
             row == [Current[k] EXCEPT !.blocked = FALSE]
  <2>1. k \in 1..N /\ Current[k] \in Row
    BY <1>3, <1>4, NIsNat
  <2>2. row \in Row /\ row.svc = Current[k].svc /\ row.blocked = FALSE
    BY <2>1, MarkRow
  <2>3. Write(k, row) /\ at' = <<k + 1, 1>> /\ phase' = "unblock" /\ acc' = acc
    BY <1>1, <1>4 DEF Unblock, Current
  <2> HIDE DEF k, row
  <2>4. /\ heap' \in Seq([1..N -> Row]) /\ touched' \in [Viewers -> Touches]
        /\ cur' = cur /\ Current' = [Current EXCEPT ![k] = row]
        /\ Arrays' /\ Pages'
        /\ UNCHANGED <<hand, holder, wired, pending, lists, placed, page, shown>>
    BY <1>1, <1>3, <2>1, <2>2, <2>3, Wrote
  <2>5. TypeOK'
    BY <1>1, <2>1, <2>3, <2>4 DEF IInv, TypeOK
  <2>6. Held' /\ Wired' /\ Sorting' /\ Zoning'
    BY <1>1, <1>3, <2>3, <2>4 DEF IInv, Held, Wired, Sorting, Zoning, NoPage, NoSummary
  <2>7. \A j \in 1..N : j < k + 1 => ~Current'[j].blocked
    <3> SUFFICES ASSUME NEW j \in 1..N, j < k + 1 PROVE ~Current'[j].blocked
      OBVIOUS
    <3>1. j = k \/ j < k
      BY <2>1, NIsNat
    <3>2. Current'[j] = IF j = k THEN row ELSE Current[j]
      BY <1>3, <2>4
    <3>3. QED
      BY <1>2, <2>2, <3>1, <3>2 DEF k
  <2>8. Blocking'
    BY <1>1, <1>2, <2>3, <2>4, <2>7 DEF Blocking, NoSummary
  <2>9. QED
    BY <2>4, <2>5, <2>6, <2>8 DEF IInv
<1>5. CASE ~(at[1] <= N)
  <2>1. Skip /\ phase' = "block" /\ at' = <<1, 1>> /\ acc' = pending
    BY <1>1, <1>5 DEF Unblock, Then
  <2>2. /\ heap' \in Seq([1..N -> Row]) /\ touched' \in [Viewers -> Touches]
        /\ cur' = cur /\ Current' = Current
        /\ Arrays' /\ Pages'
        /\ UNCHANGED <<hand, holder, wired, pending, lists, placed, page, shown>>
    BY <1>1, <2>1, Skipped
  <2>3. TypeOK'
    BY <1>1, <2>1, <2>2 DEF IInv, TypeOK, Phases
  <2>4. Held' /\ Wired' /\ Sorting' /\ Zoning'
    BY <1>1, <1>3, <2>1, <2>2 DEF IInv, Held, Wired, Sorting, Zoning, NoPage, NoSummary
  <2>5. pending' \ acc' = {}
    BY <2>1, <2>2
  <2>6. Counted(copy', {})
    <3>1. Devices({}) = {}
      BY DEF Devices
    <3>2. QED
      BY <1>1, <1>2, <3>1, FS_EmptySet DEF Counted, NoSummary
  <2>7. Marked({})'
    BY <1>2, <1>3, <1>5, <2>2, NIsNat DEF Marked
  <2>8. Blocking'
    BY <2>1, <2>2, <2>5, <2>6, <2>7 DEF Blocking
  <2>9. QED
    BY <2>2, <2>3, <2>4, <2>8 DEF IInv
<1>6. QED
  BY <1>4, <1>5

\* A decorate that is done with the blocked pods goes on with the zones, if
\* they are wired.
LEMMA AfterBlocking ==
  ASSUME IInv, phase \in {"block", "sort"}, Skip, UNCHANGED <<acc, copy>>, Then(AfterPending),
         Counted(copy, pending), Marked(pending), pending # {} => Sorted(Current)
  PROVE  IInv'
<1>1. /\ heap' \in Seq([1..N -> Row]) /\ touched' \in [Viewers -> Touches]
      /\ cur' = cur /\ Current' = Current
      /\ Arrays' /\ Pages'
      /\ UNCHANGED <<hand, holder, wired, pending, lists, placed, page, shown>>
  BY Skipped DEF Then, AfterPending
<1>2. phase' \in {"unzone", "return"} /\ at' = <<1, 1>> /\ (lists => phase' = "unzone")
  BY DEF Then, AfterPending, IInv, Wired
<1>3. TypeOK'
  BY <1>1, <1>2 DEF IInv, TypeOK, Phases
<1>4. Held' /\ Wired'
  BY <1>1, <1>2, AtWork DEF IInv, Held, Wired, NoPage
<1>5. Counted(copy', pending') /\ Marked(pending)'
  BY <1>1 DEF Marked
<1>6. Blocking'
  BY <1>2, <1>5 DEF Blocking
<1>7. \A k \in 1..N : ~(k < 1)
  BY NIsNat
<1>8. Zoning'
  BY <1>1, <1>2, <1>7 DEF Zoning
<1>9. Sorting'
  BY <1>1, <1>2 DEF Sorting, Sorted
<1>10. QED
  BY <1>1, <1>3, <1>4, <1>6, <1>8, <1>9 DEF IInv

LEMMA BlockStep == ASSUME IInv, Block PROVE IInv'
<1>1. phase = "block"
  BY DEF Block
<1>2. acc \subseteq pending /\ Counted(copy, pending \ acc) /\ Marked(pending \ acc)
  BY <1>1 DEF IInv, Blocking
<1>3. cur > 0 /\ OneRowEach(Current) /\ Current \in [1..N -> Row]
  BY <1>1, AtWork DEF OneRowEach
<1>4. ASSUME NEW k \in 1..N, Current[k].svc \in acc,
             Write(k, [Current[k] EXCEPT !.blocked = TRUE]),
             acc' = acc \ {Current[k].svc},
             copy' = [copy EXCEPT !.blocked = @ + 1, !.kinds[Kind(Current[k].svc)] = @ + 1],
             UNCHANGED <<phase, at>>
      PROVE  IInv'
  <2> DEFINE s == Current[k].svc
             row == [Current[k] EXCEPT !.blocked = TRUE]
  <2>1. row \in Row /\ row.svc = s /\ row.blocked = TRUE
    BY <1>3, MarkRow
  <2>2. s \in Services /\ s \in acc /\ s \notin pending \ acc
        /\ pending \ acc' = (pending \ acc) \cup {s} /\ acc' \subseteq pending
    BY <1>2, <1>3, <1>4 DEF Row
  <2>3. Write(k, row) /\ copy' = [copy EXCEPT !.blocked = @ + 1, !.kinds[Kind(s)] = @ + 1]
    BY <1>4
  <2> HIDE DEF s, row
  <2>4. /\ heap' \in Seq([1..N -> Row]) /\ touched' \in [Viewers -> Touches]
        /\ cur' = cur /\ Current' = [Current EXCEPT ![k] = row]
        /\ Arrays' /\ Pages'
        /\ UNCHANGED <<hand, holder, wired, pending, lists, placed, page, shown>>
    BY <1>1, <1>3, <1>4, <2>1, <2>3, Wrote DEF s
  <2>5. copy \in Summaries /\ pending \ acc \in SUBSET Services /\ s \in Services \ (pending \ acc)
    BY <2>2 DEF IInv, TypeOK
  <2>6. copy' \in Summaries /\ Counted(copy', pending' \ acc')
    <3> DEFINE S == pending \ acc
    <3>1. Counted(copy, S) /\ S \in SUBSET Services /\ s \in Services \ S
      BY <1>2, <2>5
    <3> HIDE DEF S
    <3>2. copy' \in Summaries /\ Counted(copy', S \cup {s})
      BY <2>3, <2>5, <3>1, OneMore
    <3>3. S \cup {s} = pending' \ acc'
      BY <2>2, <2>4 DEF S
    <3>4. QED
      BY <3>2, <3>3
  <2>7. TypeOK'
    BY <1>4, <2>2, <2>4, <2>6 DEF IInv, TypeOK
  <2>8. Held' /\ Wired' /\ Sorting' /\ Zoning'
    BY <1>1, <1>4, <2>4 DEF IInv, Held, Wired, Sorting, Zoning, NoPage
  <2>9. Marked(pending \ acc)'
    <3> SUFFICES ASSUME NEW j \in 1..N
                 PROVE  Current'[j].blocked <=> Current'[j].svc \in (pending \ acc) \cup {s}
      BY <2>2, <2>4 DEF Marked
    <3>1. CASE j = k
      BY <1>3, <2>1, <2>4, <3>1
    <3>2. CASE j # k
      <4>1. Current'[j] = Current[j] /\ Current[j].svc # s
        BY <1>3, <2>4, <3>2 DEF OneRowEach, s
      <4>2. QED
        BY <1>2, <4>1 DEF Marked
    <3>3. QED
      BY <3>1, <3>2
  <2>10. Blocking'
    BY <1>1, <1>4, <2>2, <2>4, <2>6, <2>9 DEF Blocking
  <2>11. QED
    BY <2>4, <2>7, <2>8, <2>10 DEF IInv
<1>5. ASSUME acc = {}, Skip, UNCHANGED <<acc, copy>>,
             IF pending # {} THEN phase' = "sort" /\ at' = <<2, 2>> ELSE Then(AfterPending)
      PROVE  IInv'
  <2>1. pending \ acc = pending
    BY <1>5
  <2>2. Counted(copy, pending) /\ Marked(pending)
    BY <1>2, <2>1
  <2>3. CASE pending = {}
    BY <1>1, <1>5, <2>2, <2>3, AfterBlocking
  <2>4. CASE pending # {}
    <3>1. phase' = "sort" /\ at' = <<2, 2>>
      BY <1>5, <2>4
    <3>2. /\ heap' \in Seq([1..N -> Row]) /\ touched' \in [Viewers -> Touches]
          /\ cur' = cur /\ Current' = Current
          /\ Arrays' /\ Pages'
          /\ UNCHANGED <<hand, holder, wired, pending, lists, placed, page, shown>>
      BY <1>1, <1>5, <3>1, Skipped
    <3>3. TypeOK'
      BY <1>5, <3>1, <3>2 DEF IInv, TypeOK, Phases
    <3>4. Held' /\ Wired' /\ Zoning'
      BY <1>1, <1>3, <1>5, <3>1, <3>2 DEF IInv, Held, Wired, Zoning, NoPage
    <3>5. Blocking' /\ Sorting'
      <4>1. Inserted(Current, 2, 2)
        BY NIsNat DEF Inserted
      <4>2. Inserted(Current, 2, 2)'
        BY <3>2, <4>1 DEF Inserted
      <4>3. QED
        BY <1>5, <2>2, <3>1, <3>2, <4>2 DEF Blocking, Sorting, Marked
    <3>6. QED
      BY <3>2, <3>3, <3>4, <3>5 DEF IInv
  <2>5. QED
    BY <2>3, <2>4
<1>6. QED
  BY <1>4, <1>5 DEF Block, Current

LEMMA SortStep == ASSUME IInv, Sort PROVE IInv'
<1>1. phase = "sort" /\ Skip /\ UNCHANGED <<acc, copy>>
  BY DEF Sort
<1>2. /\ Counted(copy, pending) /\ Marked(pending) /\ at[2] <= at[1]
      /\ at[1] > N => at[2] = at[1]
      /\ Inserted(Current, at[1], at[2])
  BY <1>1 DEF IInv, Blocking, Sorting
<1>3. /\ cur > 0 /\ OneRowEach(Current) /\ Current = heap[cur]
      /\ at[1] \in Nat /\ at[1] > 0 /\ at[2] \in Nat /\ at[2] > 0
  BY <1>1, AtWork DEF Current
<1>4. CASE at[1] > N
  <2>1. Sorted(Current)
    BY <1>2, <1>3, <1>4, NIsNat DEF Inserted, Sorted
  <2>2. QED
    BY <1>1, <1>2, <1>4, <2>1, AfterBlocking DEF Sort
<1>5. CASE at[1] <= N
  <2>1. at' = <<at[1] + 1, at[1] + 1>> /\ phase' = "sort"
    BY <1>1, <1>3, <1>5, NIsNat DEF Sort
  <2>2. /\ heap' \in Seq([1..N -> Row]) /\ touched' \in [Viewers -> Touches]
        /\ cur' = cur /\ Current' = Current
        /\ Arrays' /\ Pages'
        /\ UNCHANGED <<hand, holder, wired, pending, lists, placed, page, shown>>
    BY <1>1, <2>1, Skipped
  <2>3. TypeOK'
    BY <1>1, <1>3, <2>1, <2>2 DEF IInv, TypeOK
  <2>4. Held' /\ Wired' /\ Zoning'
    BY <1>1, <2>1, <2>2 DEF IInv, Held, Wired, Zoning, NoPage
  <2>5. Blocking'
    BY <1>1, <1>2, <1>3, <2>1, <2>2 DEF Blocking, Marked
  <2>6. Inserted(Current, at[1] + 1, at[1] + 1)
    <3> DEFINE i == at[1]
               j == at[2]
    <3>1. i \in 1..N /\ j \in 1..i /\ (j = 1 \/ ~Less(Current[j], Current[j - 1]))
      BY <1>1, <1>2, <1>3, <1>5, NIsNat DEF Sort, Sinks
    <3>2. Inserted(Current, i, j)
      BY <1>2
    <3> HIDE DEF i, j
    <3>3. Inserted(Current, i + 1, i + 1)
      BY <1>3, <3>1, <3>2, InsertedNext
    <3>4. QED
      BY <3>3 DEF i
  <2>7. Sorting'
    BY <1>3, <2>1, <2>2, <2>6 DEF Sorting, Inserted
  <2>8. QED
    BY <2>2, <2>3, <2>4, <2>5, <2>7 DEF IInv
<1>6. QED
  BY <1>3, <1>4, <1>5, NIsNat

\* The first store of a swap leaves a row twice, but only until the second.
LEMMA SortLiftStep == ASSUME IInv, SortLift PROVE IInv'
<1> DEFINE i == at[1]
           j == at[2]
           new   == [Current EXCEPT ![j] = Current[j - 1]]
           whole == [Current EXCEPT ![j] = Current[j - 1], ![j - 1] = Current[j]]
<1>1. /\ phase = "sort" /\ Sinks /\ Current = heap[cur] /\ hand' = Current[j]
      /\ phase' = "swap" /\ UNCHANGED <<at, acc, copy>>
      /\ UNCHANGED <<holder, wired, pending, lists, placed, page, shown>>
      /\ heap' = [heap EXCEPT ![cur] = new]
      /\ touched' = [v \in Viewers |->
                       IF page[v].array = cur THEN touched[v] \cup {"moved"} ELSE touched[v]]
  BY DEF SortLift, Store, Current, sources
<1>2. /\ Counted(copy, pending) /\ Marked(pending) /\ j <= i
      /\ Inserted(Current, i, j)
  BY <1>1 DEF IInv, Blocking, Sorting
<1>3. /\ cur > 0 /\ cur \in Nat /\ OneRowEach(Current) /\ Current \in [1..N -> Row]
      /\ i \in Nat /\ j \in Nat
  BY <1>1, AtWork DEF OneRowEach
<1>4. /\ i \in 1..N /\ j \in 2..i /\ Less(Current[j], Current[j - 1])
      /\ j \in 1..N /\ j - 1 \in 1..N /\ j - 1 # j
  BY <1>1, <1>2, <1>3, NIsNat DEF Sinks
<1>5. OneRowEach(whole)
  BY <1>3, <1>4, Swapped
<1>6. Inserted(whole, i, j - 1)
  <2> HIDE DEF i, j, whole
  <2>1. QED
    BY <1>2, <1>3, <1>4, InsertedSwap DEF whole
<1>7. new \in [1..N -> Row] /\ [new EXCEPT ![j - 1] = Current[j]] = whole
  BY <1>3, <1>4
<1>8. cur' = cur /\ Current' = whole
  <2>1. heap \in Seq([1..N -> Row]) /\ DOMAIN heap = 1..cur
    BY DEF IInv, TypeOK, cur
  <2> HIDE DEF new, whole
  <2>2. cur' = cur /\ heap'[cur] = new
    BY <1>1, <1>3, <1>7, <2>1 DEF cur
  <2>3. QED
    BY <1>1, <1>7, <2>2 DEF Current
<1> HIDE DEF new, whole
<1>9. /\ heap' \in Seq([1..N -> Row]) /\ touched' \in [Viewers -> Touches]
      /\ Arrays' /\ Pages'
  BY <1>1, <1>3, <1>5, <1>7, <1>8, Moved DEF IInv
<1>10. hand' \in Lifted
  BY <1>1, <1>3, <1>4, RowsAssumption DEF Row, Lifted
<1>11. TypeOK'
  BY <1>1, <1>9, <1>10 DEF IInv, TypeOK, Phases
<1>12. Held' /\ Wired' /\ Zoning'
  BY <1>1, <1>8 DEF IInv, Held, Wired, Zoning, NoPage
<1>13. Marked(pending)'
  <2> SUFFICES ASSUME NEW k \in 1..N PROVE whole[k].blocked <=> whole[k].svc \in pending
    BY <1>1, <1>8 DEF Marked
  <2>1. \E m \in 1..N : whole[k] = Current[m]
    BY <1>3, <1>4 DEF whole
  <2>2. QED
    BY <1>2, <2>1 DEF Marked
<1>14. Blocking'
  BY <1>1, <1>2, <1>13 DEF Blocking
<1>15. Sorting'
  BY <1>1, <1>2, <1>4, <1>6, <1>8 DEF Sorting, Inserted
<1>16. QED
  BY <1>9, <1>11, <1>12, <1>14, <1>15 DEF IInv

LEMMA SortPutStep == ASSUME IInv, SortPut PROVE IInv'
<1> DEFINE i == at[1]
           j == at[2]
           new == [heap[cur] EXCEPT ![j - 1] = hand]
<1>1. /\ phase = "swap" /\ Current = new /\ hand' = NoRow
      /\ phase' = "sort" /\ at' = <<i, j - 1>> /\ UNCHANGED <<acc, copy>>
      /\ UNCHANGED <<holder, wired, pending, lists, placed, page, shown>>
      /\ heap' = [heap EXCEPT ![cur] = new]
      /\ touched' = [v \in Viewers |->
                       IF page[v].array = cur THEN touched[v] \cup {"moved"} ELSE touched[v]]
  BY DEF SortPut, Store, Current, sources
<1>2. /\ Counted(copy, pending) /\ Marked(pending)
      /\ 1 < j /\ j <= i /\ i <= N /\ Inserted(Current, i, j - 1)
  BY <1>1 DEF IInv, Blocking, Sorting
<1>3. /\ cur > 0 /\ cur \in Nat /\ OneRowEach(Current) /\ Current \in [1..N -> Row]
      /\ i \in Nat /\ j \in Nat
  BY <1>1, AtWork DEF OneRowEach
<1>4. cur' = cur /\ Current' = Current
  <2>1. heap \in Seq([1..N -> Row]) /\ DOMAIN heap = 1..cur
    BY DEF IInv, TypeOK, cur
  <2>2. new \in [1..N -> Row]
    BY <1>1, <1>3
  <2> HIDE DEF new
  <2>3. cur' = cur /\ heap'[cur] = new
    BY <1>1, <1>3, <2>1, <2>2 DEF cur
  <2>4. QED
    BY <1>1, <2>3 DEF Current
<1> HIDE DEF new
<1>5. /\ heap' \in Seq([1..N -> Row]) /\ touched' \in [Viewers -> Touches]
      /\ Arrays' /\ Pages'
  BY <1>1, <1>3, <1>4, Moved DEF IInv
<1>6. TypeOK'
  <2>1. hand' \in Lifted
    BY <1>1 DEF NoRow, Lifted
  <2>2. at' \in (Nat \ {0}) \X (Nat \ {0})
    BY <1>1, <1>2, <1>3
  <2>3. QED
    BY <1>1, <1>5, <2>1, <2>2 DEF IInv, TypeOK, Phases
<1>7. Held' /\ Wired' /\ Zoning'
  BY <1>1, <1>4 DEF IInv, Held, Wired, Zoning, NoPage
<1>8. Blocking'
  BY <1>1, <1>2, <1>4 DEF Blocking, Marked
<1>9. at'[1] = i /\ at'[2] = j - 1
  BY <1>1
<1>10. Sorting'
  BY <1>1, <1>2, <1>3, <1>4, <1>9, NIsNat DEF Sorting, Inserted
<1>11. QED
  BY <1>5, <1>6, <1>7, <1>8, <1>10 DEF IInv

LEMMA UnzoneStep == ASSUME IInv, Unzone PROVE IInv'
<1>1. phase = "unzone" /\ UNCHANGED <<acc, copy>>
  BY DEF Unzone
<1>2. Counted(copy, pending) /\ Marked(pending)
  BY <1>1 DEF IInv, Blocking
<1>3. /\ cur > 0 /\ OneRowEach(Current) /\ Current \in [1..N -> Row]
      /\ at[1] \in Nat /\ at[1] > 0 /\ at[2] \in Nat /\ at[2] > 0
  BY <1>1, AtWork DEF OneRowEach
<1>4. ASSUME lists, at[1] <= N PROVE IInv'
  <2> DEFINE k == at[1]
             row == [Current[k] EXCEPT !.zoned = FALSE]
  <2>1. k \in 1..N /\ Current[k] \in Row
    BY <1>3, <1>4, NIsNat
  <2>2. row \in Row /\ row.svc = Current[k].svc /\ row.zoned = FALSE /\ row.blocked = Current[k].blocked
    BY <2>1, MarkRow
  <2>3. Write(k, row) /\ at' = <<k + 1, 1>> /\ phase' = "unzone"
    BY <1>1, <1>3, <1>4, NIsNat DEF Unzone, Current
  <2> HIDE DEF k, row
  <2>4. /\ heap' \in Seq([1..N -> Row]) /\ touched' \in [Viewers -> Touches]
        /\ cur' = cur /\ Current' = [Current EXCEPT ![k] = row]
        /\ Arrays' /\ Pages'
        /\ UNCHANGED <<hand, holder, wired, pending, lists, placed, page, shown>>
    BY <1>1, <1>3, <2>1, <2>2, <2>3, Wrote
  <2>5. TypeOK'
    BY <1>1, <2>1, <2>3, <2>4 DEF IInv, TypeOK
  <2>6. Held' /\ Wired'
    BY <1>1, <2>3, <2>4 DEF IInv, Held, Wired, NoPage
  <2>7. \A j \in 1..N : Current'[j] = IF j = k THEN row ELSE Current[j]
    BY <1>3, <2>4
  <2>8. Marked(pending)'
    BY <1>2, <2>1, <2>2, <2>4, <2>7 DEF Marked
  <2>9. Blocking'
    BY <1>1, <1>2, <2>3, <2>4, <2>8 DEF Blocking
  <2>10. Sorting'
    <3>1. pending # {} => Sorted(Current)
      BY <1>1 DEF IInv, Sorting
    <3>2. \A j \in 1..N : Current'[j].svc = Current[j].svc /\ Current'[j].blocked = Current[j].blocked
      BY <2>2, <2>7
    <3>3. pending' # {} => Sorted(Current')
      BY <2>4, <3>1, <3>2, SortedStays
    <3>4. QED
      BY <2>3, <3>3 DEF Sorting, Sorted
  <2>11. Zoning'
    <3> SUFFICES ASSUME NEW j \in 1..N, j < k + 1 PROVE ~Current'[j].zoned
      BY <2>3 DEF Zoning
    <3>1. j = k \/ j < k
      BY <2>1, NIsNat
    <3>2. QED
      BY <1>1, <1>4, <2>2, <2>7, <3>1 DEF IInv, Zoning, k
  <2>12. QED
    BY <2>4, <2>5, <2>6, <2>9, <2>10, <2>11 DEF IInv
<1>5. ASSUME Skip, (~lists /\ Then("return")) \/ (lists /\ at[1] > N /\ Then("zone")) PROVE IInv'
  <2>1. /\ heap' \in Seq([1..N -> Row]) /\ touched' \in [Viewers -> Touches]
        /\ cur' = cur /\ Current' = Current
        /\ Arrays' /\ Pages'
        /\ UNCHANGED <<hand, holder, wired, pending, lists, placed, page, shown>>
    BY <1>1, <1>5, Skipped DEF Then
  <2>2. at' = <<1, 1>> /\ (lists => phase' = "zone") /\ phase' \in {"zone", "return"}
    BY <1>5 DEF Then
  <2>3. TypeOK'
    BY <1>1, <2>1, <2>2 DEF IInv, TypeOK, Phases
  <2>4. Held' /\ Wired'
    BY <1>1, <1>3, <2>1, <2>2 DEF IInv, Held, Wired, NoPage
  <2>5. Blocking' /\ Sorting'
    BY <1>1, <1>2, <2>1, <2>2 DEF IInv, Blocking, Sorting, Marked, Sorted
  <2>6. phase' = "zone" => \A k \in 1..N : ~Current[k].zoned /\ ~(k < 1)
    BY <1>1, <1>3, <1>5, NIsNat DEF IInv, Zoning, Then
  <2>7. Zoning'
    BY <2>1, <2>2, <2>6 DEF Zoning
  <2>8. QED
    BY <2>1, <2>3, <2>4, <2>5, <2>7 DEF IInv
<1>6. \/ lists /\ at[1] <= N
      \/ Skip /\ ((~lists /\ Then("return")) \/ (lists /\ at[1] > N /\ Then("zone")))
  BY DEF Unzone
<1>7. QED
  BY <1>4, <1>5, <1>6

LEMMA ZoneStep == ASSUME IInv, Zone PROVE IInv'
<1>1. phase = "zone" /\ acc' = acc
  BY DEF Zone
<1>2. Counted(copy, pending) /\ Marked(pending)
      /\ \A k \in 1..N : Current[k].zoned <=> k < at[1] /\ Current[k].svc \in placed
  BY <1>1 DEF IInv, Blocking, Zoning
<1>3. /\ cur > 0 /\ OneRowEach(Current) /\ Current \in [1..N -> Row]
      /\ at[1] \in Nat /\ at[1] > 0 /\ at[2] \in Nat /\ at[2] > 0
  BY <1>1, AtWork DEF OneRowEach
<1>4. CASE at[1] > N
  <2>1. Skip /\ phase' = "return" /\ at' = <<1, 1>>
        /\ copy' = [copy EXCEPT !.zoned = Count(Current, IsZoned)]
    BY <1>1, <1>4 DEF Zone, Then, Current
  <2>2. /\ heap' \in Seq([1..N -> Row]) /\ touched' \in [Viewers -> Touches]
        /\ cur' = cur /\ Current' = Current
        /\ Arrays' /\ Pages'
        /\ UNCHANGED <<hand, holder, wired, pending, lists, placed, page, shown>>
    BY <1>1, <2>1, Skipped
  <2>3. Count(Current, IsZoned) \in Nat
    <3>1. IsFiniteSet(1..N)
      BY NIsNat, FS_Interval
    <3>2. IsFiniteSet({k \in DOMAIN Current : IsZoned(Current[k])})
      BY <1>3, <3>1, FS_Subset
    <3>3. QED
      BY <3>2, FS_CardinalityType DEF Count
  <2>4. /\ copy' \in Summaries /\ copy'.zoned = Count(Current, IsZoned)
        /\ copy'.blocked = copy.blocked /\ copy'.kinds = copy.kinds
    <3>1. copy \in Summaries
      BY DEF IInv, TypeOK
    <3>2. QED
      BY <2>1, <2>3, <3>1 DEF Summaries
  <2>5. TypeOK'
    BY <1>1, <2>1, <2>2, <2>4 DEF IInv, TypeOK, Phases
  <2>6. Held' /\ Wired'
    BY <1>1, <1>3, <2>1, <2>2 DEF IInv, Held, Wired, NoPage
  <2>7. Blocking' /\ Sorting'
    BY <1>1, <1>2, <2>1, <2>2, <2>4 DEF IInv, Blocking, Sorting, Marked, Counted, Sorted
  <2>8. \A k \in 1..N : k < at[1]
    BY <1>3, <1>4, NIsNat
  <2>9. Count(Current', IsZoned) = Count(Current, IsZoned)
    BY <2>2 DEF Count, IsZoned
  <2>10. Zoning'
    BY <1>2, <2>1, <2>2, <2>4, <2>8, <2>9 DEF Zoning, Count, IsZoned
  <2>11. QED
    BY <2>2, <2>5, <2>6, <2>7, <2>10 DEF IInv
<1>5. CASE ~(at[1] > N)
  <2> DEFINE k == at[1]
             row == IF Current[k].svc \in placed THEN [Current[k] EXCEPT !.zoned = TRUE] ELSE Current[k]
  <2>1. k \in 1..N /\ Current[k] \in Row
    BY <1>3, <1>5, NIsNat
  <2>2. /\ row \in Row /\ row.svc = Current[k].svc /\ row.blocked = Current[k].blocked
        /\ row.zoned <=> row.svc \in placed
    <3>1. ~Current[k].zoned
      BY <1>2, <1>3, <2>1
    <3>2. QED
      BY <2>1, <3>1, MarkRow
  <2>3. /\ IF Current[k].svc \in placed THEN Write(k, [Current[k] EXCEPT !.zoned = TRUE]) ELSE Skip
        /\ at' = <<k + 1, 1>> /\ UNCHANGED <<phase, copy>>
    BY <1>1, <1>5 DEF Zone, Current
  <2>4. /\ heap' \in Seq([1..N -> Row]) /\ touched' \in [Viewers -> Touches]
        /\ cur' = cur /\ \A j \in 1..N : Current'[j] = IF j = k THEN row ELSE Current[j]
        /\ Arrays' /\ Pages'
        /\ UNCHANGED <<hand, holder, wired, pending, lists, placed, page, shown>>
    <3>1. CASE Current[k].svc \in placed
      <4>1. Write(k, row)
        BY <2>3, <3>1
      <4> HIDE DEF row, k
      <4>2. Current' = [Current EXCEPT ![k] = row]
            /\ heap' \in Seq([1..N -> Row]) /\ touched' \in [Viewers -> Touches]
            /\ cur' = cur /\ Arrays' /\ Pages'
            /\ UNCHANGED <<hand, holder, wired, pending, lists, placed, page, shown>>
        BY <1>1, <1>3, <2>1, <2>2, <2>3, <4>1, Wrote
      <4>3. QED
        BY <1>3, <4>2
    <3>2. CASE Current[k].svc \notin placed
      <4>1. Skip /\ row = Current[k]
        BY <2>3, <3>2
      <4> HIDE DEF row, k
      <4>2. QED
        BY <1>1, <2>3, <4>1, Skipped
    <3>3. QED
      BY <3>1, <3>2
  <2> HIDE DEF k, row
  <2>5. TypeOK'
    BY <1>1, <2>1, <2>3, <2>4 DEF IInv, TypeOK
  <2>6. Held' /\ Wired'
    BY <1>1, <2>3, <2>4 DEF IInv, Held, Wired, NoPage
  <2>7. Marked(pending)'
    BY <1>2, <2>1, <2>2, <2>4 DEF Marked
  <2>8. Blocking'
    BY <1>1, <1>2, <2>3, <2>4, <2>7 DEF Blocking
  <2>9. \A j \in 1..N : Current'[j].zoned <=> j < k + 1 /\ Current'[j].svc \in placed
    <3> TAKE j \in 1..N
    <3>1. k \in Nat /\ j \in Nat
      BY <2>1, NIsNat
    <3>2. CASE j = k
      BY <2>2, <2>4, <3>1, <3>2
    <3>3. CASE j # k
      <4>1. j < k + 1 <=> j < k
        BY <3>1, <3>3
      <4>2. QED
        BY <1>2, <2>4, <3>3, <4>1 DEF k
    <3>4. QED
      BY <3>2, <3>3
  <2>10. Zoning'
    BY <1>1, <2>3, <2>4, <2>9 DEF Zoning
  <2>11. Sorting'
    <3>1. pending # {} => Sorted(Current)
      BY <1>1 DEF IInv, Sorting
    <3>2. \A j \in 1..N : Current'[j].svc = Current[j].svc /\ Current'[j].blocked = Current[j].blocked
      BY <2>2, <2>4
    <3>3. pending' # {} => Sorted(Current')
      BY <2>4, <3>1, <3>2, SortedStays
    <3>4. QED
      BY <1>1, <2>3, <3>3 DEF Sorting, Sorted
  <2>12. QED
    BY <2>4, <2>5, <2>6, <2>8, <2>10, <2>11 DEF IInv
<1>6. QED
  BY <1>4, <1>5

LEMMA ReturnStep == ASSUME IInv, Return PROVE IInv'
<1>1. /\ phase = "return"
      /\ page' = [page EXCEPT ![holder] = [array |-> cur, blocked |-> copy.blocked,
                                           zoned |-> copy.zoned]]
      /\ holder' = Nobody /\ phase' = "idle" /\ at' = <<1, 1>>
      /\ pending' = {} /\ lists' = FALSE /\ placed' = {} /\ copy' = NoSummary
      /\ UNCHANGED <<wired, heap, hand, acc, shown, touched>>
  BY DEF Return, Leave
<1>2. /\ cur \in Nat /\ cur > 0 /\ OneRowEach(Current)
      /\ Counted(copy, pending) /\ Marked(pending) /\ pending \in SUBSET Services
  BY <1>1, AtWork DEF IInv, TypeOK, Blocking
<1>3. holder \in Viewers /\ page[holder] = NoPage /\ Len(shown[holder]) = 0
      /\ shown[holder] = <<>>
  BY <1>1 DEF IInv, TypeOK, Held, Pages, PageKept
<1>4. copy.blocked \in Nat /\ copy.zoned \in Nat
  BY DEF IInv, TypeOK, Summaries
<1>5. copy.blocked = BlockedIn(Current)
  <2>1. {k \in 1..N : Current[k].blocked} = {k \in 1..N : Current[k].svc \in pending}
    BY <1>2 DEF Marked
  <2>2. Cardinality({k \in 1..N : Current[k].svc \in pending}) = Cardinality(pending)
    BY <1>2, RowsOf
  <2>3. copy.blocked = Cardinality(pending)
    BY <1>2 DEF Counted
  <2>4. QED
    BY <2>1, <2>2, <2>3 DEF BlockedIn
<1> DEFINE given == [array |-> cur, blocked |-> copy.blocked, zoned |-> copy.zoned]
<1>6. given \in Page /\ given # NoPage /\ given.array = cur /\ given.blocked = copy.blocked
  BY <1>2, <1>4 DEF Page, NoPage
<1>7. page' \in [Viewers -> Page] /\ \A v \in Viewers : page'[v] = IF v = holder THEN given ELSE page[v]
  <2>1. page' = [page EXCEPT ![holder] = given]
    BY <1>1
  <2> HIDE DEF given
  <2>2. QED
    BY <1>6, <2>1 DEF IInv, TypeOK
<1> HIDE DEF given
<1>8. cur' = cur /\ Current' = Current /\ Current = heap[cur]
  BY <1>1 DEF cur, Current
<1>9. TypeOK'
  <2>1. NoSummary \in Summaries /\ <<1, 1>> \in (Nat \ {0}) \X (Nat \ {0})
    BY DEF NoSummary, Summaries, PerKind
  <2>2. QED
    BY <1>1, <1>7, <2>1 DEF IInv, TypeOK, Phases
<1>10. Arrays'
  BY <1>1, <1>8 DEF IInv, Arrays
<1>11. Pages'
  <2> SUFFICES ASSUME NEW v \in Viewers PROVE PageKept(v)'
    BY DEF Pages
  <2>1. PageKept(v)
    BY DEF IInv, Pages
  <2>2. CASE v = holder
    <3>1. page'[v].array = cur /\ page'[v].blocked = BlockedIn(heap[cur])
      BY <1>5, <1>6, <1>7, <1>8, <2>2
    <3>2. shown'[v] = <<>> /\ Len(shown'[v]) = 0 /\ 0 <= N
      BY <1>1, <1>3, <2>2, NIsNat
    <3>3. cur \in 1..cur
      BY <1>2
    <3>4. QED
      BY <1>1, <1>8, <3>1, <3>2, <3>3 DEF PageKept
  <2>3. CASE v # holder
    BY <1>1, <1>7, <1>8, <2>1, <2>3 DEF PageKept
  <2>4. QED
    BY <2>2, <2>3
<1>12. Held' /\ Wired'
  BY <1>1, RowsAssumption DEF IInv, Held, Wired
<1>13. Blocking' /\ Sorting' /\ Zoning'
  <2>1. "pending" \notin wired' => Marked({})'
    BY <1>1, <1>2, <1>8 DEF IInv, Wired, Marked
  <2>2. QED
    BY <1>1, <2>1 DEF Blocking, Sorting, Zoning
<1>14. QED
  BY <1>9, <1>10, <1>11, <1>12, <1>13 DEF IInv

-----------------------------------------------------------------------------
(* The steps of the viewers.                                               *)

\* Building appends an array and touches none of those already there.
LEMMA Built ==
  ASSUME IInv, NEW rows, OneRowEach(rows), heap' = Append(heap, rows),
         UNCHANGED <<page, shown, touched>>, phase # "swap", phase' # "swap"
  PROVE  /\ heap' \in Seq([1..N -> Row]) /\ cur' = cur + 1 /\ Current' = rows
         /\ Arrays' /\ Pages'
<1>1. heap \in Seq([1..N -> Row]) /\ rows \in [1..N -> Row] /\ cur \in Nat
  BY DEF IInv, TypeOK, OneRowEach, cur
<1>2. /\ heap' \in Seq([1..N -> Row]) /\ cur' = cur + 1 /\ heap'[cur + 1] = rows
      /\ \A a \in 1..cur : heap'[a] = heap[a]
  BY <1>1 DEF cur
<1>3. Current' = rows
  BY <1>2 DEF Current
<1>4. Arrays'
  <2> SUFFICES ASSUME NEW a \in 1..cur + 1, a # cur + 1 PROVE OneRowEach(heap'[a])
    BY <1>2, <1>3 DEF Arrays
  <2>1. a \in 1..cur
    BY <1>1
  <2>2. heap'[a] = heap[a]
    BY <1>2, <2>1
  <2>3. CASE a = cur
    BY <1>1, <2>1, <2>2, <2>3 DEF IInv, Arrays, Current
  <2>4. CASE a # cur
    BY <2>1, <2>2, <2>4 DEF IInv, Arrays
  <2>5. QED
    BY <2>3, <2>4
<1>5. Pages'
  <2> SUFFICES ASSUME NEW v \in Viewers PROVE PageKept(v)'
    BY DEF Pages
  <2>1. PageKept(v)
    BY DEF IInv, Pages
  <2>2. \A a \in 1..cur : a \in 1..cur'
    BY <1>1, <1>2
  <2>3. page[v] # NoPage => page[v].array \in 1..cur'
                              /\ heap'[page[v].array] = heap[page[v].array]
    BY <1>2, <2>1, <2>2 DEF PageKept
  <2>4. UNCHANGED <<page, shown, touched>>
    OBVIOUS
  <2>5. QED
    BY <2>1, <2>3, <2>4 DEF PageKept
<1>6. QED
  BY <1>2, <1>3, <1>4, <1>5

LEMMA GetStep == ASSUME IInv, NEW v \in Viewers, Get(v) PROVE IInv'
<1>1. /\ holder = Nobody /\ page[v] = NoPage /\ holder' = v /\ at' = <<1, 1>>
      /\ phase' = IF "pending" \in wired THEN "unblock" ELSE AfterPending
      /\ UNCHANGED <<wired, hand, acc, copy, page, shown, touched>>
  BY DEF Get, readers
<1>2. /\ pending' \subseteq Services /\ ("pending" \notin wired => pending' = {})
      /\ placed' \subseteq Services /\ lists' \in BOOLEAN /\ (lists' => "running" \in wired)
  BY DEF Get
<1>3. phase = "idle" /\ copy = NoSummary /\ v # Nobody
  BY <1>1, RowsAssumption DEF IInv, Held, Wired
<1>4. /\ phase' \in {"unblock", "unzone", "return"}
      /\ phase' = "unblock" <=> "pending" \in wired
      /\ lists' => phase' # "return" \/ "pending" \in wired
  BY <1>1, <1>2 DEF AfterPending
<1>5. /\ heap' \in Seq([1..N -> Row]) /\ cur' \in Nat /\ cur' > 0 /\ Arrays' /\ Pages'
      /\ "pending" \notin wired => Marked({})'
  <2>1. CASE cur > 0 /\ UNCHANGED heap
    <3>1. cur \in Nat /\ Current' = Current /\ cur' = cur
      BY <1>3, <1>4, <2>1 DEF IInv, TypeOK, cur, Current
    <3>2. Arrays' /\ Pages' /\ heap' \in Seq([1..N -> Row])
      BY <1>1, <1>3, <1>4, <2>1, NotStored DEF IInv
    <3>3. "pending" \notin wired => Marked({})
      BY <1>3, <2>1 DEF IInv, Blocking
    <3>4. QED
      BY <2>1, <3>1, <3>2, <3>3 DEF Marked
  <2>2. ASSUME NEW rows \in BuiltRows, heap' = Append(heap, rows)
        PROVE  /\ heap' \in Seq([1..N -> Row]) /\ cur' \in Nat /\ cur' > 0 /\ Arrays' /\ Pages'
               /\ Marked({})'
    <3>1. OneRowEach(rows) /\ \A k \in 1..N : ~rows[k].blocked
      BY BuiltRowsAre
    <3>2. heap' \in Seq([1..N -> Row]) /\ cur' = cur + 1 /\ Current' = rows /\ Arrays' /\ Pages'
      BY <1>1, <1>3, <1>4, <2>2, <3>1, Built
    <3>3. cur \in Nat
      BY DEF IInv, TypeOK, cur
    <3>4. Marked({})'
      BY <3>1, <3>2 DEF Marked
    <3>5. QED
      BY <3>2, <3>3, <3>4
  <2>3. QED
    BY <2>1, <2>2 DEF Get
<1>6. TypeOK'
  BY <1>1, <1>2, <1>4, <1>5 DEF IInv, TypeOK, Phases
<1>7. Held'
  BY <1>1, <1>3, <1>4, <1>5 DEF Held, NoPage
<1>8. Wired'
  BY <1>1, <1>2, <1>3, <1>4 DEF Wired
<1>9. \A k \in 1..N : ~(k < 1)
  BY NIsNat
<1>10. Blocking'
  <2>1. CASE "pending" \in wired
    BY <1>1, <1>3, <1>4, <1>9, <2>1 DEF Blocking, NoSummary
  <2>2. CASE "pending" \notin wired
    <3>1. pending' = {} /\ Marked({})' /\ phase' \in {"unzone", "return"}
      BY <1>2, <1>4, <1>5, <2>2
    <3>2. Counted(copy', {})
      <4>1. Devices({}) = {}
        BY DEF Devices
      <4>2. QED
        BY <1>1, <1>3, <4>1, FS_EmptySet DEF Counted, NoSummary
    <3>3. QED
      BY <3>1, <3>2 DEF Blocking, Marked
  <2>3. QED
    BY <2>1, <2>2
<1>11. Zoning' /\ Sorting'
  <2>1. phase' = "return" => ~lists'
    BY <1>1, <1>2, <1>4 DEF AfterPending
  <2>2. QED
    BY <1>1, <1>2, <1>4, <1>9, <2>1 DEF Zoning, Sorting
<1>12. QED
  BY <1>5, <1>6, <1>7, <1>8, <1>10, <1>11 DEF IInv

LEMMA ReadRowStep == ASSUME IInv, NEW v \in Viewers, ReadRow(v) PROVE IInv'
<1> DEFINE n == Len(shown[v]) + 1
           row == heap[page[v].array][n]
<1>1. /\ page[v] # NoPage /\ Len(shown[v]) < N
      /\ shown' = [shown EXCEPT ![v] = Append(@, row)]
      /\ UNCHANGED <<heap, holder, phase, at, hand, wired, pending, lists, placed, acc, copy, page, touched>>
  BY DEF ReadRow, sources
<1>2. shown \in [Viewers -> Seq(Row)] /\ shown[v] \in Seq(Row) /\ PageKept(v)
  BY DEF IInv, TypeOK, Pages
<1>3. page[v].array \in 1..cur /\ heap[page[v].array] \in [1..N -> Row]
  BY <1>1, <1>2 DEF IInv, TypeOK, PageKept, cur
<1>4. n \in 1..N /\ row \in Row
  BY <1>1, <1>2, <1>3, NIsNat
<1>5. /\ shown'[v] = Append(shown[v], row) /\ shown' \in [Viewers -> Seq(Row)]
      /\ \A w \in Viewers : w # v => shown'[w] = shown[w]
  <2> HIDE DEF row
  <2>1. Append(shown[v], row) \in Seq(Row)
    BY <1>2, <1>4
  <2>2. QED
    BY <1>1, <1>2, <2>1
<1>6. /\ Len(shown'[v]) = n
      /\ \A k \in 1..n : shown'[v][k] = IF k = n THEN row ELSE shown[v][k]
  <2> HIDE DEF row
  <2>1. QED
    BY <1>2, <1>5
<1>7. cur' = cur /\ Current' = Current
  BY <1>1 DEF cur, Current
<1>8. TypeOK'
  BY <1>1, <1>5 DEF IInv, TypeOK
<1>9. Arrays'
  BY <1>1, <1>7 DEF IInv, Arrays
<1>10. PageKept(v)'
  <2>1. Len(shown'[v]) <= N
    BY <1>4, <1>6, NIsNat
  <2>2. ASSUME NEW k \in 1..n
        PROVE  /\ "moved" \notin touched[v] => shown'[v][k].svc = heap[page[v].array][k].svc
               /\ touched[v] = {} => shown'[v][k] = heap[page[v].array][k]
    <3>1. k = n \/ k \in 1..Len(shown[v])
      BY <1>2
    <3> HIDE DEF n
    <3>2. CASE k = n
      BY <1>6, <3>2
    <3>3. CASE k # n /\ k \in 1..Len(shown[v])
      BY <1>1, <1>2, <1>6, <3>3 DEF PageKept
    <3>4. QED
      BY <3>1, <3>2, <3>3
  <2> HIDE DEF n, row
  <2>3. QED
    BY <1>1, <1>2, <1>6, <1>7, <2>1, <2>2 DEF PageKept
<1>11. Pages'
  <2> SUFFICES ASSUME NEW w \in Viewers, w # v PROVE PageKept(w)'
    BY <1>10 DEF Pages
  <2>1. PageKept(w)
    BY DEF IInv, Pages
  <2>2. QED
    BY <1>1, <1>5, <1>7, <2>1 DEF PageKept
<1>12. Held' /\ Wired' /\ Blocking' /\ Sorting' /\ Zoning'
  BY <1>1, <1>7 DEF IInv, Held, Wired, Blocking, Sorting, Zoning, Marked, Inserted, Sorted, NoPage, NoSummary, Count, IsZoned
<1>13. QED
  BY <1>8, <1>9, <1>11, <1>12 DEF IInv

LEMMA RespondStep == ASSUME IInv, NEW v \in Viewers, Respond(v) PROVE IInv'
<1>1. /\ page[v] # NoPage
      /\ page' = [page EXCEPT ![v] = NoPage] /\ shown' = [shown EXCEPT ![v] = <<>>]
      /\ touched' = [touched EXCEPT ![v] = {}]
      /\ UNCHANGED <<heap, holder, phase, at, hand, wired, pending, lists, placed, acc, copy>>
  BY DEF Respond, sources
<1>2. NoPage \in Page /\ <<>> \in Seq(Row) /\ {} \in Touches
  BY DEF NoPage, Page, Touches
<1>3. /\ page' \in [Viewers -> Page] /\ shown' \in [Viewers -> Seq(Row)]
      /\ touched' \in [Viewers -> Touches]
      /\ page'[v] = NoPage /\ shown'[v] = <<>>
      /\ \A w \in Viewers : w # v => page'[w] = page[w] /\ shown'[w] = shown[w]
                                    /\ touched'[w] = touched[w]
  <2> HIDE DEF NoPage
  <2>1. QED
    BY <1>1, <1>2 DEF IInv, TypeOK
<1>4. cur' = cur /\ Current' = Current
  BY <1>1 DEF cur, Current
<1>5. TypeOK'
  BY <1>1, <1>3 DEF IInv, TypeOK
<1>6. Arrays'
  BY <1>1, <1>4 DEF IInv, Arrays
<1>7. Pages'
  <2> SUFFICES ASSUME NEW w \in Viewers PROVE PageKept(w)'
    BY DEF Pages
  <2>1. PageKept(w)
    BY DEF IInv, Pages
  <2>2. CASE w = v
    BY <1>3, <2>2, NIsNat DEF PageKept
  <2>3. CASE w # v
    BY <1>1, <1>3, <1>4, <2>1, <2>3 DEF PageKept
  <2>4. QED
    BY <2>2, <2>3
<1>8. Held'
  <2>1. phase # "idle" => holder \in Viewers
    BY DEF IInv, TypeOK, Held
  <2>2. QED
    BY <1>1, <1>3, <1>4, <2>1 DEF IInv, Held
<1>9. Wired' /\ Blocking' /\ Sorting' /\ Zoning'
  BY <1>1, <1>4 DEF IInv, Wired, Blocking, Sorting, Zoning, Marked, Inserted, Sorted, NoSummary, Count, IsZoned
<1>10. QED
  BY <1>5, <1>6, <1>7, <1>8, <1>9 DEF IInv

-----------------------------------------------------------------------------
(* The invariant holds, and what follows from it.                          *)

LEMMA InitHolds == ASSUME Init PROVE IInv
<1>1. cur = 0 /\ heap \in Seq([1..N -> Row])
  BY DEF Init, cur
<1>2. TypeOK
  <2>1. wired \subseteq {"pending", "running"}
    BY RowsAssumption DEF Init
  <2>2. NoSummary \in Summaries /\ NoPage \in Page /\ <<1, 1>> \in (Nat \ {0}) \X (Nat \ {0})
    BY DEF NoSummary, Summaries, PerKind, NoPage, Page
  <2>3. page \in [Viewers -> Page] /\ touched \in [Viewers -> Touches] /\ hand \in Lifted
    BY <2>2 DEF Init, Touches, Lifted, NoRow
  <2>4. shown \in [Viewers -> Seq(Row)]
    <3>1. <<>> \in Seq(Row)
      OBVIOUS
    <3>2. QED
      BY <3>1 DEF Init
  <2>5. at \in (Nat \ {0}) \X (Nat \ {0}) /\ copy \in Summaries
    BY <2>2 DEF Init
  <2>6. /\ holder \in Viewers \cup {Nobody} /\ phase \in Phases /\ lists \in BOOLEAN
        /\ pending \subseteq Services /\ acc \subseteq Services /\ placed \subseteq Services
    BY DEF Init, Phases
  <2>7. QED
    BY <1>1, <2>1, <2>3, <2>4, <2>5, <2>6 DEF TypeOK
<1>3. Arrays /\ Pages
  BY <1>1, NIsNat DEF Init, Arrays, Pages, PageKept
<1>4. Held /\ Wired /\ Blocking /\ Sorting /\ Zoning
  BY <1>1 DEF Init, Held, Wired, Blocking, Sorting, Zoning
<1>5. QED
  BY <1>2, <1>3, <1>4 DEF IInv

LEMMA StutterStep == ASSUME IInv, UNCHANGED vars PROVE IInv'
<1>1. /\ UNCHANGED <<wired, heap, holder, phase, at, hand, pending, lists, placed, acc, copy>>
      /\ UNCHANGED <<page, shown, touched>>
  BY DEF vars, sources, readers
<1>2. cur' = cur /\ Current' = Current
  BY <1>1 DEF cur, Current
<1>3. TypeOK'
  BY <1>1 DEF IInv, TypeOK
<1>4. Arrays' /\ Pages'
  BY <1>1, <1>2 DEF IInv, Arrays, Pages, PageKept, NoPage
<1>5. Held' /\ Wired' /\ Blocking' /\ Sorting' /\ Zoning'
  BY <1>1, <1>2 DEF IInv, Held, Wired, Blocking, Sorting, Zoning, Marked, Inserted, Sorted, NoSummary, NoPage, Count, IsZoned
<1>6. QED
  BY <1>3, <1>4, <1>5 DEF IInv

\* Every state decorate and its viewers can reach has, in each array, a row
\* for each service, and in the array in work the marks its loops are up to.
THEOREM Invariance == Spec => []IInv
<1>1. Init => IInv
  BY InitHolds
<1>2. IInv /\ [Next]_vars => IInv'
  <2> SUFFICES ASSUME IInv, [Next]_vars PROVE IInv'
    OBVIOUS
  <2>1. ASSUME NEW v \in Viewers, Get(v) PROVE IInv'
    BY <2>1, GetStep
  <2>2. ASSUME NEW v \in Viewers, ReadRow(v) PROVE IInv'
    BY <2>2, ReadRowStep
  <2>3. ASSUME NEW v \in Viewers, Respond(v) PROVE IInv'
    BY <2>3, RespondStep
  <2>4. ASSUME Unblock \/ Block \/ Sort \/ SortLift \/ SortPut \/ Unzone \/ Zone \/ Return
        PROVE  IInv'
    BY <2>4, UnblockStep, BlockStep, SortStep, SortLiftStep, SortPutStep, UnzoneStep, ZoneStep, ReturnStep
  <2>5. CASE UNCHANGED vars
    BY <2>5, StutterStep
  <2>6. QED
    BY <2>1, <2>2, <2>3, <2>4, <2>5 DEF Next
<1>3. QED
  BY <1>1, <1>2, PTL DEF Spec

\* A page with a blocked row, made over rows that earlier decorations may have
\* put into any order, by a sort that is two stores a swap, has every service
\* and has those that need attention first.
THEOREM RowsAreInOrder == Spec => []RowsInOrder
<1>1. IInv => RowsInOrder
  <2> DEFINE rows == heap[cur]
  <2> SUFFICES ASSUME IInv, phase = "return", pending # {}
               PROVE  /\ Complete(rows) /\ AttentionFirst(rows)
                      /\ \A i, j \in 1..N : i < j /\ ~rows[i].blocked /\ ~rows[j].blocked =>
                           \/ Severity[rows[i].svc] < Severity[rows[j].svc]
                           \/ Severity[rows[i].svc] = Severity[rows[j].svc] /\ rows[i].svc < rows[j].svc
    BY DEF RowsInOrder
  <2>1. OneRowEach(rows) /\ Sorted(rows)
    BY AtWork DEF IInv, Sorting, Current
  <2> HIDE DEF rows
  <2>2. rows \in [1..N -> Row] /\ DOMAIN rows = 1..N
    BY <2>1 DEF OneRowEach
  <2>3. Complete(rows)
    BY <2>1, <2>2 DEF Complete, OneRowEach, Row
  <2>4. ASSUME NEW i \in 1..N, NEW j \in 1..N, i < j
        PROVE  /\ Attention(rows[j]) => Attention(rows[i])
               /\ ~rows[i].blocked /\ ~rows[j].blocked =>
                    \/ Severity[rows[i].svc] < Severity[rows[j].svc]
                    \/ Severity[rows[i].svc] = Severity[rows[j].svc] /\ rows[i].svc < rows[j].svc
    <3>1. Less(rows[i], rows[j])
      BY <2>1, <2>4 DEF Sorted
    <3>2. /\ Severity[rows[i].svc] \in Nat /\ Severity[rows[j].svc] \in Nat /\ Warning \in Nat
          /\ rows[i].svc \in Nat /\ rows[j].svc \in Nat
          /\ rows[i].blocked \in BOOLEAN /\ rows[j].blocked \in BOOLEAN
      BY <2>2, RowsAssumption DEF Row
    <3>3. Rank(rows[i]) <= Rank(rows[j])
      BY <3>1, <3>2 DEF Less, Rank
    <3>4. Attention(rows[j]) => Attention(rows[i])
      BY <3>2, <3>3 DEF Attention, Rank
    <3>5. QED
      BY <3>1, <3>2, <3>4 DEF Less, Rank
  <2>5. QED
    BY <2>2, <2>3, <2>4 DEF AttentionFirst
<1>2. QED
  BY <1>1, Invariance, PTL

\* When decorate returns, the counts on the page are those of the rows: the
\* blocked ones are the services the scheduler refuses now, each under one
\* kind of shortage, and the zoned ones are those with a placed pod.
THEOREM MarksAreCurrent == Spec => []MarksCurrent
<1>1. IInv => MarksCurrent
  <2> SUFFICES ASSUME IInv, phase = "return" PROVE MarksCurrent
    BY DEF MarksCurrent
  <2>1. OneRowEach(Current) /\ Current \in [1..N -> Row] /\ pending \in SUBSET Services
    BY AtWork DEF IInv, TypeOK, OneRowEach
  <2>2. Counted(copy, pending) /\ Marked(pending)
    BY DEF IInv, Blocking
  <2>3. DOMAIN Current = 1..N
    BY <2>1
  <2>4. copy.blocked = Count(Current, IsBlocked)
    <3>1. {k \in DOMAIN Current : IsBlocked(Current[k])} = {k \in 1..N : Current[k].svc \in pending}
      BY <2>2, <2>3 DEF IsBlocked, Marked
    <3>2. Cardinality({k \in 1..N : Current[k].svc \in pending}) = Cardinality(pending)
      BY <2>1, RowsOf
    <3>3. copy.blocked = Cardinality(pending)
      BY <2>2 DEF Counted
    <3>4. QED
      BY <3>1, <3>2, <3>3 DEF Count
  <2>5. copy.kinds.accelerator = Count(Current, WaitsForDevice)
    <3>1. Devices(pending) \in SUBSET Services
      BY <2>1 DEF Devices
    <3>2. {k \in DOMAIN Current : WaitsForDevice(Current[k])}
            = {k \in 1..N : Current[k].svc \in Devices(pending)}
      BY <2>2, <2>3 DEF WaitsForDevice, Marked, Devices
    <3>3. Cardinality({k \in 1..N : Current[k].svc \in Devices(pending)})
            = Cardinality(Devices(pending))
      BY <2>1, <3>1, RowsOf
    <3>4. copy.kinds.accelerator = Cardinality(Devices(pending))
      BY <2>2 DEF Counted
    <3>5. QED
      BY <3>2, <3>3, <3>4 DEF Count
  <2>6. copy.blocked = copy.kinds.accelerator + copy.kinds.cpu + copy.kinds.placement
    BY <2>2 DEF Counted
  <2>7. lists => /\ \A k \in 1..N : Current[k].zoned <=> Current[k].svc \in placed
                 /\ copy.zoned = Count(Current, IsZoned)
    BY DEF IInv, Zoning
  <2>8. QED
    BY <2>4, <2>5, <2>6, <2>7 DEF MarksCurrent, Current
<1>2. QED
  BY <1>1, Invariance, PTL

\* Without the mutex, a viewer under whom no sort moved a row still shows
\* every service once, and one whose page nobody wrote to as many blocked rows
\* as its own summary counts.
THEOREM QuietPagesAreSound == Spec => []QuietPageSound
<1>1. IInv => QuietPageSound
  <2> SUFFICES ASSUME IInv, NEW v \in Viewers, page[v] # NoPage, Len(shown[v]) = N
               PROVE  /\ "moved" \notin touched[v] => Complete(shown[v])
                      /\ touched[v] = {} => Count(shown[v], IsBlocked) = page[v].blocked
    BY DEF QuietPageSound
  <2> DEFINE rows == heap[page[v].array]
  <2>1. /\ page[v].array \in 1..cur
        /\ "moved" \notin touched[v] =>
             /\ phase = "swap" => page[v].array # cur
             /\ \A k \in 1..N : shown[v][k].svc = rows[k].svc
        /\ touched[v] = {} =>
             page[v].blocked = BlockedIn(rows) /\ \A k \in 1..N : shown[v][k] = rows[k]
    BY DEF IInv, Pages, PageKept
  <2>2. shown[v] \in Seq(Row) /\ DOMAIN shown[v] = 1..N
    BY DEF IInv, TypeOK
  <2>3. "moved" \notin touched[v] => OneRowEach(rows)
    <3>1. cur \in Nat
      BY DEF IInv, TypeOK, cur
    <3>2. QED
      BY <2>1, <3>1 DEF IInv, Arrays, Current
  <2> HIDE DEF rows
  <2>4. ASSUME "moved" \notin touched[v] PROVE Complete(shown[v])
    <3>1. OneRowEach(rows) /\ \A k \in 1..N : shown[v][k].svc = rows[k].svc
      BY <2>1, <2>3, <2>4
    <3>2. \A k \in 1..N : rows[k].svc \in Services
      BY <3>1 DEF OneRowEach, Row
    <3>3. \A s \in Services : \E k \in 1..N : shown[v][k].svc = s
      BY <3>1 DEF OneRowEach
    <3>4. QED
      BY <2>2, <3>1, <3>2, <3>3 DEF Complete
  <2>5. ASSUME touched[v] = {} PROVE Count(shown[v], IsBlocked) = page[v].blocked
    <3>1. {k \in DOMAIN shown[v] : IsBlocked(shown[v][k])} = {k \in 1..N : rows[k].blocked}
      BY <2>1, <2>2, <2>5 DEF IsBlocked
    <3>2. QED
      BY <2>1, <2>5, <3>1 DEF Count, BlockedIn
  <2>6. QED
    BY <2>4, <2>5
<1>2. QED
  BY <1>1, Invariance, PTL
=============================================================================

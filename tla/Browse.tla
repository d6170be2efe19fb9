-------------------------------- MODULE Browse --------------------------------
(***************************************************************************)
(* internal/web/filter.go, render.go and handlers.go: what a viewer sees   *)
(* and where the links lead.  The server keeps nothing: the URL is the     *)
(* state, and every link on the page is a URL made from the present one.   *)
(*                                                                         *)
(* A query has one entry per filter: status and sync are sets of words,    *)
(* the others the first value of their parameter, a word and whether it is *)
(* padded with spaces.  Case never matters, so words have none; later      *)
(* values of a parameter that takes one are never read.  A URL is typed    *)
(* if somebody typed it or it was reached from one without clearing.  A    *)
(* row is what the filters ask of it.  A snapshot has the services, the    *)
(* workloads outside GitOps if that section is on, and those of them in an *)
(* ignored namespace, which FillZones tallies and BuildUnmanaged drops.    *)
(***************************************************************************)
EXTENDS Integers, Sequences, FiniteSets, Functions

CONSTANTS
  Snapshots,       \* what Get returns: [services, items, ignored, outside, mesh]
  Typed,           \* what somebody types by hand: [q, refresh]
  Picks,           \* the entries of the refresh picker that are used
  DefaultRefresh   \* REFRESH_SECONDS

RefreshChoices == {10, 30, 60, 0}
ASSUME RefreshAssumption == DefaultRefresh \in Nat /\ Picks \subseteq RefreshChoices

Unset     == ""                                  \* a text that is not there
States    == {"DEGRADED", "WARNING", "PROGRESSING", "DRIFT", "PRUNE", "SUSPENDED", "OK"}
Shortages == {"accelerator", "cpu", "placement"}
Item      == [zones : Nat, nodes : Nat, pods : Nat, injected : Nat, policy : STRING]
Service   ==
  [state : States, sync : STRING, gpu : BOOLEAN, alloc : STRING, arch : STRING,
   blocked : Shortages \cup {Unset},
   zones : Nat, nodes : Nat, pods : Nat, injected : Nat, policy : STRING]
Snapshot  ==
  {s \in [services : Seq(Service), items : Seq(Item), ignored : Seq(Item),
          outside : BOOLEAN, mesh : BOOLEAN] :
     ~s.outside => s.items = <<>> /\ s.ignored = <<>>}
ASSUME SnapshotAssumption == Snapshots \subseteq Snapshot

RowLists  == {"status", "sync"}
ViewChips == {"view", "gpu", "arch", "blocked", "spread", "mesh"}
Kinds     == RowLists \cup ViewChips             \* allFilters
NotSet    == -1                                  \* a refresh that is absent or no number

VARIABLES
  url,     \* what the browser asked for last: [q, refresh, typed]
  snap,    \* the snapshot the collector holds
  page,    \* the page on screen: [url, rows, items, of, refresh]
  stage    \* "sent": a request is out; "shown": its page is there

vars == <<url, snap, page, stage>>

Plain(w) == [word |-> w, padded |-> FALSE]
Absent   == Plain(Unset)
Empty(k) == IF k \in RowLists THEN {} ELSE Unset
Clean    == [k \in Kinds |-> IF k \in RowLists THEN {} ELSE Absent]
Root     == [q |-> Clean, refresh |-> NotSet, typed |-> FALSE]

NoData == [services |-> <<>>, items |-> <<>>, ignored |-> <<>>, outside |-> FALSE, mesh |-> FALSE]
Blank  == [url |-> Root, rows |-> <<>>, items |-> <<>>, of |-> NoData, refresh |-> 0]

Init ==
  /\ url = Root /\ stage = "sent"
  /\ snap \in Snapshots /\ page = Blank

-----------------------------------------------------------------------------
(* filter.go.                                                              *)

\* A view excludes the row filters.
ParseFilter(q) ==
  [k \in Kinds |->
     IF k # "view" /\ q["view"].word # Unset THEN Empty(k)
     ELSE IF k \in RowLists THEN q[k] \ {Unset} ELSE q[k].word]

Mut_Active(f) == \E k \in Kinds \ {"view", "gpu"} : f[k] # Empty(k)
Active(f)    == \E k \in Kinds \ {"view"} : f[k] # Empty(k)
AnyFilter(f) == Active(f) \/ f["view"] # Unset
Has(f, k, v) == IF k \in RowLists THEN v \in f[k] ELSE f[k] = v

Bools == {"true", "false"}                       \* what ParseBool takes
SyncOf(svc) == IF svc.sync = Unset THEN "unknown" ELSE svc.sync

\* The two filters that narrow services and workloads alike.
OneSpread(f, row) ==
  CASE f["spread"] = Unset -> TRUE
    [] f["spread"] = "zone" -> row.zones = 1
    [] f["spread"] = "node" -> row.nodes = 1
    [] OTHER -> FALSE
MeshIs(f, row) ==
  CASE f["mesh"] = Unset -> TRUE
    [] f["mesh"] = "not-injected" -> row.pods > 0 /\ row.injected < row.pods
    [] f["mesh"] = "permissive" -> row.policy = "permissive"
    [] OTHER -> FALSE

Mut_BlockedIs(f, svc) ==                         \* a word that is no kind means any
  \/ f["blocked"] = Unset
  \/ f["blocked"] \in Bools /\ (svc.blocked # Unset) = (f["blocked"] = "true")
  \/ f["blocked"] \notin Bools /\ svc.blocked # Unset
BlockedIs(f, svc) ==
  \/ f["blocked"] = Unset
  \/ f["blocked"] \in Bools /\ (svc.blocked # Unset) = (f["blocked"] = "true")
  \/ f["blocked"] \notin Bools /\ svc.blocked = f["blocked"]

Matches(f, svc) ==
  /\ f["status"] # {} => svc.state \in f["status"]
  /\ f["sync"] # {} => SyncOf(svc) \in f["sync"]
  /\ f["arch"] # Unset => svc.arch = f["arch"]
  /\ BlockedIs(f, svc)
  /\ f["gpu"] # Unset => f["gpu"] \in Bools /\ svc.gpu = (f["gpu"] = "true")
  /\ OneSpread(f, svc) /\ MeshIs(f, svc)

\* The rows at some places, each behind those that Upto(its place) holds.
InOrder(rows, at, Upto(_)) ==
  [k \in 1..Cardinality(at) |-> rows[CHOOSE i \in at : Cardinality(Upto(i)) = k]]

Where(rows, Test(_))  == {i \in DOMAIN rows : Test(rows[i])}
Narrow(rows, Test(_)) ==
  LET at == Where(rows, Test) IN InOrder(rows, at, LAMBDA i : {j \in at : j <= i})

\* Without a filter Apply returns the slice it was given and not a copy.
Apply(f, services) ==
  IF ~Active(f) THEN services ELSE Narrow(services, LAMBDA svc : Matches(f, svc))

\* The accelerator view shows what uses a device first; ties keep their order.
Rank(svc) == IF ~svc.gpu THEN 4
             ELSE CASE svc.alloc = "running" -> 0 [] svc.alloc = "waiting" -> 1
                    [] svc.alloc = "scaled-to-zero" -> 2 [] OTHER -> 3
SortRunningFirst(services) ==
  LET R(i) == Rank(services[i])
      all  == DOMAIN services
  IN  InOrder(services, all, LAMBDA i : {j \in all : R(j) < R(i) \/ (R(j) = R(i) /\ j <= i)})

ApplyWorkloads(f, items) == Narrow(items, LAMBDA w : OneSpread(f, w) /\ MeshIs(f, w))

ShowServices(f)  == f["view"] # "unmanaged"
Mut_ShowUnmanaged(f) ==                          \* from before the gauges counted workloads
  f["view"] = "unmanaged" \/ ~AnyFilter(f)
\* The spread and mesh filters apply to workloads outside GitOps just as well.
ShowUnmanaged(f) ==
  \/ f["view"] = "unmanaged"
  \/ f["spread"] # Unset \/ f["mesh"] # Unset
  \/ ~AnyFilter(f)

\* The two tables of a page.
Ordered(f, services) ==
  LET rows == Apply(f, services) IN IF f["gpu"] # Unset THEN SortRunningFirst(rows) ELSE rows
RowsOf(f, s)  == IF ShowServices(f) THEN Ordered(f, s.services) ELSE <<>>
ItemsOf(f, s) == IF ShowUnmanaged(f) /\ s.outside THEN ApplyWorkloads(f, s.items) ELSE <<>>

\* A viewer picks the interval, within reason; 0 is off.
RefreshSeconds(n) ==
  CASE n = NotSet -> DefaultRefresh
    [] n = 0 -> 0
    [] n \in 1..4 -> 5
    [] n > 3600 -> 3600
    [] OTHER -> n

-----------------------------------------------------------------------------
(* render.go: the links.                                                   *)

\* query: the filters in canonical form, and the rest as it was spelled.
Query(q) ==
  LET f == ParseFilter(q) IN
    [k \in Kinds |-> IF k \in RowLists THEN f[k] ELSE IF k = "gpu" THEN Plain(f[k]) ELSE q[k]]

Toggled(S, v) == IF v \in S THEN S \ {v} ELSE S \cup {v}

Mut_FilterHref(q, k, v) ==                       \* a chip clears the view and itself only
  LET c == Query(q) IN
    IF k \in ViewChips
      THEN [c EXCEPT !["view"] = Absent, ![k] = IF c[k] = Plain(v) THEN Absent ELSE Plain(v)]
      ELSE [c EXCEPT !["view"] = Absent, ![k] = Toggled(c[k], v)]
\* A chip of the views row replaces the others, a tile adds to the tiles and
\* drops the view; either takes itself off when it is on.
FilterHref(q, k, v) ==
  LET c == Query(q)
      on == c[k] = Plain(v)
      Chip(j) == CASE j = k -> IF on THEN Absent ELSE Plain(v)
                   [] j # k /\ ~on /\ j \in ViewChips -> Absent
                   [] j # k /\ ~on /\ j \in RowLists /\ k = "view" -> {}
                   [] OTHER -> c[j]
  IN  IF k \in ViewChips THEN [j \in Kinds |-> Chip(j)]
      ELSE [c EXCEPT !["view"] = Absent, ![k] = Toggled(c[k], v)]

RemoveHref(q, k, v) ==
  IF k \in ViewChips THEN [Query(q) EXCEPT ![k] = Absent] ELSE [Query(q) EXCEPT ![k] = @ \ {v}]

ClearHref(q) == Clean

\* The filters that appear as a chip with a link to remove just that one.
Chips(f) ==
  (UNION {{<<k, v>> : v \in f[k]} : k \in RowLists})
    \cup {<<k, f[k]>> : k \in {c \in {"gpu", "arch", "blocked"} : f[c] # Unset}}

-----------------------------------------------------------------------------
(* The page: what it links to, and the number it shows beside the link.    *)

CountIf(rows, Test(_)) == Cardinality(Where(rows, Test))

\* The tiles and chips count the whole cluster, whatever is filtered.
Count(s, k, v) ==
  CASE k = "status"  -> CountIf(s.services, LAMBDA r : r.state = v)
    [] k = "gpu"     -> CountIf(s.services, LAMBDA r : r.gpu)
    [] k = "arch"    -> CountIf(s.services, LAMBDA r : r.arch = v)
    [] k = "blocked" -> CountIf(s.services, LAMBDA r : r.blocked = v)
    [] OTHER         -> Len(s.items)

\* What makes a row count at a gauge.
AtRisk(v, r)    == IF v = "zone" THEN r.zones = 1 ELSE r.nodes = 1
OutOfMesh(v, r) == IF v = "permissive" THEN r.policy = "permissive" ELSE r.pods > 0 /\ r.injected < r.pods

\* The gauges: FillZones folds every workload outside GitOps into the spread
\* totals, without a look at UNMANAGED_IGNORE_NS, and none into those of the mesh.
Gauge(s, k, v) ==
  IF k = "spread" THEN CountIf(s.services \o s.items \o s.ignored, LAMBDA r : AtRisk(v, r))
  ELSE CountIf(s.services, LAMBDA r : OutOfMesh(v, r))

Number(s, k, v) == IF k \in {"spread", "mesh"} THEN Gauge(s, k, v) ELSE Count(s, k, v)

\* A tile or chip that counts nothing is left out, but for ok, gpu and view.
Offered(s) ==
  IF s = NoData THEN {}
  ELSE {<<"status", "OK">>, <<"gpu", "true">>}
    \cup {<<"view", "unmanaged">> : u \in {TRUE} \cap {s.outside}}
    \cup {o \in ({"status"} \X States)
             \cup {<<"arch", s.services[i].arch>> : i \in {j \in DOMAIN s.services : s.services[j].arch # Unset}}
             \cup ({"blocked"} \X Shortages) \cup {<<"spread", "zone">>, <<"spread", "node">>}
             \cup {<<"mesh", w>> : w \in {v \in {"not-injected", "permissive"} : s.mesh}} :
           Number(s, o[1], o[2]) > 0}

\* The digest of rows to look at first; each item links to its row.
AttentionItems(s) ==
  {s.services[i] : i \in Where(s.services, LAMBDA svc : svc.state \in {"DEGRADED", "WARNING"} \/ svc.blocked # Unset)}

\* Where the page leads: its tiles and chips, the crosses of its filter chips,
\* and "clear all", "clear it" and the attention items.
Links(p) ==
  LET q == p.url.q IN
    {FilterHref(q, o[1], o[2]) : o \in Offered(p.of)}
      \cup {RemoveHref(q, o[1], o[2]) : o \in Chips(ParseFilter(q))}
      \cup {ClearHref(q)}

-----------------------------------------------------------------------------

\* A click, on a page that may show an older snapshot than the next one will.
Follow(q) ==
  /\ stage = "shown" /\ q \in Links(page)
  /\ url' = [q |-> q, refresh |-> page.url.refresh, typed |-> page.url.typed /\ q # Clean]
  /\ stage' = "sent" /\ UNCHANGED <<snap, page>>

PickRefresh(n) ==
  /\ stage = "shown"
  /\ url' = [page.url EXCEPT !.q = Query(@), !.refresh = n]
  /\ stage' = "sent" /\ UNCHANGED <<snap, page>>

Type(t) ==
  /\ stage = "shown"
  /\ url' = [q |-> t.q, refresh |-> t.refresh, typed |-> TRUE]
  /\ stage' = "sent" /\ UNCHANGED <<snap, page>>

\* The page asks for itself again.
Reload ==
  /\ stage = "shown" /\ page.refresh # 0
  /\ stage' = "sent" /\ UNCHANGED <<url, snap, page>>

\* Another snapshot becomes the one that Get returns.
NewSnapshot ==
  /\ snap' \in Snapshots \ {snap}
  /\ UNCHANGED <<url, page, stage>>

\* handlePage: when no row filter is on the rows are the cached ones, and
\* sorting them would sort them for everybody.
HandlePage ==
  /\ stage = "sent" /\ stage' = "shown"
  /\ LET f == ParseFilter(url.q) IN
       /\ page' = [url |-> url, rows |-> RowsOf(f, snap), items |-> ItemsOf(f, snap),
                   of |-> snap, refresh |-> RefreshSeconds(url.refresh)]
       /\ snap' = IF Active(f) THEN snap ELSE [snap EXCEPT !.services = Ordered(f, @)]
  /\ UNCHANGED url

Next ==
  \/ \E q \in Links(page) : Follow(q)
  \/ \E n \in Picks : PickRefresh(n)
  \/ \E t \in Typed : Type(t)
  \/ Reload \/ NewSnapshot \/ HandlePage

Spec == Init /\ [][Next]_vars

-----------------------------------------------------------------------------
(* Properties.                                                             *)

Pure(q) ==
  /\ q["view"] # Absent => \A k \in Kinds \ {"view"} : q[k] = Clean[k]
  /\ \A j, k \in ViewChips : q[j] # Absent /\ q[k] # Absent => j = k

\* "The links never produce both" a section view and the row filters, and "a
\* click always means show me this": no sequence of clicks, however long and
\* whatever the snapshots between them, puts two chips of the views row, or the
\* view and a tile, into one URL.  Only typing can.
LinksNeverMix ==
  /\ ~url.typed => Pure(url.q)
  /\ ~page.url.typed => Pure(page.url.q)

Shown(f, s) == Len(RowsOf(f, s)) + Len(ItemsOf(f, s))

Only(f, k, v) ==
  /\ Has(f, k, v) /\ (k \in RowLists => f[k] = {v})
  /\ \A j \in Kinds \ {k} : f[j] = Empty(j)

\* What a gauge tallied and no table lists.
Unlisted(s, k, v) == IF k = "spread" THEN CountIf(s.ignored, LAMBDA r : AtRisk(v, r)) ELSE 0

\* The page that a filter alone on it shows of what a number counted.
ShowsCounted(f, s, k, v) ==
  IF k = "mesh"
    THEN /\ Len(RowsOf(f, s)) = Number(s, k, v)
         /\ Len(ItemsOf(f, s)) = CountIf(s.items, LAMBDA r : OutOfMesh(v, r))
    ELSE Shown(f, s) + Unlisted(s, k, v) = Number(s, k, v)

\* Every link does what the page says of it: one marked as on takes its filter
\* off, any other puts it on; and where nothing else narrows the page, it leads
\* to what the number beside it counts.  A tile or a chip leads to as many rows
\* as its number; a spread gauge to as many in both tables together, short of
\* exactly the workloads at risk in ignored namespaces; a mesh gauge counts
\* services, leads to as many of them, and lists the workloads outside GitOps
\* that the same can be said of below.  Clearing shows every row, so that the
\* row an attention item points at is there.
LinksDoAsSaid ==
  /\ ~page.url.typed =>
       \A o \in Offered(page.of) :
         LET k == o[1]  v == o[2]
             f == ParseFilter(FilterHref(page.url.q, k, v)) IN
           /\ Has(f, k, v) # Has(ParseFilter(page.url.q), k, v)
           /\ Only(f, k, v) => ShowsCounted(f, page.of, k, v)
  /\ LET f == ParseFilter(ClearHref(page.url.q)) IN
       /\ Shown(f, page.of) = Len(page.of.services) + Len(page.of.items)
       /\ AttentionItems(page.of) \subseteq Range(RowsOf(f, page.of))

Words ==
  [spread |-> {Unset, "zone", "node"}, gpu |-> Bools \cup {Unset},
   mesh |-> {Unset, "not-injected", "permissive"}, blocked |-> Bools \cup Shortages \cup {Unset}]

\* "An unrecognised value matches nothing rather than being dropped, so a typo
\* shows an empty table instead of silently showing everything": no service,
\* and no workload either unless another filter, spelled right, asks for them.
\* The one typo that is dropped is that of the view itself.
TypoShowsNothing ==
  LET f       == ParseFilter(page.url.q)
      Typo(k) == f[k] \notin Words[k]
      nostate == f["status"] # {} /\ f["status"] \cap States = {}
      nothing == nostate \/ \E k \in DOMAIN Words : Typo(k)
      asked   == f["spread"] # Unset \/ f["mesh"] # Unset
  IN  /\ nothing => page.rows = <<>>
      /\ (nothing /\ ~asked) \/ Typo("spread") \/ Typo("mesh") => page.items = <<>>

\* Sorting or narrowing one viewer's page never moves the cached rows that the
\* other viewers of the snapshot read: rendering a page leaves the cache alone.
CacheUntouched == [][snap' # snap => UNCHANGED page /\ snap' \in Snapshots]_vars
=============================================================================

---------------------------- MODULE BrowseProofs ----------------------------
(***************************************************************************)
(* For every snapshot, every URL that may be typed and every sequence of   *)
(* clicks: the links keep what excludes each other apart and lead where    *)
(* they say, a word the filters do not know shows nothing, and rendering   *)
(* leaves the cached rows alone.                                           *)
(*                                                                         *)
(* Each operator that makes a link, applied to a pure query with nothing   *)
(* padded, makes another; an untyped URL only ever comes from such a link, *)
(* on a page that was itself reached untyped.  What a link shows is what   *)
(* is left of the filters when one is set, and the rows they then let pass *)
(* are the rows that were counted.                                         *)
(***************************************************************************)
EXTENDS Browse, FiniteSetTheorems, FunctionTheorems, TLAPS

Shape(u) == u = [q |-> u.q, refresh |-> u.refresh, typed |-> u.typed]

\* Every chip is spelled as the links spell it: nothing is padded.
Canonical(q) == \A k \in ViewChips : q[k] = Plain(q[k].word)

\* A URL nobody typed is one the links can make.
Linked(u) == ~u.typed => Pure(u.q) /\ Canonical(u.q)

\* What is asked for and what is shown, and where the rows come from.
Kept ==
  /\ Shape(url) /\ Shape(page.url)
  /\ url.typed \in BOOLEAN /\ page.url.typed \in BOOLEAN
  /\ Linked(url) /\ Linked(page.url)
  /\ snap \in Snapshots /\ page.of \in Snapshot
  /\ TypoShowsNothing

LEMMA CleanIsPure == Pure(Clean)
BY DEF Pure, Clean, Kinds, RowLists, ViewChips, Absent, Plain

LEMMA AbsentIsEmpty ==
  /\ Absent.word = Unset
  /\ \A w : Plain(w) # Absent => w # Unset
BY DEF Absent, Plain

(* The canonical form of a pure query is pure. *)
LEMMA QueryIsPure ==
  ASSUME NEW q, Pure(q)
  PROVE  Pure(Query(q)) /\ DOMAIN Query(q) = Kinds
<1> DEFINE c == Query(q)
<1>1. \A k \in Kinds : k \notin RowLists \cup {"gpu"} => c[k] = q[k]
  BY DEF Query
<1>2. c["gpu"] # Absent => q["gpu"] # Absent
  <2>1. "gpu" \in Kinds /\ "gpu" \notin RowLists
    BY DEF Kinds, RowLists, ViewChips
  <2>2. c["gpu"] = Plain(ParseFilter(q)["gpu"])
    BY <2>1 DEF Query
  <2>3. ParseFilter(q)["gpu"] \in {Unset, q["gpu"].word}
    BY <2>1 DEF ParseFilter, Empty
  <2>4. QED
    BY <2>2, <2>3, AbsentIsEmpty
<1>3. \A k \in RowLists : q[k] = {} => c[k] = {}
  BY DEF Query, ParseFilter, Kinds, Empty
<1>4. \A k \in ViewChips : c[k] # Absent => q[k] # Absent
  BY <1>1, <1>2 DEF Kinds, ViewChips, RowLists
<1>5. c["view"] # Absent => \A k \in Kinds \ {"view"} : c[k] = Clean[k]
  <2> SUFFICES ASSUME c["view"] # Absent, NEW k \in Kinds \ {"view"}
               PROVE  c[k] = Clean[k]
    OBVIOUS
  <2>1. q["view"] # Absent /\ q[k] = Clean[k]
    BY <1>4 DEF Pure, ViewChips
  <2>2. CASE k \in RowLists
    BY <2>1, <2>2, <1>3 DEF Clean
  <2>3. CASE k \notin RowLists
    BY <2>1, <2>3, <1>4 DEF Clean, Kinds
  <2>4. QED
    BY <2>2, <2>3
<1>6. DOMAIN c = Kinds
  BY DEF Query
<1> HIDE DEF c
<1>7. Pure(c)
  BY <1>4, <1>5 DEF Pure
<1>8. QED
  BY <1>6, <1>7 DEF c

(* A chip or a tile leads from a pure query to a pure one. *)
LEMMA FilterHrefIsPure ==
  ASSUME NEW q, Pure(q), NEW k \in Kinds, NEW v
  PROVE  Pure(FilterHref(q, k, v))
<1> DEFINE c == Query(q)
           h == FilterHref(q, k, v)
<1>1. Pure(c) /\ DOMAIN c = Kinds
  BY QueryIsPure
<1>2. CASE k \notin ViewChips
  <2>1. h = [c EXCEPT !["view"] = Absent, ![k] = Toggled(c[k], v)]
    BY <1>2 DEF FilterHref
  <2>2. "view" \in ViewChips /\ ViewChips \subseteq Kinds
    BY DEF ViewChips, Kinds
  <2> DEFINE t == Toggled(c[k], v)
  <2>0. h = [[c EXCEPT !["view"] = Absent] EXCEPT ![k] = t]
    BY <2>1
  <2> HIDE DEF c, h, t
  <2>3. h["view"] = Absent /\ \A j \in ViewChips \ {"view"} : h[j] = c[j]
    BY <1>1, <1>2, <2>0, <2>2
  <2>4. QED
    BY <1>1, <2>2, <2>3 DEF Pure, h
<1>3. CASE k \in ViewChips /\ c[k] = Plain(v)
  <2>1. \A j \in Kinds : h[j] = IF j = k THEN Absent ELSE c[j]
    BY <1>3 DEF FilterHref
  <2>2. k \in Kinds /\ "view" \in Kinds /\ "view" \in ViewChips /\ ViewChips \subseteq Kinds
    BY DEF ViewChips, Kinds
  <2>3. \A j \in ViewChips \ {"view"} : Clean[j] = Absent
    BY DEF Clean, ViewChips, Kinds, RowLists
  <2> HIDE DEF c, h
  <2>4. \A j \in ViewChips : h[j] # Absent => c[j] # Absent
    BY <2>1, <2>2
  <2>5. h["view"] # Absent => \A j \in Kinds \ {"view"} : h[j] = Clean[j]
    BY <1>1, <1>3, <2>1, <2>2, <2>3 DEF Pure
  <2>6. QED
    BY <1>1, <2>4, <2>5 DEF Pure, h
<1>4. CASE k \in ViewChips /\ c[k] # Plain(v)
  <2>1. ASSUME NEW j \in ViewChips, j # k PROVE h[j] = Absent
    BY <1>4, <2>1 DEF FilterHref, Kinds, RowLists, ViewChips
  <2>2. \A j \in ViewChips : j # k => h[j] = Absent
    BY <2>1
  <2>3. k = "view" => \A j \in RowLists : h[j] = {}
    BY <1>4 DEF FilterHref, Kinds, RowLists, ViewChips
  <2> HIDE DEF h
  <2>4. k = "view" => \A j \in Kinds \ {"view"} : h[j] = Clean[j]
    BY <2>2, <2>3 DEF Clean, Kinds
  <2>5. k # "view" => h["view"] = Absent
    BY <2>2 DEF ViewChips
  <2>6. QED
    BY <2>2, <2>4, <2>5 DEF Pure, h
<1>5. QED
  BY <1>2, <1>3, <1>4

(* Taking one filter off a pure query leaves a pure one. *)
LEMMA RemoveHrefIsPure ==
  ASSUME NEW q, Pure(q), NEW k \in Kinds, NEW v
  PROVE  Pure(RemoveHref(q, k, v))
<1> DEFINE c == Query(q)
           h == RemoveHref(q, k, v)
<1>1. Pure(c) /\ DOMAIN c = Kinds
  BY QueryIsPure
<1>2. "view" \in ViewChips /\ ViewChips \subseteq Kinds /\ Kinds = RowLists \cup ViewChips
  BY DEF ViewChips, Kinds
<1>3. h = IF k \in ViewChips THEN [c EXCEPT ![k] = Absent] ELSE [c EXCEPT ![k] = @ \ {v}]
  BY DEF RemoveHref
<1>4. \A j \in RowLists : Clean[j] = {}
  BY DEF Clean, Kinds
<1>5. \A j \in ViewChips : Clean[j] = Absent
  BY DEF Clean, ViewChips, Kinds, RowLists
<1> HIDE DEF c, h
<1>6. \A j \in ViewChips : h[j] # Absent => c[j] # Absent
  BY <1>1, <1>2, <1>3
<1>7. h["view"] # Absent => \A j \in Kinds \ {"view"} : h[j] = Clean[j]
  <2> SUFFICES ASSUME h["view"] # Absent, NEW j \in Kinds \ {"view"} PROVE h[j] = Clean[j]
    OBVIOUS
  <2>1. c[j] = Clean[j]
    BY <1>1, <1>2, <1>6 DEF Pure
  <2>2. CASE j # k
    BY <1>1, <1>3, <2>1, <2>2
  <2>3. CASE j = k
    BY <1>1, <1>2, <1>3, <1>4, <1>5, <2>1, <2>3
  <2>4. QED
    BY <2>2, <2>3
<1>8. QED
  BY <1>1, <1>6, <1>7 DEF Pure, h

LEMMA PlainIs == \A w : Plain(w).word = w /\ (\A u : Plain(u) = Plain(w) => u = w)
BY DEF Plain

LEMMA ChipKinds ==
  /\ ViewChips \subseteq Kinds /\ RowLists \subseteq Kinds /\ Kinds = RowLists \cup ViewChips
  /\ ViewChips \cap RowLists = {} /\ "view" \in ViewChips /\ "gpu" \in ViewChips
BY DEF Kinds, RowLists, ViewChips

LEMMA QueryIsCanonical == ASSUME NEW q, Canonical(q) PROVE Canonical(Query(q))
<1> SUFFICES ASSUME NEW k \in ViewChips PROVE Query(q)[k] = Plain(Query(q)[k].word)
  BY DEF Canonical
<1>1. Query(q)[k] \in {Plain(ParseFilter(q)[k]), q[k]}
  BY ChipKinds DEF Query
<1>2. q[k] = Plain(q[k].word)
  BY DEF Canonical
<1>3. QED
  BY <1>1, <1>2, PlainIs

(* What the canonical form says of a chip is what the filter says of it. *)
LEMMA QuerySays ==
  ASSUME NEW q, Canonical(q), NEW k \in ViewChips, k = "view" \/ q["view"].word = Unset
  PROVE  Query(q)[k] = Plain(ParseFilter(q)[k])
<1>1. ParseFilter(q)[k] = q[k].word
  BY ChipKinds, Zenon DEF ParseFilter
<1>2. q[k] = Plain(q[k].word)
  BY DEF Canonical
<1>3. CASE k = "gpu"
  BY <1>3, ChipKinds DEF Query
<1>4. CASE k # "gpu"
  <2>1. Query(q)[k] = q[k]
    BY <1>4, ChipKinds DEF Query
  <2>2. QED
    BY <2>1, <1>1, <1>2
<1>5. QED
  BY <1>3, <1>4

LEMMA FilterHrefIsCanonical ==
  ASSUME NEW q, Canonical(q), NEW k \in Kinds, NEW v
  PROVE  Canonical(FilterHref(q, k, v))
<1> DEFINE c == Query(q)
           h == FilterHref(q, k, v)
<1>1. Canonical(c) /\ DOMAIN c = Kinds
  BY QueryIsCanonical DEF Query
<1>2. \A j \in ViewChips : h[j] \in {Absent, Plain(v), c[j]}
  <2>1. CASE k \in ViewChips
    <3>1. \A j \in Kinds : h[j] = CASE j = k -> IF c[k] = Plain(v) THEN Absent ELSE Plain(v)
                   [] j # k /\ c[k] # Plain(v) /\ j \in ViewChips -> Absent
                   [] j # k /\ c[k] # Plain(v) /\ j \in RowLists /\ k = "view" -> {}
                   [] OTHER -> c[j]
      BY <2>1 DEF FilterHref
    <3> HIDE DEF c, h
    <3>2. QED
      BY <3>1, ChipKinds
  <2>2. CASE k \notin ViewChips
    <3> DEFINE t == Toggled(c[k], v)
    <3>1. h = [c EXCEPT !["view"] = Absent, ![k] = t]
      BY <2>2 DEF FilterHref
    <3>2. h = [[c EXCEPT !["view"] = Absent] EXCEPT ![k] = t]
      BY <3>1
    <3> HIDE DEF c, h, t
    <3>3. QED
      BY <1>1, <2>2, <3>2, ChipKinds
  <2>3. QED
    BY <2>1, <2>2
<1> HIDE DEF c, h
<1>3. \A j \in ViewChips : h[j] = Plain(h[j].word)
  BY <1>1, <1>2, PlainIs DEF Canonical, Absent
<1>4. QED
  BY <1>3 DEF Canonical, h

LEMMA RemoveHrefIsCanonical ==
  ASSUME NEW q, Canonical(q), NEW k \in Kinds, NEW v
  PROVE  Canonical(RemoveHref(q, k, v))
<1> DEFINE c == Query(q)
           h == RemoveHref(q, k, v)
<1>1. Canonical(c) /\ DOMAIN c = Kinds
  BY QueryIsCanonical DEF Query
<1>2. h = IF k \in ViewChips THEN [c EXCEPT ![k] = Absent] ELSE [c EXCEPT ![k] = @ \ {v}]
  BY DEF RemoveHref
<1> HIDE DEF c, h
<1>3. \A j \in ViewChips : h[j] \in {Absent, c[j]}
  BY <1>1, <1>2, ChipKinds
<1>4. \A j \in ViewChips : h[j] = Plain(h[j].word)
  BY <1>1, <1>3, PlainIs DEF Canonical, Absent
<1>5. QED
  BY <1>4 DEF Canonical, h

LEMMA CleanIsCanonical == Canonical(Clean)
BY ChipKinds, PlainIs DEF Canonical, Clean, Absent

(* A link that is on takes its filter off, any other puts it on. *)
LEMMA HrefSwitches ==
  ASSUME NEW q, Pure(q), Canonical(q), NEW k \in Kinds, NEW v, v # Unset
  PROVE  Has(ParseFilter(FilterHref(q, k, v)), k, v) # Has(ParseFilter(q), k, v)
<1> DEFINE c == Query(q)
           f == ParseFilter(q)
           h == FilterHref(q, k, v)
           g == ParseFilter(h)
<1>1. CASE k \in RowLists
  <2>1. k \notin ViewChips /\ k # "view" /\ "view" \in Kinds
    BY <1>1, ChipKinds
  <2>2. c[k] = f[k] /\ Unset \notin f[k]
    BY <1>1, <2>1, Zenon DEF Query, ParseFilter, Empty
  <2> DEFINE t == Toggled(c[k], v)
  <2>3. h = [[c EXCEPT !["view"] = Absent] EXCEPT ![k] = t]
    BY <2>1 DEF FilterHref
  <2>4. DOMAIN c = Kinds
    BY DEF Query
  <2> HIDE DEF c, h, t
  <2>5. h[k] = t /\ h["view"] = Absent
    BY <2>1, <2>3, <2>4
  <2>6. Absent.word = Unset
    BY AbsentIsEmpty
  <2>7. g[k] = t \ {Unset}
    BY <1>1, <2>1, <2>5, <2>6 DEF ParseFilter
  <2> HIDE DEF f, g
  <2>8. v \in t <=> v \notin c[k]
    BY DEF Toggled, t
  <2>9. v \in g[k] <=> v \notin f[k]
    BY <2>2, <2>7, <2>8
  <2>10. QED
    BY <1>1, <2>9 DEF Has, f, g, h
<1>2. CASE k \in ViewChips
  <2>1. k \notin RowLists
    BY <1>2, ChipKinds
  <2>2. \A j \in Kinds : h[j] = CASE j = k -> IF c[k] = Plain(v) THEN Absent ELSE Plain(v)
                   [] j # k /\ c[k] # Plain(v) /\ j \in ViewChips -> Absent
                   [] j # k /\ c[k] # Plain(v) /\ j \in RowLists /\ k = "view" -> {}
                   [] OTHER -> c[j]
    BY <1>2 DEF FilterHref
  <2>3. Plain(v) # Absent /\ Absent.word = Unset
    BY PlainIs, AbsentIsEmpty DEF Absent
  <2>4. f[k] \in {Unset, q[k].word} /\ (k = "view" \/ q["view"].word = Unset => f[k] = q[k].word)
    BY <2>1, ChipKinds, Zenon DEF ParseFilter, Empty
  <2>5. g[k] \in {Unset, h[k].word} /\ (k = "view" \/ h["view"].word = Unset => g[k] = h[k].word)
    BY <2>1, ChipKinds, Zenon DEF ParseFilter, Empty
  <2>6. Pure(c) /\ Pure(h)
    BY QueryIsPure, FilterHrefIsPure
  <2>7. k = "view" \/ q["view"].word = Unset => c[k] = Plain(f[k])
    BY <1>2, QuerySays
  <2>8. q["view"] = Plain(q["view"].word)
    BY ChipKinds DEF Canonical
  <2>9. k # "view" /\ q["view"].word # Unset => c[k] = Absent /\ f[k] = Unset
    <3> SUFFICES ASSUME k # "view", q["view"].word # Unset PROVE c[k] = Absent /\ f[k] = Unset
      OBVIOUS
    <3>1. f[k] = Unset
      BY <2>1, ChipKinds, Zenon DEF ParseFilter, Empty
    <3>2. q["view"] # Absent
      BY <2>3
    <3>3. q[k] = Clean[k] /\ Clean[k] = Absent
      BY <2>1, <3>2, ChipKinds DEF Pure, Clean
    <3>4. c[k] \in {Plain(f[k]), q[k]}
      BY <2>1, ChipKinds DEF Query
    <3>5. QED
      BY <3>1, <3>3, <3>4 DEF Absent
  <2>10. c[k] = Plain(v) <=> f[k] = v
    BY <2>3, <2>7, <2>9, PlainIs
  <2> HIDE DEF c, f, g, h
  <2>11. g[k] = v <=> f[k] # v
    <3>1. CASE c[k] = Plain(v)
      <4>1. h[k] = Absent
        BY <3>1, <2>2
      <4>2. QED
        BY <3>1, <4>1, <2>3, <2>5, <2>10
    <3>2. CASE c[k] # Plain(v)
      <4>1. h[k] = Plain(v)
        BY <3>2, <2>2
      <4>2. k # "view" => h["view"] = Absent
        BY <3>2, <2>2, ChipKinds
      <4>3. g[k] = v
        BY <4>1, <4>2, <2>3, <2>5, PlainIs
      <4>4. QED
        BY <3>2, <4>3, <2>10
    <3>3. QED
      BY <3>1, <3>2
  <2>12. QED
    BY <2>1, <2>11 DEF Has, f, g, h
<1>3. QED
  BY <1>1, <1>2, ChipKinds

(* What a table is narrowed to has one row for each that passes. *)
LEMMA Narrowed ==
  ASSUME NEW rows, NEW n \in Nat, DOMAIN rows = 1..n
  PROVE  /\ \A at \in SUBSET DOMAIN rows : IsFiniteSet(at) /\ Cardinality(at) \in Nat
         /\ \A f : Active(f) =>
              Len(Apply(f, rows)) = Cardinality({i \in DOMAIN rows : Matches(f, rows[i])})
         /\ \A f : Len(ApplyWorkloads(f, rows))
                     = Cardinality({i \in DOMAIN rows : OneSpread(f, rows[i]) /\ MeshIs(f, rows[i])})
<1>1. \A at \in SUBSET DOMAIN rows : IsFiniteSet(at) /\ Cardinality(at) \in Nat
  <2>1. IsFiniteSet(1..n)
    BY FS_Interval
  <2>2. QED
    BY <2>1, FS_Subset, FS_CardinalityType
<1>2. ASSUME NEW f, Active(f)
      PROVE  Len(Apply(f, rows)) = Cardinality({i \in DOMAIN rows : Matches(f, rows[i])})
  <2> DEFINE at == {i \in DOMAIN rows : Matches(f, rows[i])}
  <2>1. Apply(f, rows) = [k \in 1..Cardinality(at) |->
                            rows[CHOOSE i \in at : Cardinality({j \in at : j <= i}) = k]]
    BY <1>2, Zenon DEF Apply, Narrow, Where, InOrder
  <2>2. Cardinality(at) \in Nat
    BY <1>1
  <2> HIDE DEF at
  <2>3. QED
    BY <2>1, <2>2 DEF at
<1>3. ASSUME NEW f
      PROVE  Len(ApplyWorkloads(f, rows))
               = Cardinality({i \in DOMAIN rows : OneSpread(f, rows[i]) /\ MeshIs(f, rows[i])})
  <2> DEFINE at == {i \in DOMAIN rows : OneSpread(f, rows[i]) /\ MeshIs(f, rows[i])}
  <2>1. ApplyWorkloads(f, rows) = [k \in 1..Cardinality(at) |->
                            rows[CHOOSE i \in at : Cardinality({j \in at : j <= i}) = k]]
    BY Zenon DEF ApplyWorkloads, Narrow, Where, InOrder
  <2>2. Cardinality(at) \in Nat
    BY <1>1
  <2> HIDE DEF at
  <2>3. QED
    BY <2>1, <2>2 DEF at
<1>4. QED
  BY <1>1, <1>2, <1>3

(* Putting rows in order neither adds nor drops one. *)
LEMMA OrderedLength ==
  ASSUME NEW rows, NEW n \in Nat, DOMAIN rows = 1..n, NEW f, Active(f)
  PROVE  Len(Ordered(f, rows)) = Len(Apply(f, rows))
<1> DEFINE at == {i \in DOMAIN rows : Matches(f, rows[i])}
           kept == Apply(f, rows)
<1>1. kept = [k \in 1..Cardinality(at) |->
                rows[CHOOSE i \in at : Cardinality({j \in at : j <= i}) = k]]
  BY Zenon DEF Apply, Narrow, Where, InOrder
<1>2. Cardinality(at) \in Nat
  BY Narrowed
<1> HIDE DEF at
<1>3. DOMAIN kept = 1..Cardinality(at) /\ Len(kept) = Cardinality(at)
  BY <1>1, <1>2
<1> HIDE DEF kept
<1>4. Cardinality(DOMAIN kept) = Len(kept)
  BY <1>2, <1>3, FS_Interval
<1>5. Len(SortRunningFirst(kept)) = Len(kept)
  <2> DEFINE R(i) == Rank(kept[i])
             Upto(i) == {j \in DOMAIN kept : R(j) < R(i) \/ (R(j) = R(i) /\ j <= i)}
  <2>1. SortRunningFirst(kept) = [k \in 1..Cardinality(DOMAIN kept) |->
                                    kept[CHOOSE i \in DOMAIN kept : Cardinality(Upto(i)) = k]]
    BY Zenon DEF SortRunningFirst, InOrder
  <2> HIDE DEF Upto
  <2>2. QED
    BY <1>2, <1>3, <1>4, <2>1
<1>6. QED
  BY <1>5 DEF Ordered, kept

Hits(rows, P) == {i \in DOMAIN rows : rows[i] \in P}

(* The rows of two tables, one behind the other. *)
LEMMA CountBoth ==
  ASSUME NEW R, NEW T, NEW a \in Seq(R), NEW b \in Seq(T), NEW P
  PROVE  /\ Cardinality(Hits(a \o b, P)) = Cardinality(Hits(a, P)) + Cardinality(Hits(b, P))
         /\ \A i \in DOMAIN (a \o b) : (a \o b)[i] \in R \cup T
<1> DEFINE n == Len(a)
           m == Len(b)
           A == {i \in DOMAIN a : a[i] \in P}
           B == {i \in DOMAIN b : b[i] \in P}
           C == {i \in DOMAIN (a \o b) : (a \o b)[i] \in P}
           S == {n + i : i \in B}
<1>1. n \in Nat /\ m \in Nat /\ DOMAIN a = 1..n /\ DOMAIN b = 1..m
  OBVIOUS
<1>2. DOMAIN (a \o b) = 1..(n + m)
  OBVIOUS
<1>3. \A i \in 1..n : (a \o b)[i] = a[i]
  OBVIOUS
<1>4. \A i \in 1..m : (a \o b)[n + i] = b[i]
  OBVIOUS
<1>0. \A i \in 1..(n + m) : (a \o b)[i] \in R \cup T
  <2>1. /\ \A i \in 1..n : a[i] \in R
        /\ \A i \in 1..m : b[i] \in T
    OBVIOUS
  <2> HIDE DEF n, m
  <2> SUFFICES ASSUME NEW i \in 1..(n + m) PROVE (a \o b)[i] \in R \cup T
    OBVIOUS
  <2>2. CASE i <= n
    BY <1>1, <1>3, <2>1, <2>2
  <2>3. CASE i > n
    <3>1. i - n \in 1..m /\ i = n + (i - n)
      BY <1>1, <2>3
    <3>2. QED
      BY <1>4, <2>1, <3>1
  <2>4. QED
    BY <1>1, <2>2, <2>3
<1>5. IsFiniteSet(A) /\ IsFiniteSet(B)
  <2>1. IsFiniteSet(1..n) /\ IsFiniteSet(1..m)
    BY <1>1, FS_Interval
  <2>2. A \subseteq 1..n /\ B \subseteq 1..m
    BY <1>1
  <2>3. QED
    BY <2>1, <2>2, FS_Subset
<1> HIDE DEF n, m
<1>6. C = A \cup S
  <2>1. C \subseteq A \cup S
    <3> SUFFICES ASSUME NEW i \in C PROVE i \in A \cup S
      OBVIOUS
    <3>1. i \in 1..(n + m)
      BY <1>2
    <3>2. CASE i \in 1..n
      BY <1>1, <1>3, <3>2
    <3>3. CASE i \notin 1..n
      <4>1. i - n \in 1..m /\ i = n + (i - n)
        BY <1>1, <3>1, <3>3
      <4>2. b[i - n] \in P
        BY <1>4, <4>1
      <4>3. QED
        BY <1>1, <4>1, <4>2
    <3>4. QED
      BY <3>2, <3>3
  <2>2. A \subseteq C
    BY <1>1, <1>2, <1>3
  <2>3. S \subseteq C
    BY <1>1, <1>2, <1>4
  <2>4. QED
    BY <2>1, <2>2, <2>3
<1>7. IsFiniteSet(S) /\ Cardinality(S) = Cardinality(B)
  <2> DEFINE g == [i \in B |-> n + i]
  <2>1. g \in Bijection(B, S)
    <3>1. g \in [B -> S] /\ \A t \in S : \E i \in B : g[i] = t
      OBVIOUS
    <3>2. \A i, j \in B : g[i] = g[j] => i = j
      BY <1>1
    <3> HIDE DEF g
    <3>3. QED
      BY <3>1, <3>2 DEF Bijection, Injection, Surjection, IsInjective
  <2>2. ExistsBijection(B, S)
    BY <2>1 DEF ExistsBijection
  <2>3. QED
    BY <1>5, <2>2, FS_Bijection
<1>8. A \cap S = {}
  BY <1>1
<1> HIDE DEF A, B, S
<1>9. Cardinality(A \cup S) = Cardinality(A) + Cardinality(S) - Cardinality({})
  BY <1>5, <1>7, <1>8, FS_Union
<1>10. Cardinality(A) \in Nat /\ Cardinality(S) \in Nat /\ Cardinality({}) = 0
  BY <1>5, <1>7, FS_EmptySet, FS_CardinalityType
<1>11. Cardinality(A \cup S) = Cardinality(A) + Cardinality(B)
  BY <1>7, <1>9, <1>10
<1>12. Cardinality(C) = Cardinality(A) + Cardinality(B)
  BY <1>6, <1>11
<1>13. QED
  BY <1>0, <1>2, <1>12 DEF n, m, A, B, Hits

(* What is left of the filters when only one is set. *)
LEMMA OnlyOne ==
  ASSUME NEW f, NEW k \in Kinds, NEW v, v # Unset, Only(f, k, v)
  PROVE  /\ \A j \in RowLists : f[j] = IF j = k THEN {v} ELSE {}
         /\ \A j \in ViewChips : f[j] = IF j = k THEN v ELSE Unset
<1>1. \A j \in Kinds \ {k} : f[j] = Empty(j)
  BY DEF Only
<1>2. k \in RowLists => f[k] = {v}
  BY DEF Only
<1>3. k \notin RowLists => f[k] = v
  BY DEF Only, Has
<1>4. QED
  BY <1>1, <1>2, <1>3, ChipKinds DEF Empty

(* Which rows pass when only one filter is set, and which tables are shown. *)
LEMMA OnlyRows ==
  ASSUME NEW f, NEW k \in Kinds, NEW v, v # Unset, Only(f, k, v), NEW svc \in Service
  PROVE  /\ k = "status" => (Matches(f, svc) <=> svc.state = v)
         /\ k = "gpu" /\ v = "true" => (Matches(f, svc) <=> svc.gpu)
         /\ k = "arch" => (Matches(f, svc) <=> svc.arch = v)
         /\ k = "blocked" /\ v \in Shortages => (Matches(f, svc) <=> svc.blocked = v)
         /\ k = "spread" /\ v = "zone" => (Matches(f, svc) <=> svc.zones = 1)
         /\ k = "spread" /\ v = "node" => (Matches(f, svc) <=> svc.nodes = 1)
         /\ k = "mesh" /\ v = "permissive" => (Matches(f, svc) <=> svc.policy = "permissive")
         /\ k = "mesh" /\ v = "not-injected" => (Matches(f, svc) <=> svc.pods > 0 /\ svc.injected < svc.pods)
<1>1. /\ f["status"] = IF k = "status" THEN {v} ELSE {}
      /\ f["sync"] = IF k = "sync" THEN {v} ELSE {}
      /\ f["arch"] = IF k = "arch" THEN v ELSE Unset
      /\ f["gpu"] = IF k = "gpu" THEN v ELSE Unset
      /\ f["blocked"] = IF k = "blocked" THEN v ELSE Unset
      /\ f["spread"] = IF k = "spread" THEN v ELSE Unset
      /\ f["mesh"] = IF k = "mesh" THEN v ELSE Unset
  BY OnlyOne DEF RowLists, ViewChips
<1>2. Unset \notin {"zone", "node", "not-injected", "permissive"}
  BY Zenon DEF Unset
<1>3. f["spread"] = Unset => OneSpread(f, svc)
  BY <1>2 DEF OneSpread
<1>4. f["mesh"] = Unset => MeshIs(f, svc)
  BY <1>2 DEF MeshIs
<1>5. f["blocked"] = Unset => BlockedIs(f, svc)
  BY DEF BlockedIs
<1>6. CASE k = "status"
  BY <1>1, <1>3, <1>4, <1>5, <1>6 DEF Matches
<1>7. CASE k = "gpu" /\ v = "true"
  <2>1. svc.gpu \in BOOLEAN
    BY DEF Service
  <2>2. Matches(f, svc) <=> svc.gpu = TRUE
    BY <1>1, <1>3, <1>4, <1>5, <1>7 DEF Matches, Bools
  <2>3. QED
    BY <1>7, <2>1, <2>2
<1>8. CASE k = "arch"
  BY <1>1, <1>3, <1>4, <1>5, <1>8 DEF Matches
<1>9. CASE k = "blocked" /\ v \in Shortages
  <2>1. v \notin Bools
    BY <1>9 DEF Bools, Shortages
  <2>2. BlockedIs(f, svc) <=> svc.blocked = v
    BY <1>1, <1>9, <2>1 DEF BlockedIs
  <2>3. QED
    BY <1>1, <1>3, <1>4, <1>9, <2>2 DEF Matches
<1>10. CASE k = "spread" /\ v \in {"zone", "node"}
  <2>1. OneSpread(f, svc) <=> IF v = "zone" THEN svc.zones = 1 ELSE svc.nodes = 1
    BY <1>1, <1>2, <1>10 DEF OneSpread
  <2>2. QED
    BY <1>1, <1>4, <1>5, <1>10, <2>1 DEF Matches
<1>11. CASE k = "mesh" /\ v \in {"permissive", "not-injected"}
  <2>1. MeshIs(f, svc) <=> IF v = "permissive" THEN svc.policy = "permissive"
                           ELSE svc.pods > 0 /\ svc.injected < svc.pods
    BY <1>1, <1>2, <1>11 DEF MeshIs
  <2>2. QED
    BY <1>1, <1>3, <1>5, <1>11, <2>1 DEF Matches
<1>12. QED
  BY <1>6, <1>7, <1>8, <1>9, <1>10, <1>11

LEMMA OnlyTables ==
  ASSUME NEW f, NEW k \in Kinds, NEW v, v # Unset, Only(f, k, v)
  PROVE  /\ k # "view" => ShowServices(f) /\ Active(f)
         /\ k \notin {"view", "spread", "mesh"} => ~ShowUnmanaged(f)
         /\ k = "view" /\ v = "unmanaged" => ~ShowServices(f) /\ ShowUnmanaged(f)
         /\ k \in {"spread", "mesh"} => ShowUnmanaged(f)
<1>1. /\ \A j \in RowLists : f[j] = IF j = k THEN {v} ELSE {}
      /\ \A j \in ViewChips : f[j] = IF j = k THEN v ELSE Unset
  BY OnlyOne
<1>2. /\ f["view"] = IF k = "view" THEN v ELSE Unset
      /\ f["spread"] = IF k = "spread" THEN v ELSE Unset
      /\ f["mesh"] = IF k = "mesh" THEN v ELSE Unset
  BY <1>1 DEF ViewChips
<1>3. Unset # "unmanaged"
  BY Zenon DEF Unset
<1>4. k # "view" => Active(f)
  <2>1. f[k] # Empty(k)
    BY <1>1, ChipKinds DEF Empty
  <2>2. QED
    BY <2>1 DEF Active
<1>5. QED
  BY <1>2, <1>3, <1>4 DEF ShowServices, ShowUnmanaged, AnyFilter

\* What a page may offer as a link.
Offerable(k, v) ==
  \/ k = "status" /\ v \in States
  \/ k = "gpu" /\ v = "true"
  \/ k = "view" /\ v = "unmanaged"
  \/ k = "arch" /\ v # Unset
  \/ k = "blocked" /\ v \in Shortages
  \/ k = "spread" /\ v \in {"zone", "node"}
  \/ k = "mesh" /\ v \in {"not-injected", "permissive"}

LEMMA OfferedIs ==
  ASSUME NEW s, NEW o \in Offered(s)
  PROVE  Offerable(o[1], o[2]) /\ o[1] \in Kinds /\ o[2] # Unset
<1>1. s # NoData
  BY DEF Offered
<1>2. \/ o \in {<<"status", "OK">>, <<"gpu", "true">>, <<"view", "unmanaged">>}
      \/ o \in {"status"} \X States
      \/ \E i \in {j \in DOMAIN s.services : s.services[j].arch # Unset} : o = <<"arch", s.services[i].arch>>
      \/ o \in {"blocked"} \X Shortages
      \/ o \in {<<"spread", "zone">>, <<"spread", "node">>}
      \/ \E w \in {"not-injected", "permissive"} : o = <<"mesh", w>>
  BY <1>1, Zenon DEF Offered
<1>3. Offerable(o[1], o[2])
  <2>1. "OK" \in States
    BY DEF States
  <2>2. QED
    BY <1>2, <2>1 DEF Offerable
<1>4. o[1] \in Kinds
  BY <1>3 DEF Offerable, Kinds, RowLists, ViewChips
<1>5. Unset \notin States \cup Shortages \cup {"true", "unmanaged", "zone", "node", "not-injected", "permissive"}
  BY Zenon DEF Unset, States, Shortages
<1>6. QED
  BY <1>3, <1>4, <1>5 DEF Offerable

(* How long the two tables of a page are. *)
LEMMA TableLengths ==
  ASSUME NEW s \in Snapshot, NEW f
  PROVE  /\ ~ShowServices(f) => Len(RowsOf(f, s)) = 0
         /\ ShowServices(f) /\ Active(f) =>
              Len(RowsOf(f, s)) = Cardinality({i \in DOMAIN s.services : Matches(f, s.services[i])})
         /\ ~ShowUnmanaged(f) => Len(ItemsOf(f, s)) = 0
         /\ ShowUnmanaged(f) =>
              Len(ItemsOf(f, s))
                = Cardinality({i \in DOMAIN s.items : OneSpread(f, s.items[i]) /\ MeshIs(f, s.items[i])})
<1> DEFINE rows  == s.services
           items == s.items
           Also  == {i \in DOMAIN items : OneSpread(f, items[i]) /\ MeshIs(f, items[i])}
<1>1. rows \in Seq(Service) /\ items \in Seq(Item) /\ (~s.outside => items = <<>>)
  BY DEF Snapshot
<1>2. Len(rows) \in Nat /\ DOMAIN rows = 1..Len(rows) /\ Len(items) \in Nat /\ DOMAIN items = 1..Len(items)
  BY <1>1
<1>3. Len(<<>>) = 0
  OBVIOUS
<1>4. Active(f) => Len(Ordered(f, rows)) = Cardinality({i \in DOMAIN rows : Matches(f, rows[i])})
  BY <1>2, OrderedLength, Narrowed
<1>5. Len(ApplyWorkloads(f, items)) = Cardinality(Also)
  BY <1>2, Narrowed
<1>6. ~s.outside => Cardinality(Also) = 0
  <2>1. ~s.outside => Also = {}
    BY <1>1
  <2>2. Cardinality({}) = 0
    BY FS_EmptySet
  <2> HIDE DEF Also
  <2>3. QED
    BY <2>1, <2>2
<1> HIDE DEF Also
<1>7. QED
  BY <1>3, <1>4, <1>5, <1>6 DEF RowsOf, ItemsOf, Also

(* Where one filter is all there is, the page shows what its link counts. *)
LEMMA LinkCounts ==
  ASSUME NEW s \in Snapshot, NEW f, NEW k \in Kinds, NEW v, v # Unset,
         Offerable(k, v), Only(f, k, v)
  PROVE  ShowsCounted(f, s, k, v)
<1> DEFINE rows  == s.services
           items == s.items
           more  == s.ignored
           Taken == {i \in DOMAIN rows : Matches(f, rows[i])}
           Also  == {i \in DOMAIN items : OneSpread(f, items[i]) /\ MeshIs(f, items[i])}
<1>1. rows \in Seq(Service) /\ items \in Seq(Item) /\ more \in Seq(Item)
  BY DEF Snapshot
<1>2. /\ Len(rows) \in Nat /\ DOMAIN rows = 1..Len(rows) /\ \A i \in DOMAIN rows : rows[i] \in Service
      /\ Len(items) \in Nat /\ DOMAIN items = 1..Len(items) /\ \A i \in DOMAIN items : items[i] \in Item
      /\ Len(more) \in Nat /\ DOMAIN more = 1..Len(more) /\ \A i \in DOMAIN more : more[i] \in Item
  BY <1>1
<1>3. /\ k # "view" => ShowServices(f) /\ Active(f)
      /\ k \notin {"view", "spread", "mesh"} => ~ShowUnmanaged(f)
      /\ k = "view" /\ v = "unmanaged" => ~ShowServices(f) /\ ShowUnmanaged(f)
      /\ k \in {"spread", "mesh"} => ShowUnmanaged(f)
  BY OnlyTables
<1>4. /\ ~ShowServices(f) => Len(RowsOf(f, s)) = 0
      /\ ShowServices(f) /\ Active(f) => Len(RowsOf(f, s)) = Cardinality(Taken)
      /\ ~ShowUnmanaged(f) => Len(ItemsOf(f, s)) = 0
      /\ ShowUnmanaged(f) => Len(ItemsOf(f, s)) = Cardinality(Also)
  BY TableLengths
<1>5. Cardinality(Taken) \in Nat /\ Cardinality(Also) \in Nat
  BY <1>2, Narrowed
<1>6. \A i \in DOMAIN rows :
         /\ k = "status" => (Matches(f, rows[i]) <=> rows[i].state = v)
         /\ k = "gpu" /\ v = "true" => (Matches(f, rows[i]) <=> rows[i].gpu)
         /\ k = "arch" => (Matches(f, rows[i]) <=> rows[i].arch = v)
         /\ k = "blocked" /\ v \in Shortages => (Matches(f, rows[i]) <=> rows[i].blocked = v)
         /\ k = "spread" /\ v = "zone" => (Matches(f, rows[i]) <=> rows[i].zones = 1)
         /\ k = "spread" /\ v = "node" => (Matches(f, rows[i]) <=> rows[i].nodes = 1)
         /\ k = "mesh" /\ v = "permissive" => (Matches(f, rows[i]) <=> rows[i].policy = "permissive")
         /\ k = "mesh" /\ v = "not-injected" =>
              (Matches(f, rows[i]) <=> rows[i].pods > 0 /\ rows[i].injected < rows[i].pods)
  BY <1>2, OnlyRows
<1>7. Unset \notin {"zone", "node", "not-injected", "permissive"}
  BY Zenon DEF Unset
<1>8. CASE k \notin {"view", "spread", "mesh"}
  <2>1. ShowServices(f) /\ Active(f) /\ ~ShowUnmanaged(f)
    BY <1>3, <1>8
  <2>2. Shown(f, s) = Cardinality(Taken)
    <3> HIDE DEF Taken
    <3>1. QED
      BY <1>4, <1>5, <2>1 DEF Shown
  <2>3. Unlisted(s, k, v) = 0 /\ Number(s, k, v) = Count(s, k, v)
    BY <1>8 DEF Unlisted, Number
  <2>4. Count(s, k, v) = Cardinality(Taken)
    <3>1. CASE k = "status"
      <4>1. Count(s, k, v) = Cardinality({i \in DOMAIN rows : rows[i].state = v})
        BY <3>1 DEF Count, CountIf, Where
      <4>2. Taken = {i \in DOMAIN rows : rows[i].state = v}
        BY <1>6, <3>1
      <4>3. QED
        BY <4>1, <4>2
    <3>2. CASE k = "gpu" /\ v = "true"
      <4>1. Count(s, k, v) = Cardinality({i \in DOMAIN rows : rows[i].gpu})
        BY <3>2 DEF Count, CountIf, Where
      <4>2. Taken = {i \in DOMAIN rows : rows[i].gpu}
        BY <1>6, <3>2, Zenon
      <4>3. QED
        BY <4>1, <4>2, Zenon
    <3>3. CASE k = "arch"
      <4>1. Count(s, k, v) = Cardinality({i \in DOMAIN rows : rows[i].arch = v})
        BY <3>3 DEF Count, CountIf, Where
      <4>2. Taken = {i \in DOMAIN rows : rows[i].arch = v}
        BY <1>6, <3>3
      <4>3. QED
        BY <4>1, <4>2
    <3>4. CASE k = "blocked" /\ v \in Shortages
      <4>1. Count(s, k, v) = Cardinality({i \in DOMAIN rows : rows[i].blocked = v})
        BY <3>4 DEF Count, CountIf, Where
      <4>2. Taken = {i \in DOMAIN rows : rows[i].blocked = v}
        BY <1>6, <3>4
      <4>3. QED
        BY <4>1, <4>2
    <3>5. QED
      BY <1>8, <3>1, <3>2, <3>3, <3>4 DEF Offerable
  <2>5. QED
    BY <1>5, <1>8, <2>2, <2>3, <2>4 DEF ShowsCounted
<1>9. CASE k = "view"
  <2>1. v = "unmanaged"
    BY <1>9 DEF Offerable
  <2>2. Shown(f, s) = Cardinality(Also)
    <3> HIDE DEF Also
    <3>1. QED
      BY <1>3, <1>4, <1>5, <1>9, <2>1 DEF Shown
  <2>3. Also = DOMAIN items
    <3>1. f["spread"] = Unset /\ f["mesh"] = Unset
      BY <1>9, OnlyOne DEF ViewChips
    <3>2. QED
      BY <1>7, <3>1 DEF OneSpread, MeshIs
  <2>4. Len(items) \in Nat /\ DOMAIN items = 1..Len(items)
    BY <1>2
  <2>5. Unlisted(s, k, v) = 0 /\ Number(s, k, v) = Len(items)
    BY <1>9 DEF Unlisted, Number, Count
  <2> HIDE DEF Also, items
  <2>6. Cardinality(DOMAIN items) = Len(items)
    <3>1. ASSUME NEW n \in Nat PROVE Cardinality(1..n) = n
      BY FS_Interval
    <3>2. QED
      BY <2>4, <3>1
  <2>7. QED
    BY <1>9, <2>2, <2>3, <2>4, <2>5, <2>6 DEF ShowsCounted
<1>10. CASE k = "spread"
  <2>1. v \in {"zone", "node"}
    BY <1>10 DEF Offerable
  <2>2. Shown(f, s) = Cardinality(Taken) + Cardinality(Also)
    <3> HIDE DEF Taken, Also
    <3>1. QED
      BY <1>3, <1>4, <1>10 DEF Shown
  <2>3. f["spread"] = v /\ f["mesh"] = Unset
    BY <1>10, OnlyOne DEF ViewChips
  <2>4. \A w : OneSpread(f, w) /\ MeshIs(f, w) <=> AtRisk(v, w)
    BY <1>7, <2>1, <2>3 DEF OneSpread, MeshIs, AtRisk
  <2> DEFINE P == {w \in Service \cup Item : AtRisk(v, w)}
             both == rows \o items
             all == both \o more
  <2>5. Taken = Hits(rows, P)
    <3>1. \A i \in DOMAIN rows : Matches(f, rows[i]) <=> AtRisk(v, rows[i])
      BY <1>6, <1>10, <2>1 DEF AtRisk
    <3>2. QED
      BY <1>2, <3>1 DEF Hits
  <2>6. Also = Hits(items, P)
    BY <1>2, <2>4 DEF Hits
  <2>7. both \in Seq(Service \cup Item)
    BY <1>1
  <2> HIDE DEF both
  <2>8. \A i \in DOMAIN all : all[i] \in Service \cup Item
    BY <1>1, <2>7, CountBoth
  <2>9. Unlisted(s, k, v) = Cardinality(Hits(more, P))
    <3>1. Unlisted(s, k, v) = Cardinality({i \in DOMAIN more : AtRisk(v, more[i])})
      BY <1>10 DEF Unlisted, CountIf, Where
    <3>2. {i \in DOMAIN more : AtRisk(v, more[i])} = Hits(more, P)
      BY <1>2 DEF Hits
    <3>3. QED
      BY <3>1, <3>2
  <2>10. Number(s, k, v) = Cardinality(Hits(all, P))
    <3>1. Number(s, k, v) = Cardinality({i \in DOMAIN all : AtRisk(v, all[i])})
      BY <1>10, Zenon DEF Number, Gauge, CountIf, Where, both
    <3> HIDE DEF all
    <3>2. {i \in DOMAIN all : AtRisk(v, all[i])} = Hits(all, P)
      BY <2>8 DEF Hits
    <3>3. QED
      BY <3>1, <3>2
  <2> HIDE DEF P, Taken, Also, rows, items, more
  <2>11. Cardinality(Hits(all, P)) = Cardinality(Hits(both, P)) + Cardinality(Hits(more, P))
    BY <1>1, <2>7, CountBoth
  <2>12. Cardinality(Hits(both, P)) = Cardinality(Hits(rows, P)) + Cardinality(Hits(items, P))
    BY <1>1, CountBoth DEF both
  <2>13. QED
    BY <1>10, <2>2, <2>5, <2>6, <2>9, <2>10, <2>11, <2>12 DEF ShowsCounted
<1>11. CASE k = "mesh"
  <2>1. v \in {"not-injected", "permissive"}
    BY <1>11 DEF Offerable
  <2>2. Len(RowsOf(f, s)) = Cardinality(Taken) /\ Len(ItemsOf(f, s)) = Cardinality(Also)
    <3> HIDE DEF Taken, Also
    <3>1. QED
      BY <1>3, <1>4, <1>11
  <2>3. f["mesh"] = v /\ f["spread"] = Unset
    BY <1>11, OnlyOne DEF ViewChips
  <2>4. \A w : OneSpread(f, w) /\ MeshIs(f, w) <=> OutOfMesh(v, w)
    BY <1>7, <2>1, <2>3 DEF OneSpread, MeshIs, OutOfMesh
  <2>5. Taken = {i \in DOMAIN rows : OutOfMesh(v, rows[i])}
    <3>1. \A i \in DOMAIN rows : Matches(f, rows[i]) <=> OutOfMesh(v, rows[i])
      BY <1>6, <1>11, <2>1 DEF OutOfMesh
    <3>2. QED
      BY <3>1
  <2>6. Also = {i \in DOMAIN items : OutOfMesh(v, items[i])}
    BY <2>4
  <2>7. Number(s, k, v) = Cardinality({i \in DOMAIN rows : OutOfMesh(v, rows[i])})
    BY <1>11, Zenon DEF Number, Gauge, CountIf, Where
  <2> HIDE DEF Taken, Also
  <2>8. QED
    BY <1>11, <2>2, <2>5, <2>6, <2>7 DEF ShowsCounted, CountIf, Where
<1>12. QED
  BY <1>8, <1>9, <1>10, <1>11

(* "Clear all" shows every row of both tables. *)
LEMMA ClearShowsAll ==
  ASSUME NEW q, NEW s \in Snapshot
  PROVE  LET f == ParseFilter(ClearHref(q)) IN
           /\ Shown(f, s) = Len(s.services) + Len(s.items)
           /\ AttentionItems(s) \subseteq Range(RowsOf(f, s))
<1> DEFINE f == ParseFilter(ClearHref(q))
           rows == s.services
           items == s.items
<1>1. \A k \in Kinds : f[k] = Empty(k)
  <2> SUFFICES ASSUME NEW k \in Kinds PROVE f[k] = Empty(k)
    OBVIOUS
  <2>1. CASE k \in RowLists
    <3>1. Clean[k] = {}
      BY <2>1, ChipKinds DEF Clean
    <3>2. QED
      BY <2>1, <3>1, Zenon DEF ParseFilter, ClearHref, Empty
  <2>2. CASE k \notin RowLists
    <3>1. Clean[k].word = Unset
      BY <2>2, AbsentIsEmpty DEF Clean
    <3>2. QED
      BY <2>2, <3>1, Zenon DEF ParseFilter, ClearHref, Empty
  <2>3. QED
    BY <2>1, <2>2
<1> HIDE DEF f
<1>2. f["view"] = Unset /\ f["spread"] = Unset /\ f["mesh"] = Unset
  BY <1>1, ChipKinds DEF ViewChips, Empty
<1>3. ~Active(f)
  BY <1>1 DEF Active
<1>4. Unset \notin {"zone", "node", "not-injected", "permissive", "unmanaged"}
  BY Zenon DEF Unset
<1>5. ShowServices(f) /\ ShowUnmanaged(f)
  BY <1>2, <1>3, <1>4 DEF ShowServices, ShowUnmanaged, AnyFilter
<1>6. RowsOf(f, s) = rows
  <2>1. f["gpu"] = Unset
    BY <1>1, ChipKinds DEF Empty
  <2>2. QED
    BY <1>3, <1>5, <2>1 DEF RowsOf, Ordered, Apply
<1>7. rows \in Seq(Service) /\ items \in Seq(Item) /\ Len(items) \in Nat /\ DOMAIN items = 1..Len(items)
  BY DEF Snapshot
<1>8. Len(ItemsOf(f, s)) = Len(items)
  <2>1. \A w : OneSpread(f, w) /\ MeshIs(f, w)
    BY <1>2, <1>4 DEF OneSpread, MeshIs
  <2>2. {i \in DOMAIN items : OneSpread(f, items[i]) /\ MeshIs(f, items[i])} = DOMAIN items
    BY <2>1
  <2>3. Cardinality(DOMAIN items) = Len(items)
    BY <1>7, FS_Interval
  <2>4. QED
    BY <1>5, <2>2, <2>3, TableLengths
<1>9. Shown(f, s) = Len(rows) + Len(items)
  BY <1>6, <1>8 DEF Shown
<1>10. AttentionItems(s) \subseteq Range(RowsOf(f, s))
  BY <1>6 DEF AttentionItems, Where, Range
<1>11. QED
  BY <1>9, <1>10 DEF f

Typo(f, k)  == f[k] \notin Words[k]
Nothing(f)  == (f["status"] # {} /\ f["status"] \cap States = {}) \/ \E k \in DOMAIN Words : Typo(f, k)

LEMMA WordsAre ==
  /\ DOMAIN Words = {"spread", "gpu", "mesh", "blocked"}
  /\ Words["spread"] = {Unset, "zone", "node"}
  /\ Words["gpu"] = Bools \cup {Unset}
  /\ Words["mesh"] = {Unset, "not-injected", "permissive"}
  /\ Words["blocked"] = Bools \cup Shortages \cup {Unset}
BY DEF Words

(* No service passes a filter with a word that is none of the known ones. *)
LEMMA NothingPasses ==
  ASSUME NEW f, Nothing(f)
  PROVE  \A svc \in Service : ~Matches(f, svc)
<1> SUFFICES ASSUME NEW svc \in Service PROVE ~Matches(f, svc)
  OBVIOUS
<1>1. CASE f["status"] # {} /\ f["status"] \cap States = {}
  <2>1. svc.state \in States
    BY DEF Service
  <2>2. QED
    BY <1>1, <2>1 DEF Matches
<1>2. CASE Typo(f, "spread")
  BY <1>2, WordsAre DEF Typo, Matches, OneSpread
<1>3. CASE Typo(f, "mesh")
  BY <1>3, WordsAre DEF Typo, Matches, MeshIs
<1>4. CASE Typo(f, "gpu")
  BY <1>4, WordsAre DEF Typo, Matches
<1>5. CASE Typo(f, "blocked")
  <2>1. svc.blocked \in Shortages \cup {Unset}
    BY DEF Service
  <2>2. QED
    BY <1>5, <2>1, WordsAre DEF Typo, Matches, BlockedIs
<1>6. QED
  BY <1>1, <1>2, <1>3, <1>4, <1>5, WordsAre DEF Nothing

LEMMA NothingIsActive ==
  ASSUME NEW q, Nothing(ParseFilter(q))
  PROVE  Active(ParseFilter(q)) /\ ParseFilter(q)["view"] = Unset
<1> DEFINE f == ParseFilter(q)
<1>1. PICK k \in Kinds \ {"view"} : f[k] # Empty(k)
  <2>1. CASE f["status"] # {}
    BY <2>1, ChipKinds DEF Empty, RowLists, ViewChips
  <2>2. CASE \E k \in DOMAIN Words : Typo(f, k)
    <3>1. PICK k \in DOMAIN Words : Typo(f, k)
      BY <2>2
    <3>2. f[k] # Unset /\ k \in ViewChips \ {"view"}
      BY <3>1, WordsAre DEF Typo, ViewChips
    <3>3. QED
      BY <3>2, ChipKinds DEF Empty
  <2>3. QED
    BY <2>1, <2>2 DEF Nothing
<1>2. q["view"].word = Unset
  BY <1>1, Zenon DEF ParseFilter
<1>3. f["view"] = Unset
  BY <1>2, ChipKinds, Zenon DEF ParseFilter
<1>4. QED
  BY <1>1, <1>3 DEF Active

(* What is put in order when there is nothing to put is nothing. *)
LEMMA NoRows ==
  /\ Cardinality({}) = 0
  /\ SortRunningFirst(<<>>) = <<>>
<1>1. Cardinality({}) = 0
  BY FS_EmptySet
<1>2. SortRunningFirst(<<>>) = <<>>
  <2>1. DOMAIN <<>> = {}
    OBVIOUS
  <2>2. QED
    BY <1>1, <2>1 DEF SortRunningFirst, InOrder
<1>3. QED
  BY <1>1, <1>2

(* A table nothing passes is empty. *)
LEMMA EmptyTables ==
  ASSUME NEW f, NEW rows
  PROVE  /\ Active(f) /\ (\A i \in DOMAIN rows : ~Matches(f, rows[i])) => Apply(f, rows) = <<>>
         /\ (\A w : ~(OneSpread(f, w) /\ MeshIs(f, w))) => ApplyWorkloads(f, rows) = <<>>
<1>1. ASSUME Active(f), \A i \in DOMAIN rows : ~Matches(f, rows[i]) PROVE Apply(f, rows) = <<>>
  <2> DEFINE at == {i \in DOMAIN rows : Matches(f, rows[i])}
  <2>1. Apply(f, rows) = [k \in 1..Cardinality(at) |->
                            rows[CHOOSE i \in at : Cardinality({j \in at : j <= i}) = k]]
    BY <1>1, Zenon DEF Apply, Narrow, Where, InOrder
  <2>2. at = {}
    BY <1>1
  <2> HIDE DEF at
  <2>3. Cardinality(at) = 0
    BY <2>2, NoRows
  <2>4. QED
    BY <2>1, <2>3
<1>2. ASSUME \A w : ~(OneSpread(f, w) /\ MeshIs(f, w)) PROVE ApplyWorkloads(f, rows) = <<>>
  <2> DEFINE at == {i \in DOMAIN rows : OneSpread(f, rows[i]) /\ MeshIs(f, rows[i])}
  <2>1. ApplyWorkloads(f, rows) = [k \in 1..Cardinality(at) |->
                            rows[CHOOSE i \in at : Cardinality({j \in at : j <= i}) = k]]
    BY Zenon DEF ApplyWorkloads, Narrow, Where, InOrder
  <2>2. at = {}
    BY <1>2
  <2> HIDE DEF at
  <2>3. Cardinality(at) = 0
    BY <2>2, NoRows
  <2>4. QED
    BY <2>1, <2>3
<1>3. QED
  BY <1>1, <1>2

(* Every link of a page a link led to is such a link again. *)
LEMMA LinksAreLinked ==
  ASSUME NEW p, Pure(p.url.q), Canonical(p.url.q)
  PROVE  \A q \in Links(p) : Pure(q) /\ Canonical(q)
<1> SUFFICES ASSUME NEW q \in Links(p) PROVE Pure(q) /\ Canonical(q)
  OBVIOUS
<1>1. \A o \in Offered(p.of) : o[1] \in Kinds
  BY OfferedIs
<1>2. \A o \in Chips(ParseFilter(p.url.q)) : o[1] \in Kinds
  <2> DEFINE f == ParseFilter(p.url.q)
  <2> SUFFICES ASSUME NEW o \in Chips(f) PROVE o[1] \in Kinds
    OBVIOUS
  <2> HIDE DEF f
  <2>1. \/ \E k \in RowLists : o \in {<<k, v>> : v \in f[k]}
        \/ \E k \in {"gpu", "arch", "blocked"} : o = <<k, f[k]>>
    BY Zenon DEF Chips
  <2>2. RowLists \subseteq Kinds /\ {"gpu", "arch", "blocked"} \subseteq Kinds
    BY DEF Kinds, RowLists, ViewChips
  <2>3. ASSUME NEW k \in RowLists, o \in {<<k, v>> : v \in f[k]} PROVE o[1] \in Kinds
    BY <2>2, <2>3
  <2>4. ASSUME NEW k \in {"gpu", "arch", "blocked"}, o = <<k, f[k]>> PROVE o[1] \in Kinds
    BY <2>2, <2>4
  <2>5. QED
    BY <2>1, <2>3, <2>4
<1>3. ASSUME NEW o \in Offered(p.of), q = FilterHref(p.url.q, o[1], o[2])
      PROVE  Pure(q) /\ Canonical(q)
  BY <1>1, <1>3, FilterHrefIsPure, FilterHrefIsCanonical
<1>4. ASSUME NEW o \in Chips(ParseFilter(p.url.q)), q = RemoveHref(p.url.q, o[1], o[2])
      PROVE  Pure(q) /\ Canonical(q)
  BY <1>2, <1>4, RemoveHrefIsPure, RemoveHrefIsCanonical
<1>5. CASE q = ClearHref(p.url.q)
  BY <1>5, CleanIsPure, CleanIsCanonical DEF ClearHref
<1>6. QED
  BY <1>3, <1>4, <1>5 DEF Links

(* A page of a snapshot shows nothing for a word the filters do not know. *)
LEMMA PageOfTypo ==
  ASSUME NEW s \in Snapshot, NEW q, Nothing(ParseFilter(q))
  PROVE  LET f == ParseFilter(q) IN
           /\ RowsOf(f, s) = <<>>
           /\ (f["spread"] = Unset /\ f["mesh"] = Unset) \/ Typo(f, "spread") \/ Typo(f, "mesh")
                => ItemsOf(f, s) = <<>>
<1> DEFINE f == ParseFilter(q)
<1>1. Active(f) /\ f["view"] = Unset
  BY NothingIsActive
<1>2. s.services \in Seq(Service)
  BY DEF Snapshot
<1>3. \A i \in DOMAIN s.services : ~Matches(f, s.services[i])
  BY <1>2, NothingPasses
<1>4. Apply(f, s.services) = <<>>
  BY <1>1, <1>3, EmptyTables
<1> HIDE DEF f
<1>5. RowsOf(f, s) = <<>>
  BY <1>4, NoRows DEF RowsOf, Ordered
<1>6. f["spread"] = Unset /\ f["mesh"] = Unset => ~ShowUnmanaged(f)
  <2>1. Unset # "unmanaged"
    BY Zenon DEF Unset
  <2>2. QED
    BY <1>1, <2>1 DEF ShowUnmanaged, AnyFilter
<1>7. Typo(f, "spread") \/ Typo(f, "mesh") => ApplyWorkloads(f, s.items) = <<>>
  <2>1. Typo(f, "spread") => \A w : ~OneSpread(f, w)
    BY WordsAre DEF Typo, OneSpread
  <2>2. Typo(f, "mesh") => \A w : ~MeshIs(f, w)
    BY WordsAre DEF Typo, MeshIs
  <2>3. QED
    BY <2>1, <2>2, EmptyTables
<1>8. QED
  BY <1>5, <1>6, <1>7 DEF f, ItemsOf

(* The property is about the page alone. *)
LEMMA TypoIs ==
  TypoShowsNothing <=>
    LET f == ParseFilter(page.url.q) IN
      /\ Nothing(f) => page.rows = <<>>
      /\ (Nothing(f) /\ f["spread"] = Unset /\ f["mesh"] = Unset) \/ Typo(f, "spread") \/ Typo(f, "mesh")
           => page.items = <<>>
BY Zenon DEF TypoShowsNothing, Nothing, Typo

(* Nobody starts on a typo. *)
LEMMA CleanSaysNothing ==
  LET f == ParseFilter(Clean) IN ~Nothing(f) /\ ~Typo(f, "spread") /\ ~Typo(f, "mesh")
<1> DEFINE f == ParseFilter(Clean)
<1>1. \A k \in DOMAIN Words : k \in ViewChips /\ Unset \in Words[k]
  BY WordsAre DEF ViewChips
<1>2. \A k \in ViewChips : f[k] = Unset
  <2> SUFFICES ASSUME NEW k \in ViewChips PROVE f[k] = Unset
    OBVIOUS
  <2>1. k \notin RowLists /\ k \in Kinds
    BY ChipKinds
  <2>2. Clean[k].word = Unset
    BY <2>1, AbsentIsEmpty DEF Clean
  <2>3. QED
    BY <2>1, <2>2, Zenon DEF ParseFilter, Empty
<1>3. f["status"] = {}
  <2>1. "status" \in RowLists /\ "status" \in Kinds /\ Clean["status"] = {}
    BY DEF Clean, Kinds, RowLists
  <2>2. QED
    BY <2>1, Zenon DEF ParseFilter, Empty
<1>4. \A k \in DOMAIN Words : ~Typo(f, k)
  BY <1>1, <1>2 DEF Typo
<1>5. {"spread", "mesh"} \subseteq DOMAIN Words
  BY WordsAre
<1> HIDE DEF f
<1>6. QED
  BY <1>3, <1>4, <1>5 DEF Nothing, f

LEMMA KeptInit == Init => Kept
<1> SUFFICES ASSUME Init PROVE Kept
  OBVIOUS
<1>1. url = Root /\ page = Blank /\ page.url = Root /\ page.of = NoData /\ snap \in Snapshots
  BY DEF Init, Blank
<1>2. Root.q = Clean /\ Root.typed = FALSE /\ Shape(Root)
  BY DEF Root, Shape
<1>3. NoData \in Snapshot
  BY DEF NoData, Snapshot
<1>4. Linked(Root)
  BY <1>2, CleanIsPure, CleanIsCanonical DEF Linked
<1>5. TypoShowsNothing
  <2>1. page.url.q = Clean
    BY <1>1, <1>2
  <2>2. QED
    BY <2>1, CleanSaysNothing, TypoIs DEF Nothing
<1>6. QED
  BY <1>1, <1>2, <1>3, <1>4, <1>5 DEF Kept

(* Rendering a page leaves the cache alone, in more than its own step. *)
LEMMA PageLeavesCache ==
  ASSUME Kept, HandlePage
  PROVE  snap' = snap
<1> DEFINE f   == ParseFilter(url.q)
           out == Ordered(f, snap.services)
<1>1. snap' = IF Active(f) THEN snap ELSE [snap EXCEPT !.services = out]
  BY Zenon DEF HandlePage
<1>2. ASSUME ~Active(f) PROVE out = snap.services
  <2>1. f["gpu"] = Unset
    BY <1>2, ChipKinds DEF Active, Empty
  <2>2. QED
    BY <1>2, <2>1 DEF Ordered, Apply
<1>3. [snap EXCEPT !.services = snap.services] = snap
  <2>1. snap \in Snapshot
    BY SnapshotAssumption DEF Kept
  <2>2. QED
    BY <2>1 DEF Snapshot
<1> HIDE DEF out, f
<1>4. QED
  BY <1>1, <1>2, <1>3

LEMMA KeptStep == Kept /\ [Next]_vars => Kept'
<1> SUFFICES ASSUME Kept, [Next]_vars PROVE Kept'
  OBVIOUS
<1> USE DEF Kept
<1>0. page' = page => TypoShowsNothing'
  BY DEF TypoShowsNothing
<1>1. ASSUME NEW q \in Links(page), Follow(q) PROVE Kept'
  <2>1. url' = [q |-> q, refresh |-> page.url.refresh, typed |-> page.url.typed /\ q # Clean]
    BY <1>1 DEF Follow
  <2>2. page' = page /\ snap' = snap
    BY <1>1 DEF Follow
  <2>3. ~(page.url.typed /\ q # Clean) => Pure(q) /\ Canonical(q)
    BY LinksAreLinked, CleanIsPure, CleanIsCanonical DEF Linked
  <2>4. Linked(url') /\ Shape(url') /\ url'.typed \in BOOLEAN
    BY <2>1, <2>3 DEF Linked, Shape
  <2>5. QED
    BY <1>0, <2>2, <2>4
<1>2. ASSUME NEW n \in Picks, PickRefresh(n) PROVE Kept'
  <2>1. url' = [page.url EXCEPT !.q = Query(@), !.refresh = n] /\ page' = page /\ snap' = snap
    BY <1>2 DEF PickRefresh
  <2>2. url' = [q |-> Query(page.url.q), refresh |-> n, typed |-> page.url.typed]
    BY <2>1 DEF Shape
  <2>3. Linked(url')
    BY <2>2, QueryIsPure, QueryIsCanonical DEF Linked
  <2>4. QED
    BY <1>0, <2>1, <2>2, <2>3 DEF Shape
<1>3. ASSUME NEW t \in Typed, Type(t) PROVE Kept'
  <2>1. url' = [q |-> t.q, refresh |-> t.refresh, typed |-> TRUE] /\ page' = page /\ snap' = snap
    BY <1>3 DEF Type
  <2>2. QED
    BY <1>0, <2>1 DEF Shape, Linked
<1>4. CASE Reload
  BY <1>0, <1>4 DEF Reload
<1>5. CASE NewSnapshot
  BY <1>0, <1>5 DEF NewSnapshot
<1>6. CASE HandlePage
  <2> DEFINE f     == ParseFilter(url.q)
             shown == RowsOf(f, snap)
             items == ItemsOf(f, snap)
             n     == RefreshSeconds(url.refresh)
  <2>1. url' = url /\ page' = [url |-> url, rows |-> shown, items |-> items, of |-> snap, refresh |-> n]
    BY <1>6, Zenon DEF HandlePage
  <2>2. snap \in Snapshot /\ snap' = snap
    BY <1>6, PageLeavesCache, SnapshotAssumption
  <2> HIDE DEF n, f
  <2>3. /\ Nothing(f) => shown = <<>>
        /\ Nothing(f) /\ ((f["spread"] = Unset /\ f["mesh"] = Unset) \/ Typo(f, "spread") \/ Typo(f, "mesh"))
             => items = <<>>
    BY <2>2, PageOfTypo, Zenon DEF f
  <2>4. Typo(f, "spread") \/ Typo(f, "mesh") => Nothing(f)
    BY WordsAre DEF Nothing
  <2> HIDE DEF shown, items
  <2>5. /\ Nothing(f) => shown = <<>>
        /\ (Nothing(f) /\ f["spread"] = Unset /\ f["mesh"] = Unset) \/ Typo(f, "spread") \/ Typo(f, "mesh")
             => items = <<>>
    BY <2>3, <2>4
  <2>6. page'.url = url /\ page'.rows = shown /\ page'.items = items /\ page'.of = snap
    BY <2>1
  <2>7. TypoShowsNothing'
    <3>1. TypoShowsNothing' <=>
            LET g == ParseFilter(page'.url.q) IN
              /\ Nothing(g) => page'.rows = <<>>
              /\ (Nothing(g) /\ g["spread"] = Unset /\ g["mesh"] = Unset) \/ Typo(g, "spread") \/ Typo(g, "mesh")
                   => page'.items = <<>>
      BY Zenon DEF TypoShowsNothing, Nothing, Typo
    <3>2. QED
      BY <2>5, <2>6, <3>1, Zenon DEF f
  <2>8. QED
    BY <2>1, <2>2, <2>6, <2>7
<1>7. CASE UNCHANGED vars
  BY <1>0, <1>7 DEF vars
<1>8. QED
  BY <1>1, <1>2, <1>3, <1>4, <1>5, <1>6, <1>7 DEF Next

LEMMA AlwaysKept == Spec => []Kept
<1>1. QED
  BY KeptInit, KeptStep, PTL DEF Spec

(* No sequence of clicks puts filters that exclude each other in one URL.  *)
THEOREM LinksNeverMixHolds == Spec => []LinksNeverMix
<1>1. Kept => LinksNeverMix
  BY DEF Kept, Linked, LinksNeverMix
<1>2. QED
  BY <1>1, AlwaysKept, PTL

(* A link that is on takes its filter off and any other puts it on; where   *)
(* it is then the only filter the page has as many rows as the number       *)
(* beside the link said, short of the workloads at risk in ignored          *)
(* namespaces, which a spread gauge counts and no table lists; the mesh     *)
(* gauges count services, and the page lists what of the workloads outside  *)
(* GitOps they could be said of besides; clearing shows every row.          *)
THEOREM LinksDoAsSaidHolds == Spec => []LinksDoAsSaid
<1>1. Kept => LinksDoAsSaid
  <2> SUFFICES ASSUME Kept PROVE LinksDoAsSaid
    OBVIOUS
  <2>1. page.of \in Snapshot
    BY DEF Kept
  <2>2. ASSUME ~page.url.typed, NEW o \in Offered(page.of)
        PROVE  LET k == o[1]  v == o[2]
                   f == ParseFilter(FilterHref(page.url.q, k, v)) IN
                 /\ Has(f, k, v) # Has(ParseFilter(page.url.q), k, v)
                 /\ Only(f, k, v) => ShowsCounted(f, page.of, k, v)
    <3>1. Pure(page.url.q) /\ Canonical(page.url.q)
      BY <2>2 DEF Kept, Linked
    <3>2. Offerable(o[1], o[2]) /\ o[1] \in Kinds /\ o[2] # Unset
      BY <2>2, OfferedIs
    <3>3. QED
      BY <2>1, <3>1, <3>2, HrefSwitches, LinkCounts
  <2>3. LET f == ParseFilter(ClearHref(page.url.q)) IN
          /\ Shown(f, page.of) = Len(page.of.services) + Len(page.of.items)
          /\ AttentionItems(page.of) \subseteq Range(RowsOf(f, page.of))
    BY <2>1, ClearShowsAll
  <2>4. QED
    BY <2>2, <2>3, Zenon DEF LinksDoAsSaid
<1>2. QED
  BY <1>1, AlwaysKept, PTL

(* A word that no filter knows shows no service, and no workload unless     *)
(* another filter asks for workloads.                                       *)
THEOREM TypoShowsNothingHolds == Spec => []TypoShowsNothing
<1>1. Kept => TypoShowsNothing
  BY DEF Kept
<1>2. QED
  BY <1>1, AlwaysKept, PTL

(* The cached rows change when a new snapshot is taken, and never because   *)
(* somebody's page was sorted or narrowed.                                  *)
THEOREM CacheUntouchedHolds == Spec => CacheUntouched
<1>1. Kept /\ [Next]_vars => [snap' # snap => UNCHANGED page /\ snap' \in Snapshots]_vars
  <2> SUFFICES ASSUME Kept, [Next]_vars, snap' # snap
               PROVE  UNCHANGED page /\ snap' \in Snapshots
    OBVIOUS
  <2>1. NewSnapshot
    BY PageLeavesCache DEF Next, vars, Follow, PickRefresh, Type, Reload
  <2>2. QED
    BY <2>1 DEF NewSnapshot
<1>2. QED
  BY <1>1, AlwaysKept, PTL DEF Spec, CacheUntouched
=============================================================================

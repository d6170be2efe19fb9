--------------------------- MODULE DecorateProofs ---------------------------
(***************************************************************************)
(* What holds of the rows however often they are decorated and with        *)
(* whatever lists, for any Applications, workloads, nodes and jobs.        *)
(*                                                                         *)
(* Each Fill function writes one or two fields of a row and reads the row  *)
(* itself, its list and nothing else, except FillOwned, which asks which   *)
(* row of a name comes last.  So the lemmas say, field by field, what one  *)
(* decoration makes of one row, and the theorems follow from those.        *)
(***************************************************************************)
EXTENDS Decorate, TLAPS

\* A row has the fields of domain.Service the Fill functions write.
Whole(row) ==
  /\ row = [owned |-> row.owned, tag |-> row.tag, gpu |-> row.gpu, alloc |-> row.alloc,
            arch |-> row.arch, ready |-> row.ready, jobs |-> row.jobs]
  /\ row.gpu \in BOOLEAN

Rows(rs) == rs = [i \in DOMAIN Apps |-> rs[i]] /\ \A i \in DOMAIN Apps : Whole(rs[i])

-----------------------------------------------------------------------------
(* One Fill function, one row.                                             *)

\* Rows with the same workloads get the same answers from a list.
LEMMA SameOwned ==
  ASSUME NEW a, NEW b, NEW l, NEW ns, a.owned = b.owned
  PROVE  /\ Known(a, l) = Known(b, l)
         /\ ImageOf(a, l) = ImageOf(b, l)
         /\ OnGPUOf(a, l, ns) = OnGPUOf(b, l, ns)
         /\ ArchesOf(a, l) = ArchesOf(b, l)
<1>1. Known(a, l) = Known(b, l)
  BY DEF Known
<1> QED
  BY <1>1 DEF ImageOf, OnGPUOf, ArchesOf

\* FillOwned gives workloads to a row that has none, and changes nothing else.
LEMMA OwnedRow ==
  ASSUME NEW rs, NEW i, Whole(rs[i]), NEW l
  PROVE  LET new == FillOwned(rs, i, l) IN
           /\ Whole(new) /\ new.tag = rs[i].tag /\ new.gpu = rs[i].gpu
           /\ new.alloc = rs[i].alloc /\ new.arch = rs[i].arch
           /\ \/ new.owned = rs[i].owned
              \/ OwnsNothing(rs, i) /\ new.owned = Labelled(i, l)
  BY DEF FillOwned, Whole

LEMMA VersionRow ==
  ASSUME NEW row, Whole(row), NEW l
  PROVE  LET new == FillVersions(row, l) IN
           /\ Whole(new) /\ new.owned = row.owned /\ new.gpu = row.gpu
           /\ new.alloc = row.alloc /\ new.arch = row.arch
           /\ new.tag = IF row.tag # NoTag \/ Known(row, l) = {} THEN row.tag ELSE ImageOf(row, l)
  BY DEF FillVersions, Whole

LEMMA GPURow ==
  ASSUME NEW row, Whole(row), NEW l, NEW ns
  PROVE  LET new == FillGPU(row, l, ns)  ws == OnGPUOf(row, l, ns) IN
           /\ Whole(new) /\ new.owned = row.owned /\ new.tag = row.tag /\ new.arch = row.arch
           /\ new.gpu = (row.gpu \/ ws # {}) /\ new.alloc = Alloc(ws, l, ns)
<1> DEFINE ws == OnGPUOf(row, l, ns)
<1>1. FillGPU(row, l, ns) = [row EXCEPT !.gpu = row.gpu \/ ws # {}, !.alloc = Alloc(ws, l, ns)]
  BY DEF FillGPU
<1> HIDE DEF ws
<1>2. FillGPU(row, l, ns) = [row EXCEPT !.gpu = row.gpu \/ ws # {}, !.alloc = Alloc(ws, l, ns)]
      => /\ Whole(FillGPU(row, l, ns)) /\ FillGPU(row, l, ns).owned = row.owned
         /\ FillGPU(row, l, ns).tag = row.tag /\ FillGPU(row, l, ns).arch = row.arch
         /\ FillGPU(row, l, ns).gpu = (row.gpu \/ ws # {})
         /\ FillGPU(row, l, ns).alloc = Alloc(ws, l, ns)
  BY DEF Whole
<1> QED
  BY <1>1, <1>2 DEF ws

LEMMA ArchRow ==
  ASSUME NEW row, Whole(row), NEW l, NEW ns
  PROVE  LET new == FillArch(row, l, ns) IN
           /\ Whole(new) /\ new.owned = row.owned /\ new.tag = row.tag
           /\ new.gpu = row.gpu /\ new.alloc = row.alloc
           /\ new.arch = IF ~ns THEN row.arch
                         ELSE IF row.gpu \/ Cardinality(ArchesOf(row, l)) # 1 THEN {}
                         ELSE ArchesOf(row, l)
<1>1. CASE ~ns
  BY <1>1 DEF FillArch
<1>2. CASE ns
  BY <1>2 DEF FillArch, Whole
<1> QED
  BY <1>1, <1>2

-----------------------------------------------------------------------------
(* One decoration, one row.                                                *)

\* What FillVersions, FillGPU and FillArch make of a row together.
LEMMA ListRow ==
  ASSUME NEW row, Whole(row), NEW l, NEW ns
  PROVE  LET new == FromList(row, l, ns)  ws == OnGPUOf(row, l, ns) IN
           /\ Whole(new) /\ new.owned = row.owned
           /\ new.tag = IF row.tag # NoTag \/ Known(row, l) = {} THEN row.tag ELSE ImageOf(row, l)
           /\ new.gpu = (row.gpu \/ ws # {}) /\ new.alloc = Alloc(ws, l, ns)
           /\ new.arch = IF ~ns THEN row.arch
                         ELSE IF new.gpu \/ Cardinality(ArchesOf(row, l)) # 1 THEN {}
                         ELSE ArchesOf(row, l)
<1> DEFINE V == FillVersions(row, l)
           G == FillGPU(V, l, ns)
           A == FillArch(G, l, ns)
<1>1. FromList(row, l, ns) = A
  BY DEF FromList
<1>2. /\ Whole(V) /\ V.owned = row.owned /\ V.gpu = row.gpu /\ V.arch = row.arch
      /\ V.tag = IF row.tag # NoTag \/ Known(row, l) = {} THEN row.tag ELSE ImageOf(row, l)
  BY VersionRow
<1> HIDE DEF V
<1>3. OnGPUOf(V, l, ns) = OnGPUOf(row, l, ns)
  BY <1>2, SameOwned
<1>4. /\ Whole(G) /\ G.owned = V.owned /\ G.tag = V.tag /\ G.arch = V.arch
      /\ G.gpu = (V.gpu \/ OnGPUOf(V, l, ns) # {}) /\ G.alloc = Alloc(OnGPUOf(V, l, ns), l, ns)
  BY <1>2, GPURow
<1> HIDE DEF G
<1>5. ArchesOf(G, l) = ArchesOf(row, l)
  BY <1>2, <1>4, SameOwned
<1>6. /\ Whole(A) /\ A.owned = G.owned /\ A.tag = G.tag /\ A.gpu = G.gpu /\ A.alloc = G.alloc
      /\ A.arch = IF ~ns THEN G.arch
                  ELSE IF G.gpu \/ Cardinality(ArchesOf(G, l)) # 1 THEN {} ELSE ArchesOf(G, l)
  BY <1>4, ArchRow
<1> HIDE DEF A
<1> QED
  BY <1>1, <1>2, <1>3, <1>4, <1>5, <1>6

\* What a row says after a page was made, in terms of the row before and of its
\* own workloads now.
Says(row, was, i, l, ns, js) ==
  /\ Whole(row)
  /\ row.ready = Readiness(Known(row, l), l) /\ row.jobs = Found(i, js)
  /\ l = NoList => /\ row.owned = was.owned /\ row.tag = was.tag /\ row.gpu = was.gpu
                   /\ row.alloc = was.alloc /\ row.arch = was.arch
  /\ l # NoList =>
       /\ row.tag = IF was.tag # NoTag \/ Known(row, l) = {} THEN was.tag ELSE ImageOf(row, l)
       /\ row.gpu = (was.gpu \/ OnGPUOf(row, l, ns) # {})
       /\ row.alloc = Alloc(OnGPUOf(row, l, ns), l, ns)
       /\ row.arch = IF ~ns THEN was.arch
                     ELSE IF row.gpu \/ Cardinality(ArchesOf(row, l)) # 1 THEN {}
                     ELSE ArchesOf(row, l)

\* FillReadiness and FillJobs, which every page ends with.
LEMMA LastRow ==
  ASSUME NEW row, Whole(row), NEW l, NEW found
  PROVE  LET new == [FillReadiness(row, l) EXCEPT !.jobs = found] IN
           /\ Whole(new) /\ new.owned = row.owned /\ new.tag = row.tag /\ new.gpu = row.gpu
           /\ new.alloc = row.alloc /\ new.arch = row.arch
           /\ new.ready = Readiness(Known(row, l), l) /\ new.jobs = found
<1> DEFINE R == FillReadiness(row, l)
<1>1. /\ Whole(R) /\ R.owned = row.owned /\ R.tag = row.tag /\ R.gpu = row.gpu
      /\ R.alloc = row.alloc /\ R.arch = row.arch /\ R.ready = Readiness(Known(row, l), l)
  BY DEF FillReadiness, Whole
<1> HIDE DEF R
<1>2. /\ Whole([R EXCEPT !.jobs = found]) /\ [R EXCEPT !.jobs = found].owned = R.owned
      /\ [R EXCEPT !.jobs = found].tag = R.tag /\ [R EXCEPT !.jobs = found].gpu = R.gpu
      /\ [R EXCEPT !.jobs = found].alloc = R.alloc /\ [R EXCEPT !.jobs = found].arch = R.arch
      /\ [R EXCEPT !.jobs = found].ready = R.ready /\ [R EXCEPT !.jobs = found].jobs = found
  BY <1>1 DEF Whole
<1> QED
  BY <1>1, <1>2 DEF R

LEMMA FilledRow ==
  ASSUME NEW rs, Rows(rs), NEW l, NEW ns, NEW js, NEW i \in DOMAIN Apps
  PROVE  LET row == Filled(rs, l, ns, js)[i] IN
           /\ Says(row, rs[i], i, l, ns, js)
           /\ row.owned = IF l = NoList THEN rs[i].owned ELSE FillOwned(rs, i, l).owned
<1> DEFINE O == IF l = NoList THEN rs[i] ELSE FillOwned(rs, i, l)
           A == IF l = NoList THEN rs[i] ELSE FromList(FillOwned(rs, i, l), l, ns)
           F == [FillReadiness(A, l) EXCEPT !.jobs = Found(i, js)]
<1>1. Filled(rs, l, ns, js)[i] = F
  BY DEF Filled, Rows
<1>2. Whole(rs[i])
  BY DEF Rows
<1>3. /\ Whole(O) /\ O.tag = rs[i].tag /\ O.gpu = rs[i].gpu
      /\ O.alloc = rs[i].alloc /\ O.arch = rs[i].arch
  BY <1>2, OwnedRow
<1>4. l = NoList => A = O
  OBVIOUS
<1>5. l # NoList =>
        /\ Whole(A) /\ A.owned = O.owned
        /\ A.tag = IF O.tag # NoTag \/ Known(O, l) = {} THEN O.tag ELSE ImageOf(O, l)
        /\ A.gpu = (O.gpu \/ OnGPUOf(O, l, ns) # {}) /\ A.alloc = Alloc(OnGPUOf(O, l, ns), l, ns)
        /\ A.arch = IF ~ns THEN O.arch
                    ELSE IF A.gpu \/ Cardinality(ArchesOf(O, l)) # 1 THEN {} ELSE ArchesOf(O, l)
  <2>1. l # NoList => A = FromList(O, l, ns)
    OBVIOUS
  <2> HIDE DEF A, O
  <2> QED
    BY <1>3, <2>1, ListRow
<1>6. O.owned = IF l = NoList THEN rs[i].owned ELSE FillOwned(rs, i, l).owned
  OBVIOUS
<1> HIDE DEF A, O
<1>7. Whole(A)
  BY <1>3, <1>4, <1>5
<1>8. /\ Whole(F) /\ F.owned = A.owned /\ F.tag = A.tag /\ F.gpu = A.gpu
      /\ F.alloc = A.alloc /\ F.arch = A.arch
      /\ F.ready = Readiness(Known(A, l), l) /\ F.jobs = Found(i, js)
  BY <1>7, LastRow
<1> HIDE DEF F
<1>9. /\ Known(O, l) = Known(F, l) /\ ImageOf(O, l) = ImageOf(F, l)
      /\ OnGPUOf(O, l, ns) = OnGPUOf(F, l, ns) /\ ArchesOf(O, l) = ArchesOf(F, l)
      /\ Known(A, l) = Known(F, l) /\ F.owned = O.owned
  BY <1>4, <1>5, <1>8, SameOwned
<1> QED
  BY <1>1, <1>3, <1>4, <1>5, <1>6, <1>8, <1>9 DEF Says

LEMMA FilledRows ==
  ASSUME NEW rs, Rows(rs), NEW l, NEW ns, NEW js
  PROVE  Rows(Filled(rs, l, ns, js))
<1> DEFINE F == Filled(rs, l, ns, js)
<1>1. F = [i \in DOMAIN Apps |-> F[i]]
  BY DEF Filled, Rows
<1>2. ASSUME NEW i \in DOMAIN Apps PROVE Whole(F[i])
  BY FilledRow DEF Says
<1> QED
  BY <1>1, <1>2 DEF Rows

\* A row that lost nothing of its own says the same when it is asked again.
LEMMA SaysAgain ==
  ASSUME NEW row, NEW was, NEW i, NEW l, NEW ns, NEW js, Says(row, was, i, l, ns, js)
  PROVE  Says(row, row, i, l, ns, js)
<1>1. l # NoList => row.tag = IF row.tag # NoTag \/ Known(row, l) = {} THEN row.tag
                              ELSE ImageOf(row, l)
  BY DEF Says
<1>2. l # NoList => row.gpu = (row.gpu \/ OnGPUOf(row, l, ns) # {})
  BY DEF Says, Whole
<1> QED
  BY <1>1, <1>2 DEF Says

-----------------------------------------------------------------------------
(* The rows of a snapshot, from its build to the next one.                 *)

\* Row i was left with nothing, and a row of its name was given the workloads
\* the labels name.
Beaten(rs, i, l) ==
  /\ OwnsNothing(rs, i)
  /\ \E j \in DOMAIN Apps \ {i} :
       /\ Apps[j].name = Apps[i].name /\ OwnsNothing(Built, j)
       /\ rs[j].owned = Labelled(i, l)

Believed(rs) == \A i \in DOMAIN Apps : ~OwnsNothing(Built, i) => rs[i].owned = Apps[i].owned

LEMMA BuiltRows == Rows(Built) /\ Believed(Built)
<1>1. ASSUME NEW i \in DOMAIN Apps
      PROVE  Whole(Built[i]) /\ Built[i].owned = Apps[i].owned
  BY DecorateAssumption DEF Built, Whole
<1>2. Built = [i \in DOMAIN Apps |-> Built[i]]
  BY DEF Built
<1> QED
  BY <1>1, <1>2 DEF Rows, Believed

\* FillOwned leaves a row that reports something alone.
LEMMA FilledBelieved ==
  ASSUME NEW rs, Rows(rs), Believed(rs), NEW l, NEW ns, NEW js
  PROVE  Believed(Filled(rs, l, ns, js))
<1> SUFFICES ASSUME NEW i \in DOMAIN Apps, ~OwnsNothing(Built, i)
             PROVE  Filled(rs, l, ns, js)[i].owned = rs[i].owned
  BY DEF Believed
<1>1. ~OwnsNothing(rs, i)
  <2>1. rs[i].owned = Apps[i].owned /\ Built[i].owned = Apps[i].owned
    BY DEF Believed, Built
  <2> QED
    BY <2>1 DEF OwnsNothing
<1>2. FillOwned(rs, i, l) = rs[i]
  BY <1>1 DEF FillOwned
<1> QED
  BY <1>2, FilledRow

\* A row FillOwned leaves with nothing is left so again, or the row it preferred
\* has been given what it asks for.
LEMMA OwnedAgain ==
  ASSUME NEW rs, Rows(rs), Believed(rs), NEW l, l # NoList, NEW ns, NEW js,
         NEW i \in DOMAIN Apps
  PROVE  LET all == Filled(rs, l, ns, js) IN
           FillOwned(all, i, l).owned = all[i].owned \/ Beaten(all, i, l)
<1> DEFINE all  == Filled(rs, l, ns, js)
           name == Apps[i].name
           last == Max(Missing(rs, name))
<1>1. \A k \in DOMAIN Apps : all[k].owned = FillOwned(rs, k, l).owned
  BY FilledRow
<1>2. Rows(all) /\ DOMAIN all = DOMAIN Apps /\ DOMAIN rs = DOMAIN Apps
  BY FilledRows DEF Rows
<1>3. \A k \in DOMAIN Apps : Whole(rs[k]) /\ Whole(all[k])
  BY <1>2 DEF Rows
<1>4. \A k \in DOMAIN Apps : Apps[k].name = name => Labelled(k, l) = Labelled(i, l)
  BY DEF Labelled
<1> HIDE DEF all
<1>5. ASSUME NEW k \in DOMAIN Apps, Apps[k].name = name
      PROVE  all[k].owned = IF OwnsNothing(rs, k) /\ k = last THEN Labelled(i, l) ELSE rs[k].owned
  <2>1. CASE OwnsNothing(rs, k) /\ k = last
    <3>1. FillOwned(rs, k, l) = [rs[k] EXCEPT !.owned = Labelled(k, l)]
      BY <1>5, <2>1 DEF FillOwned
    <3>2. [rs[k] EXCEPT !.owned = Labelled(k, l)].owned = Labelled(k, l)
      BY <1>3 DEF Whole
    <3> QED
      BY <1>1, <1>4, <1>5, <2>1, <3>1, <3>2
  <2>2. CASE ~(OwnsNothing(rs, k) /\ k = last)
    <3>1. FillOwned(rs, k, l) = rs[k]
      BY <1>5, <2>2 DEF FillOwned
    <3> QED
      BY <1>1, <2>2, <3>1
  <2> QED
    BY <2>1, <2>2
<1>6. CASE ~OwnsNothing(all, i)
  BY <1>6 DEF FillOwned, all
<1>7. CASE OwnsNothing(all, i) /\ i = last
  <2>1. FillOwned(all, i, l).owned \in {all[i].owned, Labelled(i, l)}
    BY <1>3 DEF FillOwned, Whole
  <2>2. OwnsNothing(rs, i) => Labelled(i, l) = all[i].owned
    BY <1>5, <1>7
  <2>3. OwnsNothing(rs, i)
    <3>1. all[i].owned = {} /\ Apps[i].jobs = {}
      BY <1>7 DEF OwnsNothing
    <3> QED
      BY <1>5, <3>1 DEF OwnsNothing
  <2> QED
    BY <2>1, <2>2, <2>3 DEF all
<1>8. CASE OwnsNothing(all, i) /\ i # last /\ last \in Missing(rs, name)
  <2>1. last \in DOMAIN Apps /\ Apps[last].name = name /\ OwnsNothing(rs, last)
    BY <1>2, <1>8 DEF Missing
  <2>2. OwnsNothing(Built, last)
    <3>1. Built[last].owned = Apps[last].owned
      BY <2>1 DEF Built
    <3> QED
      BY <2>1, <3>1 DEF OwnsNothing, Believed
  <2> HIDE DEF last
  <2>3. all[last].owned = Labelled(i, l)
    BY <1>5, <2>1
  <2> QED
    BY <1>8, <2>1, <2>2, <2>3 DEF Beaten, all
<1>9. CASE OwnsNothing(all, i) /\ i # last /\ last \notin Missing(rs, name)
  <2>1. ASSUME NEW k \in DOMAIN Apps, Apps[k].name = name PROVE all[k].owned = rs[k].owned
    <3>1. ~(OwnsNothing(rs, k) /\ k = last)
      BY <1>2, <1>9, <2>1 DEF Missing
    <3> HIDE DEF last
    <3> QED
      BY <1>5, <2>1, <3>1
  <2>2. Missing(all, name) = Missing(rs, name)
    BY <1>2, <2>1 DEF Missing, OwnsNothing
  <2>3. FillOwned(all, i, l) = all[i]
    BY <1>9, <2>2 DEF FillOwned
  <2> QED
    BY <2>3 DEF all
<1> QED
  BY <1>6, <1>7, <1>8, <1>9

\* Decorating twice with the same lists is decorating once, but for those rows.
LEMMA FilledTwice ==
  ASSUME NEW rs, Rows(rs), Believed(rs), NEW l, NEW ns, NEW js,
         NEW i \in DOMAIN Apps
  PROVE  LET all == Filled(rs, l, ns, js) IN
           Filled(all, l, ns, js)[i] = all[i] \/ Beaten(all, i, l)
<1> DEFINE all == Filled(rs, l, ns, js)
           again == Filled(all, l, ns, js)
<1>1. Rows(all) /\ Rows(again)
  BY FilledRows
<1>2. ASSUME again[i].owned = all[i].owned PROVE again[i] = all[i]
  <2>1. Says(all[i], all[i], i, l, ns, js)
    BY FilledRow, SaysAgain
  <2>2. Says(again[i], all[i], i, l, ns, js)
    BY <1>1, FilledRow
  <2> HIDE DEF all, again
  <2>3. /\ Known(again[i], l) = Known(all[i], l) /\ ImageOf(again[i], l) = ImageOf(all[i], l)
        /\ OnGPUOf(again[i], l, ns) = OnGPUOf(all[i], l, ns)
        /\ ArchesOf(again[i], l) = ArchesOf(all[i], l)
    BY <1>2, SameOwned
  <2>4. again[i].tag = all[i].tag /\ again[i].gpu = all[i].gpu /\ again[i].alloc = all[i].alloc
    BY <2>1, <2>2, <2>3 DEF Says
  <2>5. again[i].arch = all[i].arch /\ again[i].ready = all[i].ready /\ again[i].jobs = all[i].jobs
    BY <2>1, <2>2, <2>3, <2>4 DEF Says
  <2> QED
    BY <2>1, <2>2, <1>2, <2>4, <2>5 DEF Says, Whole
<1>3. again[i].owned = IF l = NoList THEN all[i].owned ELSE FillOwned(all, i, l).owned
  BY <1>1, FilledRow
<1> QED
  BY <1>2, <1>3, OwnedAgain

-----------------------------------------------------------------------------
(* The invariant.                                                          *)

Held ==
  /\ page.made \in BOOLEAN
  /\ list \in Lists \cup {NoList} /\ nodes \in BOOLEAN /\ jobs \in JobReads \cup {NoList}

\* Until a list is read only GPU_GLOBS marks a row: the tile counts those.
Unlisted == list = NoList => \A i \in DOMAIN Apps : rows[i].gpu = Built[i].gpu

Settled ==
  page.made => /\ page = Summary(rows, list, nodes)
               /\ \A i \in DOMAIN Apps : Says(rows[i], rows[i], i, list, nodes, jobs)

IInv == Rows(rows) /\ Believed(rows) /\ Held /\ Unlisted /\ Settled

LEMMA InitInv == Init => IInv
<1> SUFFICES ASSUME Init PROVE IInv
  OBVIOUS
<1>1. Rows(rows) /\ Believed(rows)
  BY BuiltRows DEF Init
<1>2. page.made = FALSE
  BY DEF Init, NoPage
<1> QED
  BY <1>1, <1>2 DEF Init, IInv, Held, Unlisted, Settled

LEMMA SummaryMade ==
  ASSUME NEW rs, NEW l, NEW ns PROVE Summary(rs, l, ns).made = TRUE
  BY DEF Summary, NoPage

LEMMA DecorateInv ==
  ASSUME IInv, NEW l \in Refreshed(list, Lists), NEW ns \in BOOLEAN,
         NEW js \in Refreshed(jobs, JobReads), DecorateWith(l, ns, js)
  PROVE  IInv'
<1>1. rows' = Filled(rows, l, ns, js) /\ list' = l /\ nodes' = ns /\ jobs' = js
      /\ page' = Summary(rows', l, ns)
  BY DEF DecorateWith
<1>2. Rows(rows) /\ Believed(rows)
  BY DEF IInv
<1>3. Rows(rows') /\ Believed(rows')
  BY <1>1, <1>2, FilledRows, FilledBelieved
<1>4. Held'
  BY <1>1, SummaryMade DEF IInv, Held, Refreshed
<1>5. Unlisted'
  <2> SUFFICES ASSUME l = NoList, NEW i \in DOMAIN Apps PROVE rows'[i].gpu = Built[i].gpu
    BY <1>1 DEF Unlisted
  <2>1. list = NoList
    BY DecorateAssumption DEF Refreshed
  <2>2. rows[i].gpu = Built[i].gpu
    BY <2>1 DEF IInv, Unlisted
  <2>3. Says(rows'[i], rows[i], i, l, ns, js)
    BY <1>1, <1>2, FilledRow
  <2> QED
    BY <2>2, <2>3 DEF Says
<1>6. Settled'
  <2>1. ASSUME NEW i \in DOMAIN Apps PROVE Says(rows'[i], rows'[i], i, l, ns, js)
    BY <1>1, <1>2, FilledRow, SaysAgain
  <2> QED
    BY <1>1, <2>1 DEF Settled
<1> QED
  BY <1>3, <1>4, <1>5, <1>6 DEF IInv

LEMMA NextInv == IInv /\ [Next]_vars => IInv'
<1> SUFFICES ASSUME IInv, [Next]_vars PROVE IInv'
  OBVIOUS
<1>1. CASE Rebuild
  <2>1. rows' = Built /\ page'.made = FALSE /\ UNCHANGED <<list, nodes, jobs>>
    BY <1>1 DEF Rebuild, NoPage
  <2> QED
    BY <2>1, BuiltRows DEF IInv, Held, Unlisted, Settled
<1>2. CASE \E l \in Refreshed(list, Lists), ns \in BOOLEAN, js \in Refreshed(jobs, JobReads) :
             DecorateWith(l, ns, js)
  BY <1>2, DecorateInv
<1>3. CASE UNCHANGED vars
  BY <1>3 DEF vars, IInv, Held, Unlisted, Settled
<1> QED
  BY <1>1, <1>2, <1>3 DEF Next

\* However often the rows of a snapshot are decorated, and with whatever lists,
\* they stay whole rows, their page is the one their lists make, and asking the
\* same lists again changes nothing but what FillOwned may give (internal/status:
\* Collector.decorate).
THEOREM Invariance == Spec => []IInv
  BY InitInv, NextInv, PTL DEF Spec

-----------------------------------------------------------------------------
(* The properties.                                                         *)

\* An Application that reports its own resources, or jobs, keeps exactly those,
\* whatever labels the workloads carry (owned.go: FillOwnedFromLabels).
THEOREM ReportsAreBelieved == Spec => []ReportIsBelieved
<1>1. IInv => ReportIsBelieved
  BY DEF IInv, Rows, Believed, ReportIsBelieved
<1> QED
  BY <1>1, Invariance, PTL

\* JobInfo.State looks at the active pods before the failed ones.
LEMMA FailedIsIdle ==
  ASSUME NEW j \in JobStatus, JobState(j) = "Failed" PROVE j.active = 0
  BY DEF JobStatus, JobState

\* No total outlives the list it was summed from, no job its list, and the GPU
\* tile is the number of marked rows (fillgpu.go, readiness.go, jobs.go).
THEOREM TotalsAreCurrent == Spec => []TotalsCurrent
<1>1. IInv => TotalsCurrent
  <2> SUFFICES ASSUME IInv, page.made PROVE TotalsCurrent
    BY DEF TotalsCurrent
  <2>1. DOMAIN rows = DOMAIN Apps /\ \A i \in DOMAIN Apps : Says(rows[i], rows[i], i, list, nodes, jobs)
    BY DEF IInv, Rows, Settled
  <2>2. page.gpu = Count(rows, IsGPU)
    <3>1. page = Summary(rows, list, nodes)
      BY DEF IInv, Settled
    <3>2. CASE list = NoList
      <4>1. {i \in DOMAIN Built : IsGPU(Built[i])} = {i \in DOMAIN rows : IsGPU(rows[i])}
        BY <2>1, <3>2 DEF IInv, Unlisted, IsGPU, Built
      <4> QED
        BY <3>1, <3>2, <4>1 DEF Summary, Count, NoPage
    <3>3. CASE list # NoList
      BY <3>1, <3>3 DEF Summary
    <3> QED
      BY <3>2, <3>3
  <2>3. ASSUME NEW i \in DOMAIN rows, NEW run \in rows[i].jobs
        PROVE  run[1] \in DOMAIN jobs /\ (run[2] = "Failed" => jobs[run[1]].active = 0)
    <3>1. rows[i].jobs = Found(i, jobs)
      BY <2>1 DEF Says
    <3>2. PICK j \in Apps[i].jobs \cap DOMAIN jobs : run = <<j, JobState(jobs[j])>>
      BY <3>1 DEF Found
    <3>3. jobs \in JobReads
      BY <2>1, <3>2, DecorateAssumption DEF IInv, Held
    <3>4. jobs[j] \in JobStatus
      BY <3>2, <3>3, DecorateAssumption
    <3> QED
      BY <3>2, <3>4, FailedIsIdle
  <2>4. ASSUME list # NoList, NEW i \in DOMAIN rows
        PROVE  /\ rows[i].alloc.desired = DesiredOf(OnGPUOf(rows[i], list, nodes), list)
               /\ rows[i].ready.desired = DesiredOf(Known(rows[i], list), list)
    <3>1. /\ rows[i].alloc = Alloc(OnGPUOf(rows[i], list, nodes), list, nodes)
          /\ rows[i].ready = Readiness(Known(rows[i], list), list)
      BY <2>1, <2>4 DEF Says
    <3> QED
      BY <3>1 DEF Alloc, Readiness
  <2> QED
    BY <2>2, <2>3, <2>4 DEF TotalsCurrent
<1> QED
  BY <1>1, Invariance, PTL

\* Between two refreshes no page takes a workload or a version away from a
\* service that has it (owned.go, fillversion.go).
THEOREM FindingsAreKept == Spec => FoundIsKept
<1> DEFINE Kept == page'.made => \A i \in DOMAIN rows :
                     /\ rows[i].owned \subseteq rows'[i].owned
                     /\ rows[i].tag # NoTag => rows'[i].tag = rows[i].tag
<1>1. IInv /\ [Next]_vars => [Kept]_vars
  <2> SUFFICES ASSUME IInv, Next PROVE Kept
    OBVIOUS
  <2>1. CASE Rebuild
    BY <2>1 DEF Rebuild, NoPage
  <2>2. ASSUME NEW l \in Refreshed(list, Lists), NEW ns \in BOOLEAN,
               NEW js \in Refreshed(jobs, JobReads), DecorateWith(l, ns, js), NEW i \in DOMAIN rows
        PROVE  /\ rows[i].owned \subseteq rows'[i].owned
               /\ rows[i].tag # NoTag => rows'[i].tag = rows[i].tag
    <3>1. rows' = Filled(rows, l, ns, js) /\ Rows(rows) /\ i \in DOMAIN Apps
      BY <2>2 DEF DecorateWith, IInv, Rows
    <3>2. /\ Says(rows'[i], rows[i], i, l, ns, js)
          /\ rows'[i].owned = IF l = NoList THEN rows[i].owned ELSE FillOwned(rows, i, l).owned
      BY <3>1, FilledRow
    <3>3. rows[i].owned \subseteq FillOwned(rows, i, l).owned
      BY <3>1, OwnedRow DEF Rows, OwnsNothing
    <3> QED
      BY <3>2, <3>3 DEF Says
  <2> QED
    BY <2>1, <2>2 DEF Next
<1> QED
  BY <1>1, Invariance, PTL DEF Spec, FoundIsKept

\* Whatever the rows are called and whatever they were decorated with before,
\* making a page again from the same lists changes no row but one whose
\* workloads went to another row of its name (pending.go: "a cached snapshot can
\* be decorated more than once"; owned.go: FillOwnedFromLabels).
THEOREM OnlyTwinsAreUnsettled == Spec => []OnlyTwinsUnsettled
<1> DEFINE Again(i) == Filled(rows, list, nodes, jobs)[i] = rows[i] \/ Beaten(rows, i, list)
           Twice == /\ IInv
                    /\ page.made => \A i \in DOMAIN Apps : Again(i)
<1>1. Init => Twice
  BY InitInv DEF Init, NoPage
<1>2. Twice /\ [Next]_vars => Twice'
  <2> SUFFICES ASSUME Twice, [Next]_vars PROVE (page.made => \A i \in DOMAIN Apps : Again(i))'
    BY NextInv
  <2>1. CASE Rebuild
    BY <2>1 DEF Rebuild, NoPage
  <2>2. ASSUME NEW l \in Refreshed(list, Lists), NEW ns \in BOOLEAN,
               NEW js \in Refreshed(jobs, JobReads), DecorateWith(l, ns, js), NEW i \in DOMAIN Apps
        PROVE  Filled(rows', list', nodes', jobs')[i] = rows'[i] \/ Beaten(rows', i, list')
    BY <2>2, FilledTwice DEF DecorateWith, IInv
  <2>3. CASE UNCHANGED vars
    BY <2>3 DEF vars, Beaten, OwnsNothing
  <2> QED
    BY <2>1, <2>2, <2>3 DEF Next, Beaten, OwnsNothing
<1>3. Twice => OnlyTwinsUnsettled
  <2> SUFFICES ASSUME Twice, page.made PROVE OnlyTwinsUnsettled
    BY DEF OnlyTwinsUnsettled
  <2>1. DOMAIN rows = DOMAIN Apps
    BY DEF IInv, Rows
  <2> QED
    BY <2>1 DEF Beaten, OnlyTwinsUnsettled
<1> QED
  BY <1>1, <1>2, <1>3, PTL DEF Spec
=============================================================================

--------------------------- MODULE ListReadsProofs ---------------------------
(***************************************************************************)
(* For every cluster, every set of HelmReleases, every order in which the  *)
(* kinds answer or fail, any number of pods, any page size and any page    *)
(* cap: what is kept of a read that takes several requests is the whole of *)
(* what was asked for, or says which part of it is missing.                *)
(*                                                                         *)
(* The two reads share no variable that either changes, so each has an     *)
(* invariant of its own, and a step of one leaves that of the other alone. *)
(***************************************************************************)
EXTENDS ListReads, FiniteSetTheorems, FunctionTheorems, WellFoundedInduction, TLAPS

(* The joined read: one request per kind.                                  *)

Settled == ~calling => inflight = {} /\ answered = {} /\ errs = <<>>

\* Whatever is asked for is under way, answered or has failed; and between
\* calls nothing is left of the last one.
Joining ==
  /\ what \in Reads
  /\ inflight \subseteq Read!All /\ answered \subseteq Read!All /\ DOMAIN errs \subseteq Read!All
  /\ calling => inflight \cup answered \cup DOMAIN errs = Read!All
  /\ Settled
  /\ Read!KeptIsHonest

JoinedVars == <<what, calling, expired, inflight, answered, errs, kept>>

LEMMA JoiningInit == ASSUME Read!Init PROVE Joining
BY DEF Read!Init, Joining, Settled, Read!KeptIsHonest, Read!Nothing

LEMMA JoiningUnchanged == ASSUME Joining, UNCHANGED JoinedVars PROVE Joining'
BY DEF Joining, JoinedVars, Read!All, Settled, Read!KeptIsHonest

LEMMA CallStep == ASSUME Joining, Read!Call PROVE Joining'
<1>1. /\ UNCHANGED <<what, kept>> /\ calling' = TRUE
      /\ inflight' = Read!All /\ answered' = {} /\ errs' = <<>>
  BY DEF Read!Call
<1>2. DOMAIN errs' = {} /\ Read!All' = Read!All
  BY <1>1 DEF Read!All
<1>3. QED
  BY <1>1, <1>2 DEF Joining, Settled, Read!KeptIsHonest

LEMMA DeadlineStep == ASSUME Joining, Read!Deadline PROVE Joining'
BY DEF Joining, Read!Deadline, Read!All, Settled, Read!KeptIsHonest

\* A kind that leaves inflight leaves an answer or an error.
LEMMA FinishStep ==
  ASSUME Joining, NEW k \in Read!All, Read!Read(k)
  PROVE  Joining'
<1>1. UNCHANGED <<what, calling, kept>> /\ inflight' = inflight \ {k} /\ k \in inflight
  BY DEF Read!Read, Read!Answered, Read!Failed, Read!Finish
<1>2. Read!All' = Read!All
  BY <1>1 DEF Read!All
<1>3. answered' \cup DOMAIN errs' = (answered \cup DOMAIN errs) \cup {k}
  <2>1. CASE Read!Answered(k)
    BY <2>1 DEF Read!Answered
  <2>2. ASSUME NEW e, Read!Failed(k, e) PROVE answered' \cup DOMAIN errs' = (answered \cup DOMAIN errs) \cup {k}
    BY <2>2 DEF Read!Failed, Read!Put
  <2>3. QED
    BY <2>1, <2>2 DEF Read!Read
<1>4. calling
  BY <1>1 DEF Joining, Settled
<1>5. QED
  BY <1>1, <1>2, <1>3, <1>4 DEF Joining, Settled, Read!KeptIsHonest

LEMMA JoinStep == ASSUME Joining, Read!Return PROVE Joining'
<1>1. /\ calling /\ inflight = {} /\ calling' = FALSE /\ answered' = {} /\ errs' = <<>>
      /\ UNCHANGED <<what, inflight>>
      /\ kept' = IF Read!Keeps THEN Read!Joined ELSE kept
  BY DEF Read!Return
<1>2. DOMAIN errs' = {} /\ Read!All' = Read!All
  BY <1>1 DEF Read!All
<1>3. Read!KeptIsHonest'
  <2>1. CASE ~Read!Keeps
    BY <1>1, <1>2, <2>1 DEF Joining, Read!KeptIsHonest
  <2>2. CASE Read!Keeps
    <3>1. kept' = [known |-> TRUE, kinds |-> answered, errs |-> errs]
      BY <1>1, <2>2 DEF Read!Joined
    <3>2. kept'.kinds = answered /\ kept'.errs = errs
      BY <3>1
    <3>3. answered \cup DOMAIN errs = Read!All
      BY <1>1 DEF Joining
    <3>4. what \in {"workloads", "jobs", "flux"}
      BY ReadsAssumption DEF Joining
    <3>5. what = "workloads" => ~Read!Abandoned
      BY <2>2 DEF Read!Keeps
    <3>6. what = "jobs" => errs = <<>>
      BY <2>2 DEF Read!Keeps
    <3>7. what # "flux" => \A k \in DOMAIN errs : errs[k] # "cut"
      BY <3>4, <3>5, <3>6 DEF Read!Abandoned
    <3>8. what = "jobs" => answered = Read!All
      <4>1. errs = <<>> => DOMAIN errs = {}
        OBVIOUS
      <4>2. QED
        BY <3>3, <3>6, <4>1
    <3>9. QED
      BY <1>1, <1>2, <3>2, <3>3, <3>7, <3>8 DEF Read!KeptIsHonest
  <2>3. QED
    BY <2>1, <2>2
<1>4. QED
  BY <1>1, <1>2, <1>3 DEF Joining, Settled

-----------------------------------------------------------------------------
(* The rows that are made of it: BuildUnmanaged.                           *)

Release == (Nat \ {None}) \X (Nat \ {None})

Version == {"mixed"} \cup STRING

RowType ==
  [ns : Nat \ {None}, name : Nat \ {None}, release : Release \cup {NoRelease},
   members : Nat, ready : Nat, desired : Nat, state : DOMAIN Severity,
   version : Version, app : STRING]

\* Every variable the rows are made of has its type.
TypeOK ==
  /\ stage \in {"reading", "scan", "collapse", "sort", "done"}
  /\ list \subseteq Workload /\ flux \subseteq HelmRelease
  /\ todo \subseteq list
  /\ items \in Seq(RowType) /\ out \in Seq(RowType)

\* The release of a selected row is in its namespace and not one of Flux's.
Judged(row) ==
  row.release # NoRelease => row.release[1] = row.ns /\ row.release \notin FluxReleaseKeys

\* A folded row also carries the name of its release.
Named(row) == row.release # NoRelease => row.name = row.release[2]

RowsJudged ==
  /\ \A i \in DOMAIN items : Judged(items[i])
  /\ \A i \in DOMAIN out : Judged(out[i]) /\ Named(out[i])

\* The row shows this workload, alone or as a member of its release.
Shows(row, w) ==
  /\ row.release = ReleaseOf(w) /\ row.ns = w.ns
  /\ row.release = NoRelease => row.name = w.name
  /\ w.ready < w.desired => row.state = "DEGRADED"

Belongs(w) == IsUnmanaged(w) /\ w.ns \notin IgnoredNS

\* A workload that belongs in the section is waiting to be scanned, has been
\* selected, or is shown.
Listed(w) ==
  \/ w \in todo
  \/ \E i \in DOMAIN items : Shows(items[i], w)
  \/ \E i \in DOMAIN out : Shows(out[i], w)

AllListed ==
  /\ \A w \in list : Belongs(w) => Listed(w)
  /\ stage \in {"reading", "collapse", "sort", "done"} => todo = {}
  /\ stage \in {"reading", "sort", "done"} => items = <<>>

\* A release has one row, and a row is only DEGRADED for one of its members.
Founder(r, w) == w \in list /\ Belongs(w) /\ ReleaseOf(w) = r /\ w.ready < w.desired

ForAReason(row) ==
  row.release # NoRelease /\ row.state = "DEGRADED" => \E w : Founder(row.release, w)

Folded ==
  /\ \A i, j \in DOMAIN out : out[i].release = out[j].release /\ out[i].release # NoRelease => i = j
  /\ \A i \in DOMAIN items : ForAReason(items[i])
  /\ \A i \in DOMAIN out : ForAReason(out[i])

RowsInv == TypeOK /\ RowsJudged /\ AllListed /\ Folded

-----------------------------------------------------------------------------
\* isUnmanaged lets a workload through only if its release is not Flux's.
LEMMA SelectedRow ==
  ASSUME NEW w \in Workload, IsUnmanaged(w)
  PROVE  Row(w) \in RowType /\ Judged(Row(w))
<1>1. w.ns \in Nat \ {None} /\ w.name \in Nat \ {None} /\ w.instance \in Nat
      /\ w.ready \in Nat /\ w.desired \in Nat /\ w.tag \in STRING /\ w.app \in STRING
  BY DEF Workload
<1>2. ReleaseOf(w) \in Release \cup {NoRelease}
  BY <1>1 DEF ReleaseOf, Release
<1>3. WorkloadState(w) \in DOMAIN Severity
  BY DEF WorkloadState, Severity
<1>4. Row(w) \in RowType
  <2>1. w.tag \in Version
    BY <1>1 DEF Version
  <2>2. QED
    BY <1>1, <1>2, <1>3, <2>1 DEF Row, RowType
<1>5. ReleaseOf(w) # NoRelease => ReleaseOf(w)[1] = w.ns /\ ReleaseOf(w) \notin FluxReleaseKeys
  BY DEF ReleaseOf, IsUnmanaged
<1>6. QED
  BY <1>4, <1>5 DEF Row, Judged

\* The first member of a release founds a row under the release's name.
LEMMA FoundedRow ==
  ASSUME NEW row \in RowType, Judged(row)
  PROVE  Founded(row) \in RowType /\ Judged(Founded(row)) /\ Named(Founded(row))
<1>1. CASE row.release = NoRelease
  BY <1>1 DEF Founded, Judged, Named
<1>2. CASE row.release # NoRelease
  <2>1. row.release \in Release
    BY <1>2 DEF RowType
  <2>2. row.release[2] \in Nat \ {None}
    BY <2>1 DEF Release
  <2>3. Founded(row) \in RowType
    <3>1. (IF row.app # "" THEN row.app ELSE row.version) \in Version
      BY DEF RowType, Version
    <3>2. Founded(row) = [row EXCEPT !.name = row.release[2],
                                     !.version = IF row.app # "" THEN row.app ELSE row.version]
      BY <1>2 DEF Founded, RowType
    <3>3. QED
      BY <2>2, <3>1, <3>2 DEF RowType
  <2>4. Founded(row).release = row.release /\ Founded(row).ns = row.ns
        /\ Founded(row).name = row.release[2]
    BY <1>2 DEF Founded, RowType
  <2>5. QED
    BY <2>3, <2>4 DEF Judged, Named
<1>3. QED
  BY <1>1, <1>2

\* A further member changes neither the release of a row nor its place.
LEMMA JoinedRow ==
  ASSUME NEW g \in RowType, NEW row \in RowType, Judged(g), Named(g)
  PROVE  Joined(g, row) \in RowType /\ Judged(Joined(g, row)) /\ Named(Joined(g, row))
<1>1. Worse(row.state, g.state) \in DOMAIN Severity
  BY DEF Worse, RowType
<1>2. Joined(g, row) \in RowType
  <2>1. g.members + 1 \in Nat /\ g.ready + row.ready \in Nat /\ g.desired + row.desired \in Nat
    BY DEF RowType
  <2>2. (IF g.app = "" /\ g.version # row.version THEN "mixed" ELSE g.version) \in Version
    BY DEF RowType, Version
  <2>3. Joined(g, row) =
          [g EXCEPT !.members = g.members + 1, !.ready = g.ready + row.ready,
                    !.desired = g.desired + row.desired, !.state = Worse(row.state, g.state),
                    !.version = IF g.app = "" /\ g.version # row.version THEN "mixed" ELSE g.version]
    BY DEF Joined, RowType
  <2>4. QED
    BY <1>1, <2>1, <2>2, <2>3 DEF RowType
<1>3. Joined(g, row).release = g.release /\ Joined(g, row).ns = g.ns /\ Joined(g, row).name = g.name
  BY DEF Joined, RowType
<1>4. QED
  BY <1>2, <1>3 DEF Judged, Named

-----------------------------------------------------------------------------
\* One turn of the scan selects at most one row, and judges it.
LEMMA ScanStep ==
  ASSUME TypeOK, RowsJudged, NEW w \in list, Scan(w)
  PROVE  TypeOK' /\ RowsJudged'
<1>1. UNCHANGED <<list, flux, out>> /\ todo' \subseteq list /\ stage' \in {"scan", "collapse"}
  BY DEF Scan, TypeOK
<1>2. FluxReleaseKeys' = FluxReleaseKeys
  BY <1>1 DEF FluxReleaseKeys, ReleaseKey
<1>3. CASE IsUnmanaged(w) /\ w.ns \notin IgnoredNS
  <2>1. w \in Workload
    BY DEF TypeOK
  <2>2. Row(w) \in RowType /\ Judged(Row(w))
    BY <1>3, <2>1, SelectedRow
  <2>3. items' = Append(items, Row(w)) /\ items' \in Seq(RowType)
    BY <1>3, <2>2 DEF Scan, TypeOK
  <2>4. \A i \in DOMAIN items' : Judged(items'[i])
    BY <2>2, <2>3 DEF TypeOK, RowsJudged
  <2>5. QED
    BY <1>1, <1>2, <2>3, <2>4 DEF TypeOK, RowsJudged, Judged, Named
<1>4. CASE ~(IsUnmanaged(w) /\ w.ns \notin IgnoredNS)
  <2>1. items' = items
    BY <1>4 DEF Scan
  <2>2. QED
    BY <1>1, <1>2, <2>1 DEF TypeOK, RowsJudged, Judged, Named
<1>5. QED
  BY <1>3, <1>4

\* One turn of collapseReleases takes a judged row into the section.
LEMMA CollapseStep ==
  ASSUME TypeOK, RowsJudged, Collapse
  PROVE  TypeOK' /\ RowsJudged'
<1>1. UNCHANGED <<list, flux, todo>> /\ stage' \in {"collapse", "sort"}
  BY DEF Collapse
<1>2. FluxReleaseKeys' = FluxReleaseKeys
  BY <1>1 DEF FluxReleaseKeys, ReleaseKey
<1>3. CASE items = <<>>
  BY <1>1, <1>2, <1>3 DEF Collapse, TypeOK, RowsJudged, Judged, Named
<1>4. CASE items # <<>>
  <2> DEFINE row == Head(items)
  <2>1. row \in RowType /\ Judged(row)
    BY <1>4 DEF TypeOK, RowsJudged
  <2>2. items' = Tail(items) /\ items' \in Seq(RowType)
    <3>1. items' = Tail(items)
      BY <1>4 DEF Collapse
    <3>2. items \in Seq(RowType)
      BY DEF TypeOK
    <3>3. QED
      BY <1>4, <3>1, <3>2
  <2>3. \A i \in DOMAIN items' : Judged(items'[i])
    BY <1>4, <2>2 DEF TypeOK, RowsJudged
  <2>4. out' \in Seq(RowType) /\ \A i \in DOMAIN out' : Judged(out'[i]) /\ Named(out'[i])
    <3>1. CASE At(row.release) = {}
      <4>1. out' = Append(out, Founded(row))
        BY <1>4, <3>1 DEF Collapse
      <4>2. Founded(row) \in RowType /\ Judged(Founded(row)) /\ Named(Founded(row))
        BY <2>1, FoundedRow
      <4>3. QED
        BY <4>1, <4>2 DEF TypeOK, RowsJudged
    <3>2. CASE At(row.release) # {}
      <4>1. PICK i \in At(row.release) : out' = [out EXCEPT ![i] = Joined(out[i], row)]
        BY <1>4, <3>2 DEF Collapse
      <4>2. i \in DOMAIN out
        BY <4>1 DEF At
      <4>3. Joined(out[i], row) \in RowType /\ Judged(Joined(out[i], row))
            /\ Named(Joined(out[i], row))
        BY <2>1, <4>2, JoinedRow DEF TypeOK, RowsJudged
      <4>4. QED
        BY <4>1, <4>2, <4>3 DEF TypeOK, RowsJudged
    <3>3. QED
      BY <3>1, <3>2
  <2>5. QED
    BY <1>1, <1>2, <2>2, <2>3, <2>4 DEF TypeOK, RowsJudged, Judged, Named
<1>5. QED
  BY <1>3, <1>4

\* Sorting moves rows and changes none.
LEMMA SortStep ==
  ASSUME TypeOK, RowsJudged, Sort
  PROVE  TypeOK' /\ RowsJudged'
<1>1. UNCHANGED <<list, flux, todo, items>> /\ stage' = "done"
  BY DEF Sort
<1>2. FluxReleaseKeys' = FluxReleaseKeys
  BY <1>1 DEF FluxReleaseKeys, ReleaseKey
<1>3. PICK p \in Bijection(DOMAIN out, DOMAIN out) : out' = [i \in DOMAIN out |-> out[p[i]]]
  BY DEF Sort
<1>4. \A i \in DOMAIN out : p[i] \in DOMAIN out
  BY <1>3 DEF Bijection, Injection, Surjection, IsInjective
<1>5. out' \in Seq(RowType)
  <2>1. out \in Seq(RowType) /\ DOMAIN out = 1..Len(out) /\ Len(out) \in Nat
    BY DEF TypeOK
  <2>2. \A i \in 1..Len(out) : out[p[i]] \in RowType
    BY <1>4, <2>1
  <2>3. QED
    BY <1>3, <2>1, <2>2
<1>6. \A i \in DOMAIN out' : Judged(out'[i]) /\ Named(out'[i])
  BY <1>3, <1>4 DEF RowsJudged
<1>7. QED
  BY <1>1, <1>2, <1>5, <1>6 DEF TypeOK, RowsJudged, Judged, Named

-----------------------------------------------------------------------------
(* What the rows show survives their folding.                              *)

LEMMA WorseIs ==
  ASSUME NEW a \in DOMAIN Severity, NEW b \in DOMAIN Severity
  PROVE  Worse(a, b) = "DEGRADED" <=> a = "DEGRADED" \/ b = "DEGRADED"
BY DEF Worse, Severity

LEMMA SelectedShows ==
  ASSUME NEW w \in Workload
  PROVE  /\ Shows(Row(w), w) /\ Row(w).release = ReleaseOf(w)
         /\ Row(w).state = "DEGRADED" <=> w.ready < w.desired
<1>1. w.ready \in Nat /\ w.desired \in Nat
  BY DEF Workload
<1>2. WorkloadState(w) = "DEGRADED" <=> w.ready < w.desired
  BY <1>1 DEF WorkloadState
<1>3. QED
  BY <1>2 DEF Row, Shows

LEMMA FoundedShows ==
  ASSUME NEW row \in RowType
  PROVE  /\ \A w : Shows(row, w) => Shows(Founded(row), w)
         /\ Founded(row).release = row.release
         /\ ForAReason(row) => ForAReason(Founded(row))
<1>1. /\ Founded(row).release = row.release /\ Founded(row).ns = row.ns
      /\ Founded(row).state = row.state
      /\ row.release = NoRelease => Founded(row) = row
  BY DEF Founded, RowType
<1>2. QED
  BY <1>1 DEF Shows, ForAReason

LEMMA JoinedShows ==
  ASSUME NEW g \in RowType, NEW row \in RowType, Judged(g), Judged(row),
         g.release = row.release, g.release # NoRelease
  PROVE  /\ \A w : Shows(g, w) \/ Shows(row, w) => Shows(Joined(g, row), w)
         /\ Joined(g, row).release = g.release
         /\ ForAReason(g) /\ ForAReason(row) => ForAReason(Joined(g, row))
<1>1. g.ns = row.ns
  BY DEF Judged
<1>2. /\ Joined(g, row).release = g.release /\ Joined(g, row).ns = g.ns
      /\ Joined(g, row).state = Worse(row.state, g.state)
  BY DEF Joined, RowType
<1>3. Joined(g, row).state = "DEGRADED" <=> g.state = "DEGRADED" \/ row.state = "DEGRADED"
  <2>1. g.state \in DOMAIN Severity /\ row.state \in DOMAIN Severity
    BY DEF RowType
  <2>2. QED
    BY <1>2, <2>1, WorseIs
<1>4. QED
  BY <1>1, <1>2, <1>3 DEF Shows, ForAReason

-----------------------------------------------------------------------------
\* What a workload is judged by does not change while the rows are made.
LEMMA SameJudgement ==
  ASSUME UNCHANGED <<list, flux>>
  PROVE  /\ FluxReleaseKeys' = FluxReleaseKeys
         /\ \A w : Belongs(w)' <=> Belongs(w)
         /\ \A r, w : Founder(r, w)' <=> Founder(r, w)
         /\ \A row : ForAReason(row)' <=> ForAReason(row)
<1>1. FluxReleaseKeys' = FluxReleaseKeys
  BY DEF FluxReleaseKeys, ReleaseKey
<1>2. \A w : Belongs(w)' <=> Belongs(w)
  BY <1>1 DEF Belongs, IsUnmanaged
<1>3. \A r, w : Founder(r, w)' <=> Founder(r, w)
  BY <1>2 DEF Founder
<1>4. QED
  BY <1>1, <1>2, <1>3 DEF ForAReason

LEMMA ScanKeeps ==
  ASSUME RowsInv, NEW w \in list, Scan(w)
  PROVE  RowsInv'
<1>1. TypeOK' /\ RowsJudged'
  BY ScanStep DEF RowsInv
<1>2. /\ UNCHANGED <<list, flux, out>> /\ todo' = todo \ {w}
      /\ stage' = (IF todo' = {} THEN "collapse" ELSE "scan")
      /\ items' = IF Belongs(w) THEN Append(items, Row(w)) ELSE items
  BY DEF Scan, Belongs
<1>3. w \in Workload /\ items \in Seq(RowType)
  BY DEF RowsInv, TypeOK
<1>4. /\ \A i \in DOMAIN items : i \in DOMAIN items' /\ items'[i] = items[i]
      /\ Belongs(w) => \E i \in DOMAIN items' : items'[i] = Row(w)
      /\ \A i \in DOMAIN items' : i \in DOMAIN items \/ (Belongs(w) /\ items'[i] = Row(w))
  <2>1. CASE Belongs(w)
    <3>1. Row(w) \in RowType
      BY <1>3, <2>1, SelectedRow DEF Belongs
    <3>2. items' = Append(items, Row(w))
      BY <1>2, <2>1
    <3>3. Len(items) + 1 \in DOMAIN items' /\ items'[Len(items) + 1] = Row(w)
      BY <1>3, <3>1, <3>2
    <3>4. QED
      BY <1>3, <2>1, <3>1, <3>2, <3>3
  <2>2. CASE ~Belongs(w)
    BY <1>2, <2>2
  <2>3. QED
    BY <2>1, <2>2
<1>5. AllListed'
  <2>1. ASSUME NEW v \in list, Belongs(v) PROVE Listed(v)'
    <3>1. Listed(v)
      BY <2>1 DEF RowsInv, AllListed
    <3>2. CASE v = w
      BY <1>3, <1>4, <2>1, <3>2, SelectedShows DEF Listed
    <3>3. CASE v # w
      BY <1>2, <1>4, <3>1, <3>3 DEF Listed
    <3>4. QED
      BY <3>2, <3>3
  <2>2. QED
    BY <1>2, <2>1, SameJudgement DEF AllListed
<1>6. ForAReason(Row(w)) \/ ~Belongs(w)
  BY <1>3, SelectedShows DEF ForAReason, Founder
<1>7. Folded'
  <2>1. \A i \in DOMAIN items' : ForAReason(items'[i])
    BY <1>4, <1>6 DEF RowsInv, Folded
  <2>2. QED
    BY <1>2, <2>1, SameJudgement DEF RowsInv, Folded
<1>8. QED
  BY <1>1, <1>5, <1>7 DEF RowsInv

LEMMA CollapseKeeps ==
  ASSUME RowsInv, Collapse
  PROVE  RowsInv'
<1>1. TypeOK' /\ RowsJudged'
  BY CollapseStep DEF RowsInv
<1>2. UNCHANGED <<list, flux, todo>> /\ stage = "collapse"
  BY DEF Collapse
<1>3. CASE items = <<>>
  <2>1. items' = items /\ out' = out
    BY <1>3 DEF Collapse
  <2>2. AllListed' /\ Folded'
    BY <1>2, <1>3, <2>1, SameJudgement DEF RowsInv, AllListed, Listed, Folded
  <2>3. QED
    BY <1>1, <2>2 DEF RowsInv
<1>4. CASE items # <<>>
  <2> DEFINE row == Head(items)
  <2>1. items \in Seq(RowType) /\ row \in RowType /\ Judged(row) /\ ForAReason(row)
    BY <1>4 DEF RowsInv, TypeOK, RowsJudged, Folded
  <2>2. items' = Tail(items) /\ stage' = "collapse"
    BY <1>2, <1>4 DEF Collapse
  <2>3. /\ \A i \in DOMAIN items : items[i] = row \/ \E j \in DOMAIN items' : items'[j] = items[i]
        /\ \A j \in DOMAIN items' : \E i \in DOMAIN items : items'[j] = items[i]
    <3>1. /\ \A i \in DOMAIN items : i = 1 \/ (i - 1 \in DOMAIN items' /\ items'[i - 1] = items[i])
          /\ \A j \in DOMAIN items' : j + 1 \in DOMAIN items /\ items'[j] = items[j + 1]
      BY <1>4, <2>1, <2>2
    <3>2. row = items[1]
      BY <1>4, <2>1
    <3> HIDE DEF row
    <3>3. QED
      BY <3>1, <3>2
  <2> HIDE DEF row
  <2>4. /\ \A w : Shows(row, w) => \E i \in DOMAIN out' : Shows(out'[i], w)
        /\ \A i \in DOMAIN out : i \in DOMAIN out' /\ \A w : Shows(out[i], w) => Shows(out'[i], w)
        /\ \A i \in DOMAIN out' : ForAReason(out'[i])
        /\ \A i, j \in DOMAIN out' :
             out'[i].release = out'[j].release /\ out'[i].release # NoRelease => i = j
    <3>1. out \in Seq(RowType) /\ \A i \in DOMAIN out : out[i] \in RowType
      BY DEF RowsInv, TypeOK
    <3>2. CASE At(row.release) = {}
      <4> DEFINE new == Founded(row)
      <4>1. out' = Append(out, new)
        BY <1>4, <3>2 DEF Collapse, row
      <4>2. /\ \A w : Shows(row, w) => Shows(new, w)
            /\ new.release = row.release /\ ForAReason(new)
        BY <2>1, FoundedShows
      <4>3. row.release # NoRelease => \A i \in DOMAIN out : out[i].release # row.release
        BY <3>2 DEF At
      <4>4. new \in RowType
        BY <2>1, FoundedRow
      <4> HIDE DEF new
      <4>5. /\ \A i \in DOMAIN out : i \in DOMAIN out' /\ out'[i] = out[i]
            /\ Len(out) + 1 \in DOMAIN out' /\ out'[Len(out) + 1] = new
            /\ \A i \in DOMAIN out' : i \in DOMAIN out \/ i = Len(out) + 1
        BY <3>1, <4>1, <4>4
      <4>6. \A i \in DOMAIN out' : ForAReason(out'[i])
        BY <4>2, <4>5 DEF RowsInv, Folded
      <4>7. \A i, j \in DOMAIN out' :
              out'[i].release = out'[j].release /\ out'[i].release # NoRelease => i = j
        BY <4>2, <4>3, <4>5 DEF RowsInv, Folded
      <4>8. QED
        BY <4>2, <4>5, <4>6, <4>7
    <3>3. CASE At(row.release) # {}
      <4>1. PICK k \in At(row.release) : out' = [out EXCEPT ![k] = Joined(out[k], row)]
        BY <1>4, <3>3 DEF Collapse, row
      <4> DEFINE new == Joined(out[k], row)
      <4>2. k \in DOMAIN out /\ out[k].release = row.release /\ row.release # NoRelease
        BY <4>1 DEF At
      <4>3. out[k] \in RowType /\ Judged(out[k]) /\ ForAReason(out[k])
        BY <3>1, <4>2 DEF RowsInv, RowsJudged, Folded
      <4>4. /\ \A w : Shows(out[k], w) \/ Shows(row, w) => Shows(new, w)
            /\ new.release = out[k].release /\ ForAReason(new)
        BY <2>1, <4>2, <4>3, JoinedShows
      <4>5. out' = [out EXCEPT ![k] = new]
        BY <4>1
      <4> HIDE DEF new
      <4>6. DOMAIN out' = DOMAIN out /\ \A i \in DOMAIN out : out'[i] = IF i = k THEN new ELSE out[i]
        BY <3>1, <4>2, <4>5
      <4>7. \A i \in DOMAIN out' : ForAReason(out'[i])
        BY <4>4, <4>6 DEF RowsInv, Folded
      <4>8. \A i \in DOMAIN out : out'[i].release = out[i].release
        BY <4>4, <4>6
      <4>9. \A i, j \in DOMAIN out' :
              out'[i].release = out'[j].release /\ out'[i].release # NoRelease => i = j
        BY <4>6, <4>8 DEF RowsInv, Folded
      <4>10. QED
        BY <4>2, <4>4, <4>6, <4>7, <4>9
    <3>4. QED
      BY <3>2, <3>3
  <2>5. AllListed'
    <3>1. ASSUME NEW w \in list, Belongs(w) PROVE Listed(w)'
      <4>1. Listed(w)
        BY <3>1 DEF RowsInv, AllListed
      <4>2. QED
        BY <1>2, <2>3, <2>4, <4>1 DEF Listed
    <3>2. QED
      BY <1>2, <2>2, <3>1, SameJudgement DEF RowsInv, AllListed
  <2>6. Folded'
    <3>1. \A i \in DOMAIN items' : ForAReason(items'[i])
      BY <2>3 DEF RowsInv, Folded
    <3>2. QED
      BY <1>2, <2>4, <3>1, SameJudgement DEF Folded
  <2>7. QED
    BY <1>1, <2>5, <2>6 DEF RowsInv
<1>5. QED
  BY <1>3, <1>4

LEMMA SortKeeps ==
  ASSUME RowsInv, Sort
  PROVE  RowsInv'
<1>1. TypeOK' /\ RowsJudged'
  BY SortStep DEF RowsInv
<1>2. UNCHANGED <<list, flux, todo, items>> /\ stage = "sort" /\ stage' = "done"
  BY DEF Sort
<1>3. PICK p \in Bijection(DOMAIN out, DOMAIN out) : out' = [i \in DOMAIN out |-> out[p[i]]]
  BY DEF Sort
<1>4. /\ \A i \in DOMAIN out : p[i] \in DOMAIN out
      /\ \A i, j \in DOMAIN out : p[i] = p[j] => i = j
      /\ \A k \in DOMAIN out : \E i \in DOMAIN out : p[i] = k
  BY <1>3 DEF Bijection, Injection, Surjection, IsInjective
<1>5. DOMAIN out' = DOMAIN out /\ \A i \in DOMAIN out : out'[i] = out[p[i]]
  BY <1>3
<1>6. AllListed'
  <2>1. ASSUME NEW w \in list, Belongs(w) PROVE Listed(w)'
    <3>1. Listed(w)
      BY <2>1 DEF RowsInv, AllListed
    <3>2. \A k \in DOMAIN out : \E i \in DOMAIN out' : out'[i] = out[k]
      <4> TAKE k \in DOMAIN out
      <4>1. PICK i \in DOMAIN out : p[i] = k
        BY <1>4
      <4>2. QED
        BY <1>5, <4>1
    <3>3. QED
      BY <1>2, <3>1, <3>2 DEF Listed
  <2>2. QED
    BY <1>2, <2>1, SameJudgement DEF RowsInv, AllListed
<1>7. Folded'
  <2>1. \A i \in DOMAIN out' : ForAReason(out'[i])
    BY <1>4, <1>5 DEF RowsInv, Folded
  <2>2. ASSUME NEW i \in DOMAIN out', NEW j \in DOMAIN out',
               out'[i].release = out'[j].release, out'[i].release # NoRelease
        PROVE  i = j
    <3>1. p[i] \in DOMAIN out /\ p[j] \in DOMAIN out
          /\ out'[i] = out[p[i]] /\ out'[j] = out[p[j]]
      BY <1>4, <1>5
    <3>2. p[i] = p[j]
      BY <2>2, <3>1 DEF RowsInv, Folded
    <3>3. QED
      BY <1>4, <1>5, <3>2
  <2>3. QED
    BY <1>2, <2>1, <2>2, SameJudgement DEF RowsInv, Folded
<1>8. QED
  BY <1>1, <1>6, <1>7 DEF RowsInv

\* A step that leaves the section alone, or only moves on from an empty scan.
LEMMA RowsUnchanged ==
  ASSUME RowsInv, UNCHANGED <<list, flux, todo, items, out>>,
         stage' = stage \/ (stage = "scan" /\ stage' = "collapse" /\ todo = {})
  PROVE  RowsInv'
<1>1. FluxReleaseKeys' = FluxReleaseKeys
  BY SameJudgement
<1>2. TypeOK' /\ RowsJudged'
  BY <1>1 DEF RowsInv, TypeOK, RowsJudged, Judged, Named
<1>3. AllListed' /\ Folded'
  BY SameJudgement DEF RowsInv, AllListed, Listed, Folded
<1>4. QED
  BY <1>2, <1>3 DEF RowsInv

LEMMA BuildKeeps == ASSUME RowsInv, Next PROVE RowsInv'
<1>1. ASSUME NEW w \in list, Scan(w) PROVE RowsInv'
  BY <1>1, ScanKeeps
<1>2. CASE ScanNothing
  BY <1>2, RowsUnchanged DEF ScanNothing
<1>3. CASE Collapse
  BY <1>3, CollapseKeeps
<1>4. CASE Sort
  BY <1>4, SortKeeps
<1>5. QED
  BY <1>1, <1>2, <1>3, <1>4 DEF Next

-----------------------------------------------------------------------------
(* fetchWorkloads: the read and the rows made of it.                       *)

\* The rows are made of the workloads of the kinds that are kept.
Sectioned ==
  IF stage = "reading"
    THEN list = {} /\ out = <<>>
    ELSE /\ kept.known /\ what = "workloads" /\ cluster \in Lists
         /\ list = {w \in cluster : KindOf[w] \in kept.kinds}

SectionInv == Joining /\ RowsInv /\ Sectioned

LEMMA SectionInitHolds == ASSUME SectionInit PROVE SectionInv
<1>1. Joining
  BY JoiningInit DEF SectionInit
<1>2. flux \subseteq HelmRelease
  BY UnmanagedAssumption DEF SectionInit
<1>3. RowsInv /\ Sectioned
  BY <1>2 DEF SectionInit, RowsInv, TypeOK, RowsJudged, AllListed, Folded, Sectioned
<1>4. QED
  BY <1>1, <1>3 DEF SectionInv

LEMMA SectionUnchanged == ASSUME SectionInv, UNCHANGED joint PROVE SectionInv'
<1>1. UNCHANGED JoinedVars /\ UNCHANGED <<list, flux, stage, todo, items, out, cluster>>
  BY DEF joint, JoinedVars, section, vars
<1>2. QED
  BY <1>1, JoiningUnchanged, RowsUnchanged DEF SectionInv, Sectioned, JoinedVars

\* A step of the read, before anything is made of it.
LEMMA ReadingKeeps ==
  ASSUME SectionInv, Joining', Reading
  PROVE  SectionInv'
<1>1. stage = "reading" /\ UNCHANGED <<list, flux, stage, todo, items, out, cluster>>
  BY DEF Reading, section, vars
<1>2. QED
  BY <1>1, RowsUnchanged DEF SectionInv, Sectioned

LEMMA BuildSectionKeeps == ASSUME SectionInv, BuildSection PROVE SectionInv'
<1>1. /\ stage = "reading" /\ what = "workloads" /\ Read!Keeps /\ Read!Return
      /\ cluster' \in Lists /\ list' = {w \in cluster' : KindOf[w] \in answered}
      /\ stage' = "scan" /\ todo' = list' /\ UNCHANGED <<flux, items, out>>
  BY DEF BuildSection
<1>2. Joining'
  BY <1>1, JoinStep DEF SectionInv
<1>3. what' = "workloads" /\ kept'.known /\ kept'.kinds = answered
  <2>1. kept' = [known |-> TRUE, kinds |-> answered, errs |-> errs] /\ what' = what
    BY <1>1 DEF Read!Return, Read!Joined
  <2>2. QED
    BY <1>1, <2>1
<1>4. items = <<>> /\ out = <<>>
  BY <1>1 DEF SectionInv, RowsInv, AllListed, Sectioned
<1>5. RowsInv'
  <2>1. list' \subseteq Workload
    BY <1>1, UnmanagedAssumption
  <2>2. TypeOK'
    BY <1>1, <2>1 DEF SectionInv, RowsInv, TypeOK
  <2>3. QED
    BY <1>1, <1>4, <2>2 DEF RowsInv, RowsJudged, AllListed, Listed, Folded
<1>6. Sectioned'
  BY <1>1, <1>3 DEF Sectioned
<1>7. QED
  BY <1>2, <1>5, <1>6 DEF SectionInv

LEMMA SectionStep == ASSUME SectionInv, SectionNext PROVE SectionInv'
<1>1. CASE Read!Call /\ Reading
  BY <1>1, CallStep, ReadingKeeps DEF SectionInv
<1>2. CASE Read!Deadline /\ Reading
  BY <1>2, DeadlineStep, ReadingKeeps DEF SectionInv
<1>3. CASE (\E k \in Read!All : Read!Read(k)) /\ Reading
  BY <1>3, FinishStep, ReadingKeeps DEF SectionInv
<1>4. CASE ReturnOther
  BY <1>4, JoinStep, ReadingKeeps DEF SectionInv, ReturnOther
<1>5. CASE BuildSection
  BY <1>5, BuildSectionKeeps
<1>6. CASE Build
  <2>1. Next /\ UNCHANGED JoinedVars /\ cluster' = cluster
    BY <1>6 DEF Build, JoinedVars
  <2>2. Joining' /\ RowsInv'
    BY <2>1, JoiningUnchanged, BuildKeeps DEF SectionInv
  <2>3. stage # "reading" /\ stage' # "reading" /\ list' = list
    BY <2>1 DEF Next, Scan, ScanNothing, Collapse, Sort
  <2>4. Sectioned'
    BY <2>1, <2>3 DEF SectionInv, Sectioned, JoinedVars
  <2>5. QED
    BY <2>2, <2>4 DEF SectionInv
<1>7. QED
  BY <1>1, <1>2, <1>3, <1>4, <1>5, <1>6 DEF SectionNext

-----------------------------------------------------------------------------
(* Sums.  A sum of counters is how many units they count: that the fold of  *)
(* SumFunction computes it is shown of the set of all subsets at once, a     *)
(* smallest one on which it did not being smaller by an element of it.       *)

\* The units of some counters: a sum of them is how many there are.
Units(f, S) == UNION {{x} \X (1..f[x]) : x \in S}
Sized(f, S) == Cardinality(Units(f, S))

LEMMA UnitsAre ==
  ASSUME NEW f, NEW S
  PROVE  /\ \A x, d : <<x, d>> \in Units(f, S) <=> x \in S /\ d \in 1..f[x]
         /\ \A u \in Units(f, S) : u = <<u[1], u[2]>>
         /\ Units(f, {}) = {}
BY DEF Units

LEMMA UnitsFinite ==
  ASSUME NEW f, NEW S, IsFiniteSet(S), \A x \in S : f[x] \in Nat
  PROVE  IsFiniteSet(Units(f, S)) /\ Sized(f, S) \in Nat
<1>1. \A x \in S : IsFiniteSet({x} \X (1..f[x]))
  <2> TAKE x \in S
  <2>1. 1 \in Int /\ f[x] \in Int
    OBVIOUS
  <2>2. IsFiniteSet(1..f[x])
    BY <2>1, FS_Interval
  <2>3. IsFiniteSet({x})
    BY FS_Singleton
  <2>4. QED
    BY <2>2, <2>3, FS_Product
<1>2. IsFiniteSet({{x} \X (1..f[x]) : x \in S})
  <2> DEFINE g == [x \in S |-> {x} \X (1..f[x])]
  <2>1. g \in Surjection(S, {{x} \X (1..f[x]) : x \in S})
    BY DEF Surjection
  <2>2. QED
    BY <2>1, FS_Surjection, Zenon
<1>3. IsFiniteSet(Units(f, S))
  BY <1>1, <1>2, FS_UNION DEF Units
<1>4. QED
  BY <1>3, FS_CardinalityType DEF Sized

\* One more counter adds what it counts.
LEMMA SizedAdd ==
  ASSUME NEW f, NEW S, IsFiniteSet(S), NEW x, x \notin S, \A y \in S \cup {x} : f[y] \in Nat
  PROVE  Sized(f, S \cup {x}) = Sized(f, S) + f[x]
<1> DEFINE new == {x} \X (1..f[x])
<1>1. Units(f, S \cup {x}) = Units(f, S) \cup new
  BY DEF Units
<1>2. Units(f, S) \cap new = {}
  BY DEF Units
<1>3. IsFiniteSet(new) /\ Cardinality(new) = f[x]
  <2>1. IsFiniteSet({x}) /\ Cardinality({x}) = 1
    BY FS_Singleton
  <2>2. IsFiniteSet(1..f[x]) /\ Cardinality(1..f[x]) = f[x]
    BY FS_Interval
  <2>3. IsFiniteSet(new) /\ Cardinality(new) = Cardinality({x}) * Cardinality(1..f[x])
    BY <2>1, <2>2, FS_Product
  <2>4. QED
    BY <2>1, <2>2, <2>3
<1>4. IsFiniteSet(Units(f, S)) /\ Cardinality(Units(f, S)) \in Nat /\ f[x] \in Nat
  BY UnitsFinite DEF Sized
<1> HIDE DEF new
<1>5. Cardinality(Units(f, S) \cup new) = Cardinality(Units(f, S)) + Cardinality(new) - Cardinality(Units(f, S) \cap new)
  BY <1>3, <1>4, FS_Union
<1>6. Cardinality(Units(f, S) \cap new) = 0
  BY <1>2, FS_EmptySet
<1>7. Cardinality(Units(f, S) \cup new) = Cardinality(Units(f, S)) + f[x]
  BY <1>3, <1>4, <1>5, <1>6
<1>8. QED
  BY <1>1, <1>7, Zenon DEF Sized

\* The fold over a set adds its counters up, in whatever order it takes them.
LEMMA SumIs ==
  ASSUME NEW f, NEW S, IsFiniteSet(S), \A x \in S : f[x] \in Nat
  PROVE  SumFunctionOnSet(f, S) = Sized(f, S)
<1> DEFINE Is(h) == h = [s \in SUBSET S |->
                           IF s = {} THEN 0
                           ELSE f[CHOOSE x \in s : TRUE] + h[s \ {CHOOSE x \in s : TRUE}]]
           size == [s \in SUBSET S |-> Sized(f, s)]
<1>1. SumFunctionOnSet(f, S) = (CHOOSE h : Is(h))[S]
  BY DEF SumFunctionOnSet, FoldFunctionOnSet, MapThenFoldSet
<1>2. Is(size)
  <2> SUFFICES ASSUME NEW s \in SUBSET S
               PROVE  Sized(f, s) = IF s = {} THEN 0
                                    ELSE f[CHOOSE x \in s : TRUE] + size[s \ {CHOOSE x \in s : TRUE}]
    BY Zenon
  <2>1. CASE s = {}
    BY <2>1, FS_EmptySet, UnitsAre DEF Sized
  <2>2. CASE s # {}
    <3> DEFINE x == CHOOSE x \in s : TRUE
               r == s \ {x}
    <3>1. x \in s
      BY <2>2
    <3>2. IsFiniteSet(r) /\ r \in SUBSET S
      BY FS_Subset
    <3> HIDE DEF x
    <3>3. s = r \cup {x} /\ x \notin r
      BY <3>1
    <3>4. f[x] \in Nat /\ \A y \in r \cup {x} : f[y] \in Nat
      BY <3>1, <3>2
    <3> HIDE DEF r
    <3>5. Sized(f, s) = Sized(f, r) + f[x] /\ Sized(f, r) \in Nat
      BY <3>2, <3>3, <3>4, SizedAdd, UnitsFinite
    <3>6. size[r] = Sized(f, r)
      BY <3>2
    <3>7. Sized(f, s) = f[x] + size[r]
      BY <3>4, <3>5, <3>6
    <3>8. QED
      BY <2>2, <3>7, Zenon DEF x, r
  <2>3. QED
    BY <2>1, <2>2
<1>3. ASSUME NEW h, Is(h) PROVE h[S] = Sized(f, S)
  <2> DEFINE R == StrictSubsetOrdering(S)
             T == {s \in SUBSET S : h[s] # size[s]}
  <2>1. IsWellFoundedOn(R, SUBSET S)
    BY FS_StrictSubsetOrderingWellFounded, FS_FiniteSubsetsOfFinite
  <2>2. T = {}
    <3> SUFFICES ASSUME T # {} PROVE FALSE
      OBVIOUS
    <3>1. PICK s \in T : \A r \in T : <<r, s>> \notin R
      <4> HIDE DEF R, T
      <4>1. T \subseteq SUBSET S
        BY DEF T
      <4>2. QED
        BY <2>1, <4>1, WFMin
    <3> DEFINE x == CHOOSE x \in s : TRUE
               r == s \ {x}
    <3>2. s \in SUBSET S /\ h[s] # size[s]
      BY <3>1
    <3>3. h[s] = IF s = {} THEN 0 ELSE f[x] + h[r]
      BY <1>3, <3>2, Zenon
    <3>4. size[s] = IF s = {} THEN 0 ELSE f[x] + size[r]
      BY <1>2, <3>2, Zenon
    <3>5. s # {} /\ h[r] # size[r]
      BY <3>2, <3>3, <3>4
    <3>6. x \in s
      BY <3>5
    <3>7. r \in T /\ <<r, s>> \in R
      BY <3>2, <3>5, <3>6 DEF StrictSubsetOrdering
    <3>8. QED
      BY <3>1, <3>7
  <2>3. S \in SUBSET S /\ h[S] = size[S]
    BY <2>2
  <2>4. QED
    BY <2>3
<1>4. Is(CHOOSE h : Is(h))
  <2> HIDE DEF Is
  <2>1. QED
    BY <1>2
<1>5. QED
  BY <1>1, <1>3, <1>4, Zenon

Numbers(f) == IsFiniteSet(DOMAIN f) /\ \A x \in DOMAIN f : f[x] \in Nat

LEMMA SumType == ASSUME NEW f, Numbers(f) PROVE SumFunction(f) = Sized(f, DOMAIN f) /\ SumFunction(f) \in Nat
BY SumIs, UnitsFinite DEF Numbers, SumFunction

LEMMA SumNone == ASSUME NEW f, DOMAIN f = {} PROVE SumFunction(f) = 0
<1>1. Numbers(f)
  BY FS_EmptySet DEF Numbers
<1>2. Sized(f, {}) = 0
  BY UnitsAre, FS_EmptySet DEF Sized
<1>3. QED
  BY <1>1, <1>2, SumType

LEMMA SameUnits ==
  ASSUME NEW f, NEW g, NEW S, \A x \in S : f[x] = g[x]
  PROVE  Sized(f, S) = Sized(g, S)
<1>1. Units(f, S) = Units(g, S)
  BY DEF Units
<1>2. QED
  BY <1>1, Zenon DEF Sized

\* Another counter adds what it counts.
LEMMA SumMore ==
  ASSUME NEW f, NEW g, Numbers(f), NEW x, x \notin DOMAIN f,
         DOMAIN g = DOMAIN f \cup {x}, \A y \in DOMAIN f : g[y] = f[y], g[x] \in Nat
  PROVE  Numbers(g) /\ SumFunction(g) = SumFunction(f) + g[x]
<1> DEFINE D == DOMAIN f
<1>1. IsFiniteSet(D) /\ \A y \in D \cup {x} : g[y] \in Nat
  BY DEF Numbers
<1>2. Sized(g, D \cup {x}) = Sized(g, D) + g[x]
  BY <1>1, SizedAdd
<1>3. Sized(g, D) = Sized(f, D)
  BY SameUnits
<1>4. Numbers(g)
  BY <1>1, FS_AddElement DEF Numbers
<1>5. SumFunction(g) = Sized(g, D \cup {x}) /\ SumFunction(f) = Sized(f, D)
  BY <1>4, SumType
<1>6. QED
  BY <1>2, <1>3, <1>4, <1>5

\* Fewer counters count no more.
LEMMA SumLess ==
  ASSUME NEW f, NEW g, Numbers(g), DOMAIN f \subseteq DOMAIN g, \A y \in DOMAIN f : g[y] = f[y]
  PROVE  Numbers(f) /\ SumFunction(f) <= SumFunction(g)
<1>1. Numbers(f)
  BY FS_Subset DEF Numbers
<1>2. Units(f, DOMAIN f) \subseteq Units(g, DOMAIN g)
  BY DEF Units
<1>3. IsFiniteSet(Units(g, DOMAIN g))
  BY UnitsFinite DEF Numbers
<1>4. Sized(f, DOMAIN f) <= Sized(g, DOMAIN g)
  BY <1>2, <1>3, FS_Subset DEF Sized
<1>5. SumFunction(f) = Sized(f, DOMAIN f) /\ SumFunction(g) = Sized(g, DOMAIN g)
  BY <1>1, SumType
<1>6. QED
  BY <1>1, <1>4, <1>5

\* One counter and the rest of them.
LEMMA SumSplit ==
  ASSUME NEW f, Numbers(f), NEW x \in DOMAIN f
  PROVE  SumFunction(f) = Sized(f, DOMAIN f \ {x}) + f[x] /\ Sized(f, DOMAIN f \ {x}) \in Nat
<1> DEFINE R == DOMAIN f \ {x}
<1>1. IsFiniteSet(R)
  BY FS_Subset DEF Numbers
<1>2. DOMAIN f = R \cup {x} /\ x \notin R
  OBVIOUS
<1>3. \A y \in R \cup {x} : f[y] \in Nat
  BY DEF Numbers
<1> HIDE DEF R
<1>4. Sized(f, R \cup {x}) = Sized(f, R) + f[x]
  BY <1>1, <1>2, <1>3, SizedAdd
<1>5. SumFunction(f) = Sized(f, R \cup {x})
  BY <1>2, SumType
<1>6. Sized(f, R) \in Nat
  BY <1>1, <1>3, UnitsFinite
<1>7. QED
  BY <1>4, <1>5, <1>6 DEF R

\* What one counter gains the sum gains.
LEMMA SumChanged ==
  ASSUME NEW f, NEW g, Numbers(f), DOMAIN g = DOMAIN f, NEW x \in DOMAIN f,
         \A y \in DOMAIN f \ {x} : g[y] = f[y], NEW d \in Nat, g[x] = f[x] + d
  PROVE  Numbers(g) /\ SumFunction(g) = SumFunction(f) + d
<1>1. f[x] \in Nat /\ Numbers(g)
  BY DEF Numbers
<1>2. SumFunction(f) = Sized(f, DOMAIN f \ {x}) + f[x] /\ Sized(f, DOMAIN f \ {x}) \in Nat
  BY SumSplit
<1>3. SumFunction(g) = Sized(g, DOMAIN f \ {x}) + g[x]
  BY <1>1, SumSplit
<1>4. Sized(g, DOMAIN f \ {x}) = Sized(f, DOMAIN f \ {x})
  BY SameUnits
<1>5. QED
  BY <1>1, <1>2, <1>3, <1>4

\* The order of the counters does not matter.
LEMMA SumMoved ==
  ASSUME NEW f, NEW g, Numbers(f), NEW p \in Bijection(DOMAIN f, DOMAIN f),
         DOMAIN g = DOMAIN f, \A x \in DOMAIN f : g[x] = f[p[x]]
  PROVE  SumFunction(g) = SumFunction(f)
<1> DEFINE D == DOMAIN f
           U == Units(g, D)
           V == Units(f, D)
           m == [u \in U |-> <<p[u[1]], u[2]>>]
<1>1. /\ \A x \in D : p[x] \in D
      /\ \A x, y \in D : p[x] = p[y] => x = y
      /\ \A y \in D : \E x \in D : p[x] = y
  BY DEF Bijection, Injection, Surjection, IsInjective
<1>2. Numbers(g)
  BY <1>1 DEF Numbers
<1>3. IsFiniteSet(U)
  BY <1>2, UnitsFinite DEF Numbers
<1>4. /\ \A x, d : <<x, d>> \in U <=> x \in D /\ d \in 1..g[x]
      /\ \A x, d : <<x, d>> \in V <=> x \in D /\ d \in 1..f[x]
      /\ \A u \in U : u = <<u[1], u[2]>>
      /\ \A u \in V : u = <<u[1], u[2]>>
  BY UnitsAre
<1> HIDE DEF U, V
<1>5. m \in [U -> V]
  <2> SUFFICES ASSUME NEW u \in U PROVE <<p[u[1]], u[2]>> \in V
    OBVIOUS
  <2>1. u[1] \in D /\ u[2] \in 1..g[u[1]]
    BY <1>4
  <2>2. p[u[1]] \in D /\ u[2] \in 1..f[p[u[1]]]
    BY <1>1, <2>1
  <2>3. QED
    BY <1>4, <2>2, Zenon
<1>6. \A u, v \in U : m[u] = m[v] => u = v
  <2> SUFFICES ASSUME NEW u \in U, NEW v \in U, m[u] = m[v] PROVE u = v
    OBVIOUS
  <2>1. p[u[1]] = p[v[1]] /\ u[2] = v[2]
    OBVIOUS
  <2>2. u[1] \in D /\ v[1] \in D
    BY <1>4
  <2> HIDE DEF m, D
  <2>3. u[1] = v[1]
    BY <1>1, <2>1, <2>2, Zenon
  <2>4. u = <<u[1], u[2]>> /\ v = <<v[1], v[2]>>
    BY <1>4
  <2>5. QED
    BY <2>1, <2>3, <2>4, Zenon
<1>7. \A v \in V : \E u \in U : m[u] = v
  <2> SUFFICES ASSUME NEW v \in V PROVE \E u \in U : m[u] = v
    OBVIOUS
  <2>1. v[1] \in D /\ v[2] \in 1..f[v[1]] /\ v = <<v[1], v[2]>>
    BY <1>4
  <2>2. PICK x \in D : p[x] = v[1]
    BY <1>1, <2>1
  <2>3. <<x, v[2]>> \in U
    BY <1>4, <2>1, <2>2
  <2>4. m[<<x, v[2]>>] = v
    BY <2>1, <2>2, <2>3
  <2>5. QED
    BY <2>3, <2>4
<1> HIDE DEF m
<1>8. m \in Bijection(U, V)
  BY <1>5, <1>6, <1>7 DEF Bijection, Injection, Surjection, IsInjective
<1>9. Cardinality(V) = Cardinality(U)
  BY <1>3, <1>8, FS_Bijection DEF ExistsBijection
<1>10. SumFunction(g) = Cardinality(U) /\ SumFunction(f) = Cardinality(V)
  BY <1>2, SumType DEF Sized, U, V
<1>11. QED
  BY <1>9, <1>10

-----------------------------------------------------------------------------
(* What the rows add up to.                                                *)

\* The row so far, of the members it has so far.
Part(row, ms) ==
  /\ ms # {} /\ Whole(row, ms)
  /\ (\A w \in ms : w.app = "") => row.app = ""

Of(ms, r) == {w \in ms : ReleaseOf(w) = r}

\* These rows amount to these workloads.
Amount(rows, ms) ==
  /\ SumFunction([i \in DOMAIN rows |-> rows[i].members]) = Cardinality(ms)
  /\ SumFunction([i \in DOMAIN rows |-> rows[i].desired]) = SumFunction([w \in ms |-> w.desired])
  /\ \A w \in ms : ReleaseOf(w) # NoRelease => \E i \in DOMAIN rows : rows[i].release = ReleaseOf(w)
  /\ \A i \in DOMAIN rows : rows[i].release # NoRelease => Part(rows[i], Of(ms, rows[i].release))

LEMMA SumOne ==
  ASSUME NEW f, NEW x, DOMAIN f = {x}, f[x] \in Nat
  PROVE  SumFunction(f) = f[x]
<1>1. Numbers(f)
  BY FS_Singleton DEF Numbers
<1>2. SumFunction(f) = Sized(f, DOMAIN f \ {x}) + f[x]
  BY <1>1, SumSplit
<1>3. DOMAIN f \ {x} = {}
  OBVIOUS
<1>4. Sized(f, {}) = 0
  BY UnitsAre, FS_EmptySet DEF Sized
<1>5. QED
  BY <1>2, <1>3, <1>4

LEMMA RowIs ==
  ASSUME NEW w \in Workload
  PROVE  LET row == Row(w) IN
         /\ row \in RowType
         /\ row.release = ReleaseOf(w) /\ row.members = 1 /\ row.ready = w.ready /\ row.desired = w.desired
         /\ row.app = w.app /\ row.version = w.tag
         /\ row.state = "DEGRADED" <=> w.ready < w.desired
         /\ row.state = "SUSPENDED" => w.desired = 0
         /\ w.ready \in Nat /\ w.desired \in Nat
<1>1. w.ns \in Nat \ {None} /\ w.name \in Nat \ {None} /\ w.instance \in Nat
      /\ w.ready \in Nat /\ w.desired \in Nat /\ w.tag \in STRING /\ w.app \in STRING
  BY DEF Workload
<1>2. ReleaseOf(w) \in Release \cup {NoRelease}
  BY <1>1 DEF ReleaseOf, Release
<1>3. WorkloadState(w) \in DOMAIN Severity
  BY DEF WorkloadState, Severity
<1>4. w.tag \in Version
  BY <1>1 DEF Version
<1>5. Row(w) \in RowType
  BY <1>1, <1>2, <1>3, <1>4 DEF Row, RowType
<1>6. /\ WorkloadState(w) = "DEGRADED" <=> w.ready < w.desired
      /\ WorkloadState(w) = "SUSPENDED" => w.desired = 0
  BY <1>1 DEF WorkloadState
<1>7. QED
  BY <1>1, <1>5, <1>6 DEF Row

LEMMA PartOne ==
  ASSUME NEW w \in Workload
  PROVE  LET row == Founded(Row(w)) IN
         /\ row.release = ReleaseOf(w) /\ row.members = 1 /\ row.desired = w.desired
         /\ ReleaseOf(w) # NoRelease => Part(row, {w})
<1> DEFINE one == Row(w)
           row == Founded(one)
<1>1. /\ one \in RowType
      /\ one.release = ReleaseOf(w) /\ one.members = 1 /\ one.ready = w.ready /\ one.desired = w.desired
      /\ one.app = w.app /\ one.version = w.tag
      /\ one.state = "DEGRADED" <=> w.ready < w.desired
      /\ one.state = "SUSPENDED" => w.desired = 0
      /\ w.ready \in Nat /\ w.desired \in Nat
  BY RowIs
<1> HIDE DEF one
<1>2. /\ row.release = one.release /\ row.members = one.members /\ row.ready = one.ready
      /\ row.desired = one.desired /\ row.state = one.state /\ row.app = one.app
      /\ one.app = "" => row.version = one.version
  BY <1>1 DEF Founded, RowType
<1> HIDE DEF row
<1>3. Cardinality({w}) = 1
  BY FS_Singleton
<1>4. SumFunction([v \in {w} |-> v.ready]) = w.ready
  <2> DEFINE f == [v \in {w} |-> v.ready]
  <2>1. DOMAIN f = {w} /\ f[w] = w.ready
    OBVIOUS
  <2> HIDE DEF f
  <2>2. SumFunction(f) = w.ready
    BY <1>1, <2>1, SumOne
  <2>3. QED
    BY <2>2 DEF f
<1>5. SumFunction([v \in {w} |-> v.desired]) = w.desired
  <2> DEFINE f == [v \in {w} |-> v.desired]
  <2>1. DOMAIN f = {w} /\ f[w] = w.desired
    OBVIOUS
  <2> HIDE DEF f
  <2>2. SumFunction(f) = w.desired
    BY <1>1, <2>1, SumOne
  <2>3. QED
    BY <2>2 DEF f
<1>6. Whole(row, {w})
  BY <1>1, <1>2, <1>3, <1>4, <1>5 DEF Whole
<1>7. QED
  BY <1>1, <1>2, <1>6 DEF Part, row, one

\* One more workload adds its counters.
LEMMA SumsAdd ==
  ASSUME NEW ms, ms \subseteq Workload, IsFiniteSet(ms), NEW w \in Workload, w \notin ms
  PROVE  /\ SumFunction([v \in ms \cup {w} |-> v.ready]) = SumFunction([v \in ms |-> v.ready]) + w.ready
         /\ SumFunction([v \in ms \cup {w} |-> v.desired]) = SumFunction([v \in ms |-> v.desired]) + w.desired
         /\ Cardinality(ms \cup {w}) = Cardinality(ms) + 1 /\ Cardinality(ms) \in Nat
         /\ IsFiniteSet(ms \cup {w})
         /\ Numbers([v \in ms |-> v.desired]) /\ Numbers([v \in ms |-> v.ready])
<1> DEFINE f == [v \in ms |-> v.ready]
           g == [v \in ms \cup {w} |-> v.ready]
           d == [v \in ms |-> v.desired]
           e == [v \in ms \cup {w} |-> v.desired]
<1>1. \A v \in ms \cup {w} : v.ready \in Nat /\ v.desired \in Nat
  BY DEF Workload
<1>2. Numbers(f) /\ Numbers(d)
  BY <1>1 DEF Numbers
<1>3. /\ DOMAIN g = DOMAIN f \cup {w} /\ w \notin DOMAIN f /\ \A v \in DOMAIN f : g[v] = f[v]
      /\ g[w] = w.ready
  OBVIOUS
<1>4. /\ DOMAIN e = DOMAIN d \cup {w} /\ w \notin DOMAIN d /\ \A v \in DOMAIN d : e[v] = d[v]
      /\ e[w] = w.desired
  OBVIOUS
<1>5. Cardinality(ms \cup {w}) = Cardinality(ms) + 1 /\ Cardinality(ms) \in Nat /\ IsFiniteSet(ms \cup {w})
  BY FS_AddElement, FS_CardinalityType
<1> HIDE DEF f, g, d, e
<1>6. g[w] \in Nat /\ e[w] \in Nat
  BY <1>1, <1>3, <1>4
<1>7. SumFunction(g) = SumFunction(f) + w.ready
  BY <1>2, <1>3, <1>6, SumMore
<1>8. SumFunction(e) = SumFunction(d) + w.desired
  BY <1>2, <1>4, <1>6, SumMore
<1>9. QED
  BY <1>2, <1>5, <1>7, <1>8 DEF f, g, d, e

LEMMA WorseIsOne ==
  ASSUME NEW a \in DOMAIN Severity, NEW b \in DOMAIN Severity
  PROVE  Worse(a, b) \in {a, b} /\ (Worse(a, b) = "DEGRADED" <=> a = "DEGRADED" \/ b = "DEGRADED")
BY DEF Worse, Severity

LEMMA PartMore ==
  ASSUME NEW g \in RowType, NEW ms, ms \subseteq Workload, IsFiniteSet(ms), Part(g, ms),
         NEW w \in Workload, w \notin ms
  PROVE  LET row == Joined(g, Row(w)) IN
         /\ Part(row, ms \cup {w})
         /\ row.release = g.release /\ row.members = g.members + 1 /\ row.desired = g.desired + w.desired
<1> DEFINE one == Row(w)
           row == Joined(g, one)
           all == ms \cup {w}
<1>1. /\ one \in RowType
      /\ one.ready = w.ready /\ one.desired = w.desired /\ one.version = w.tag
      /\ one.state = "DEGRADED" <=> w.ready < w.desired
      /\ one.state = "SUSPENDED" => w.desired = 0
      /\ w.ready \in Nat /\ w.desired \in Nat
  BY RowIs
<1> HIDE DEF one
<1>2. /\ row.release = g.release /\ row.members = g.members + 1 /\ row.ready = g.ready + one.ready
      /\ row.desired = g.desired + one.desired /\ row.state = Worse(one.state, g.state) /\ row.app = g.app
      /\ g.app = "" => row.version = IF g.version # one.version THEN "mixed" ELSE g.version
  BY <1>1 DEF Joined, RowType
<1>3. one.state \in DOMAIN Severity /\ g.state \in DOMAIN Severity
  BY <1>1 DEF RowType
<1>4. row.state \in {one.state, g.state} /\ (row.state = "DEGRADED" <=> one.state = "DEGRADED" \/ g.state = "DEGRADED")
  BY <1>2, <1>3, WorseIsOne
<1> HIDE DEF row
<1>5. ms # {} /\ Whole(g, ms) /\ ((\A v \in ms : v.app = "") => g.app = "")
  BY DEF Part
<1>6. row.state = "DEGRADED" <=> \E v \in all : v.ready < v.desired
  BY <1>1, <1>4, <1>5 DEF Whole
<1>7. row.state = "SUSPENDED" => \E v \in all : v.desired = 0
  BY <1>1, <1>4, <1>5 DEF Whole
<1>8. row.members = Cardinality(all)
  <2>1. Cardinality(all) = Cardinality(ms) + 1
    BY SumsAdd
  <2>2. g.members = Cardinality(ms)
    BY <1>5, Zenon DEF Whole
  <2>3. QED
    BY <1>2, <2>1, <2>2, Zenon
<1>9. row.ready = SumFunction([v \in all |-> v.ready])
  <2>1. SumFunction([v \in all |-> v.ready]) = SumFunction([v \in ms |-> v.ready]) + w.ready
    BY SumsAdd
  <2>2. g.ready = SumFunction([v \in ms |-> v.ready])
    BY <1>5, Zenon DEF Whole
  <2>3. row.ready = g.ready + w.ready
    BY <1>1, <1>2
  <2>4. QED
    BY <2>1, <2>2, <2>3, Zenon
<1>10. row.desired = SumFunction([v \in all |-> v.desired])
  <2>1. SumFunction([v \in all |-> v.desired]) = SumFunction([v \in ms |-> v.desired]) + w.desired
    BY SumsAdd
  <2>2. g.desired = SumFunction([v \in ms |-> v.desired])
    BY <1>5, Zenon DEF Whole
  <2>3. row.desired = g.desired + w.desired
    BY <1>1, <1>2
  <2>4. QED
    BY <2>1, <2>2, <2>3, Zenon
<1>11. ASSUME \A v \in all : v.app = ""
       PROVE  /\ row.app = ""
              /\ \/ \A v \in all : row.version = v.tag
                 \/ row.version = "mixed" /\ \E u, v \in all : v.tag # u.tag
  <2>1. g.app = "" /\ row.app = ""
    BY <1>2, <1>5, <1>11
  <2>2. \/ \A v \in ms : g.version = v.tag
        \/ g.version = "mixed" /\ \E u, v \in ms : v.tag # u.tag
    BY <1>5, <1>11 DEF Whole
  <2>3. row.version = IF g.version # w.tag THEN "mixed" ELSE g.version
    BY <1>1, <1>2, <2>1
  <2>4. CASE \A v \in ms : g.version = v.tag
    <3>1. PICK u \in ms : TRUE
      BY <1>5
    <3>2. QED
      BY <2>1, <2>3, <2>4, <3>1
  <2>5. CASE g.version = "mixed" /\ \E u, v \in ms : v.tag # u.tag
    BY <2>1, <2>3, <2>5
  <2>6. QED
    BY <2>2, <2>4, <2>5
<1>12. Whole(row, all)
  BY <1>6, <1>7, <1>8, <1>9, <1>10, <1>11, Zenon DEF Whole
<1>13. all # {}
  OBVIOUS
<1>14. QED
  BY <1>1, <1>2, <1>11, <1>12, <1>13 DEF Part, row, one

\* A row for a workload that has none of its own yet.
LEMMA AmountFounded ==
  ASSUME NEW rows \in Seq(RowType), NEW ms, ms \subseteq Workload, IsFiniteSet(ms), Amount(rows, ms),
         NEW w \in Workload, w \notin ms,
         ReleaseOf(w) # NoRelease => \A i \in DOMAIN rows : rows[i].release # ReleaseOf(w)
  PROVE  Amount(Append(rows, Founded(Row(w))), ms \cup {w})
<1> DEFINE new == Founded(Row(w))
           next == Append(rows, new)
           all == ms \cup {w}
           n == Len(rows)
<1>1. /\ new.release = ReleaseOf(w) /\ new.members = 1 /\ new.desired = w.desired
      /\ ReleaseOf(w) # NoRelease => Part(new, {w})
  BY PartOne
<1>2. n \in Nat /\ DOMAIN rows = 1..n /\ \A i \in DOMAIN rows : rows[i] \in RowType
  OBVIOUS
<1>3. DOMAIN next = (1..n) \cup {n + 1} /\ next[n + 1] = new /\ \A i \in 1..n : next[i] = rows[i]
  BY <1>2
<1>4. w.desired \in Nat
  BY DEF Workload
<1>5. \A i \in 1..n : rows[i].members \in Nat /\ rows[i].desired \in Nat
  BY <1>2 DEF RowType
<1>6. IsFiniteSet(1..n) /\ n + 1 \notin 1..n
  BY <1>2, FS_Interval
<1> HIDE DEF next, new, n
<1>7. SumFunction([i \in DOMAIN next |-> next[i].members]) = SumFunction([i \in DOMAIN rows |-> rows[i].members]) + 1
  <2> DEFINE f == [i \in DOMAIN rows |-> rows[i].members]
             g == [i \in DOMAIN next |-> next[i].members]
  <2>1. Numbers(f) /\ n + 1 \notin DOMAIN f /\ DOMAIN g = DOMAIN f \cup {n + 1}
    BY <1>2, <1>3, <1>5, <1>6 DEF Numbers
  <2>2. (\A i \in DOMAIN f : g[i] = f[i]) /\ g[n + 1] = 1
    BY <1>1, <1>2, <1>3
  <2> HIDE DEF f, g
  <2>3. SumFunction(g) = SumFunction(f) + g[n + 1]
    BY <2>1, <2>2, SumMore
  <2>4. QED
    BY <2>2, <2>3 DEF f, g
<1>8. SumFunction([i \in DOMAIN next |-> next[i].desired])
        = SumFunction([i \in DOMAIN rows |-> rows[i].desired]) + w.desired
  <2> DEFINE f == [i \in DOMAIN rows |-> rows[i].desired]
             g == [i \in DOMAIN next |-> next[i].desired]
  <2>1. Numbers(f) /\ n + 1 \notin DOMAIN f /\ DOMAIN g = DOMAIN f \cup {n + 1}
    BY <1>2, <1>3, <1>5, <1>6 DEF Numbers
  <2>2. (\A i \in DOMAIN f : g[i] = f[i]) /\ g[n + 1] = w.desired
    BY <1>1, <1>2, <1>3
  <2> HIDE DEF f, g
  <2>3. SumFunction(g) = SumFunction(f) + g[n + 1]
    BY <1>4, <2>1, <2>2, SumMore
  <2>4. QED
    BY <2>2, <2>3 DEF f, g
<1>9. SumFunction([i \in DOMAIN next |-> next[i].members]) = Cardinality(all)
  BY <1>7, SumsAdd, Zenon DEF Amount
<1>10. SumFunction([i \in DOMAIN next |-> next[i].desired]) = SumFunction([v \in all |-> v.desired])
  <2>1. SumFunction([v \in all |-> v.desired]) = SumFunction([v \in ms |-> v.desired]) + w.desired
    BY SumsAdd
  <2>2. SumFunction([i \in DOMAIN rows |-> rows[i].desired]) = SumFunction([v \in ms |-> v.desired])
    BY Zenon DEF Amount
  <2>3. QED
    BY <1>8, <2>1, <2>2, Zenon
<1>11. \A v \in all : ReleaseOf(v) # NoRelease => \E i \in DOMAIN next : next[i].release = ReleaseOf(v)
  BY <1>1, <1>2, <1>3 DEF Amount
<1>12. ASSUME NEW i \in DOMAIN next, next[i].release # NoRelease
       PROVE  Part(next[i], Of(all, next[i].release))
  <2>1. CASE i = n + 1
    <3>1. \A v \in ms : ReleaseOf(v) # ReleaseOf(w)
      BY <1>1, <1>3, <1>12, <2>1 DEF Amount
    <3>2. Of(all, ReleaseOf(w)) = {w}
      BY <3>1 DEF Of
    <3>3. QED
      BY <1>1, <1>3, <1>12, <2>1, <3>2
  <2>2. CASE i \in 1..n
    <3>1. next[i] = rows[i] /\ rows[i].release # ReleaseOf(w)
      BY <1>2, <1>3, <1>12, <2>2
    <3>2. Of(all, rows[i].release) = Of(ms, rows[i].release)
      BY <3>1 DEF Of
    <3>3. QED
      BY <1>2, <1>12, <2>2, <3>1, <3>2 DEF Amount
  <2>3. QED
    BY <1>3, <2>1, <2>2
<1>13. QED
  BY <1>9, <1>10, <1>11, <1>12, Zenon DEF Amount, next, new

\* Another member for the row of its release.
LEMMA AmountJoined ==
  ASSUME NEW rows \in Seq(RowType), NEW ms, ms \subseteq Workload, IsFiniteSet(ms), Amount(rows, ms),
         NEW w \in Workload, w \notin ms, NEW k \in DOMAIN rows,
         ReleaseOf(w) # NoRelease, rows[k].release = ReleaseOf(w),
         \A i \in DOMAIN rows : rows[i].release = ReleaseOf(w) => i = k
  PROVE  Amount([rows EXCEPT ![k] = Joined(rows[k], Row(w))], ms \cup {w})
<1> DEFINE new == Joined(rows[k], Row(w))
           next == [rows EXCEPT ![k] = new]
           all == ms \cup {w}
           n == Len(rows)
           own == Of(ms, ReleaseOf(w))
<1>1. n \in Nat /\ DOMAIN rows = 1..n /\ \A i \in DOMAIN rows : rows[i] \in RowType
  OBVIOUS
<1>2. Part(rows[k], own) /\ own \subseteq Workload /\ IsFiniteSet(own) /\ w \notin own
  BY FS_Subset DEF Amount, Of
<1>3. /\ Part(new, own \cup {w})
      /\ new.release = ReleaseOf(w) /\ new.members = rows[k].members + 1
      /\ new.desired = rows[k].desired + w.desired
  BY <1>1, <1>2, PartMore
<1>4. DOMAIN next = DOMAIN rows /\ next[k] = new /\ \A i \in DOMAIN rows \ {k} : next[i] = rows[i]
  BY <1>1
<1>5. w.desired \in Nat
  BY DEF Workload
<1>6. \A i \in DOMAIN rows : rows[i].members \in Nat /\ rows[i].desired \in Nat
  BY <1>1 DEF RowType
<1>7. IsFiniteSet(DOMAIN rows)
  BY <1>1, FS_Interval
<1> HIDE DEF next, new, n
<1>8. SumFunction([i \in DOMAIN next |-> next[i].members]) = SumFunction([i \in DOMAIN rows |-> rows[i].members]) + 1
  <2> DEFINE f == [i \in DOMAIN rows |-> rows[i].members]
             g == [i \in DOMAIN next |-> next[i].members]
  <2>1. Numbers(f) /\ k \in DOMAIN f /\ DOMAIN g = DOMAIN f
    BY <1>4, <1>6, <1>7 DEF Numbers
  <2>2. (\A i \in DOMAIN f \ {k} : g[i] = f[i]) /\ g[k] = f[k] + 1
    BY <1>3, <1>4
  <2> HIDE DEF f, g
  <2>3. SumFunction(g) = SumFunction(f) + 1
    BY <2>1, <2>2, SumChanged
  <2>4. QED
    BY <2>3 DEF f, g
<1>9. SumFunction([i \in DOMAIN next |-> next[i].desired])
        = SumFunction([i \in DOMAIN rows |-> rows[i].desired]) + w.desired
  <2> DEFINE f == [i \in DOMAIN rows |-> rows[i].desired]
             g == [i \in DOMAIN next |-> next[i].desired]
  <2>1. Numbers(f) /\ k \in DOMAIN f /\ DOMAIN g = DOMAIN f
    BY <1>4, <1>6, <1>7 DEF Numbers
  <2>2. (\A i \in DOMAIN f \ {k} : g[i] = f[i]) /\ g[k] = f[k] + w.desired
    BY <1>3, <1>4
  <2> HIDE DEF f, g
  <2>3. SumFunction(g) = SumFunction(f) + w.desired
    BY <1>5, <2>1, <2>2, SumChanged
  <2>4. QED
    BY <2>3 DEF f, g
<1>10. SumFunction([i \in DOMAIN next |-> next[i].members]) = Cardinality(all)
  <2>1. Cardinality(all) = Cardinality(ms) + 1
    BY SumsAdd
  <2>2. SumFunction([i \in DOMAIN rows |-> rows[i].members]) = Cardinality(ms)
    BY Zenon DEF Amount
  <2>3. QED
    BY <1>8, <2>1, <2>2, Zenon
<1>11. SumFunction([i \in DOMAIN next |-> next[i].desired]) = SumFunction([v \in all |-> v.desired])
  <2>1. SumFunction([v \in all |-> v.desired]) = SumFunction([v \in ms |-> v.desired]) + w.desired
    BY SumsAdd
  <2>2. SumFunction([i \in DOMAIN rows |-> rows[i].desired]) = SumFunction([v \in ms |-> v.desired])
    BY Zenon DEF Amount
  <2>3. QED
    BY <1>9, <2>1, <2>2, Zenon
<1>12. \A i \in DOMAIN rows : next[i].release = rows[i].release
  BY <1>3, <1>4
<1>13. \A v \in all : ReleaseOf(v) # NoRelease => \E i \in DOMAIN next : next[i].release = ReleaseOf(v)
  BY <1>4, <1>12 DEF Amount
<1>14. ASSUME NEW i \in DOMAIN next, next[i].release # NoRelease
       PROVE  Part(next[i], Of(all, next[i].release))
  <2>1. CASE i = k
    <3>1. Of(all, ReleaseOf(w)) = own \cup {w}
      BY DEF Of
    <3>2. QED
      BY <1>3, <1>4, <2>1, <3>1
  <2>2. CASE i # k
    <3>1. next[i] = rows[i] /\ rows[i].release # ReleaseOf(w)
      BY <1>4, <1>14, <2>2
    <3>2. Of(all, rows[i].release) = Of(ms, rows[i].release)
      BY <3>1 DEF Of
    <3>3. QED
      BY <1>4, <1>14, <3>1, <3>2 DEF Amount
  <2>3. QED
    BY <2>1, <2>2
<1>15. QED
  BY <1>10, <1>11, <1>13, <1>14, Zenon DEF Amount, next, new

\* The order of the rows does not matter.
LEMMA AmountMoved ==
  ASSUME NEW rows \in Seq(RowType), NEW ms, Amount(rows, ms),
         NEW p \in Bijection(DOMAIN rows, DOMAIN rows), NEW next, next = [i \in DOMAIN rows |-> rows[p[i]]]
  PROVE  Amount(next, ms)
<1>1. /\ \A i \in DOMAIN rows : p[i] \in DOMAIN rows
      /\ \A j \in DOMAIN rows : \E i \in DOMAIN rows : p[i] = j
  BY DEF Bijection, Injection, Surjection, IsInjective
<1>2. DOMAIN next = DOMAIN rows /\ \A i \in DOMAIN rows : next[i] = rows[p[i]]
  OBVIOUS
<1>3. IsFiniteSet(DOMAIN rows) /\ \A i \in DOMAIN rows : rows[i].members \in Nat /\ rows[i].desired \in Nat
  <2>1. Len(rows) \in Nat /\ DOMAIN rows = 1..Len(rows) /\ \A i \in DOMAIN rows : rows[i] \in RowType
    OBVIOUS
  <2>2. IsFiniteSet(DOMAIN rows)
    BY <2>1, FS_Interval
  <2>3. QED
    BY <2>1, <2>2 DEF RowType
<1>4. SumFunction([i \in DOMAIN next |-> next[i].members]) = SumFunction([i \in DOMAIN rows |-> rows[i].members])
  <2> DEFINE f == [i \in DOMAIN rows |-> rows[i].members]
             g == [i \in DOMAIN next |-> next[i].members]
  <2>1. Numbers(f) /\ DOMAIN f = DOMAIN rows /\ DOMAIN g = DOMAIN f
    BY <1>2, <1>3 DEF Numbers
  <2>2. \A i \in DOMAIN f : g[i] = f[p[i]]
    BY <1>1, <1>2
  <2> HIDE DEF f, g
  <2>3. SumFunction(g) = SumFunction(f)
    BY <2>1, <2>2, SumMoved
  <2>4. QED
    BY <2>3 DEF f, g
<1>5. SumFunction([i \in DOMAIN next |-> next[i].desired]) = SumFunction([i \in DOMAIN rows |-> rows[i].desired])
  <2> DEFINE f == [i \in DOMAIN rows |-> rows[i].desired]
             g == [i \in DOMAIN next |-> next[i].desired]
  <2>1. Numbers(f) /\ DOMAIN f = DOMAIN rows /\ DOMAIN g = DOMAIN f
    BY <1>2, <1>3 DEF Numbers
  <2>2. \A i \in DOMAIN f : g[i] = f[p[i]]
    BY <1>1, <1>2
  <2> HIDE DEF f, g
  <2>3. SumFunction(g) = SumFunction(f)
    BY <2>1, <2>2, SumMoved
  <2>4. QED
    BY <2>3 DEF f, g
<1>6. \A w \in ms : ReleaseOf(w) # NoRelease => \E i \in DOMAIN next : next[i].release = ReleaseOf(w)
  <2> SUFFICES ASSUME NEW w \in ms, ReleaseOf(w) # NoRelease
               PROVE  \E i \in DOMAIN next : next[i].release = ReleaseOf(w)
    OBVIOUS
  <2>1. PICK j \in DOMAIN rows : rows[j].release = ReleaseOf(w)
    BY DEF Amount
  <2>2. PICK i \in DOMAIN rows : p[i] = j
    BY <1>1
  <2>3. QED
    BY <1>2, <2>1, <2>2
<1>7. \A i \in DOMAIN next : next[i].release # NoRelease => Part(next[i], Of(ms, next[i].release))
  BY <1>1, <1>2 DEF Amount
<1>8. QED
  BY <1>4, <1>5, <1>6, <1>7, Zenon DEF Amount

\* The workloads of the section that have been scanned, and the ignored ones.
Selected == {w \in list \ todo : Belongs(w)}
Skipped  == {w \in list \ todo : IsUnmanaged(w) /\ w.ns \in IgnoredNS}

\* The rows waiting to be collapsed are those of src, one each, and the rows
\* of the section amount to the rest of what was selected.
Waits(src) ==
  /\ src \in Injection(DOMAIN items, Selected)
  /\ \A k \in DOMAIN items : items[k] = Row(src[k])
  /\ Amount(out, Selected \ Range(src))

Adding ==
  /\ IsFiniteSet(list)
  /\ scanned = Cardinality(list \ todo)
  /\ ignored = Cardinality(Skipped)
  /\ \E src : Waits(src)

LEMMA SameSelection ==
  ASSUME UNCHANGED <<list, flux>>
  PROVE  \A w : IsUnmanaged(w)' <=> IsUnmanaged(w)
<1>1. FluxReleaseKeys' = FluxReleaseKeys
  BY DEF FluxReleaseKeys, ReleaseKey
<1>2. QED
  BY <1>1 DEF IsUnmanaged

LEMMA InjectionIs ==
  ASSUME NEW S, NEW T, NEW f
  PROVE  f \in Injection(S, T) <=> f \in [S -> T] /\ \A i, j \in S : f[i] = f[j] => i = j
BY DEF Injection, IsInjective

LEMMA AddingUnchanged ==
  ASSUME Adding, UNCHANGED <<list, flux, todo, items, out, scanned, ignored>>
  PROVE  Adding'
<1>1. Selected' = Selected /\ Skipped' = Skipped
  BY SameSelection DEF Selected, Skipped, Belongs
<1>2. \A src : Waits(src) => Waits(src)'
  BY <1>1 DEF Waits
<1>3. QED
  BY <1>1, <1>2 DEF Adding

LEMMA ScanAdds ==
  ASSUME RowsInv, Adding, NEW w \in list, Scan(w)
  PROVE  Adding'
<1>1. /\ UNCHANGED <<list, flux, out>> /\ todo' = todo \ {w} /\ w \in todo /\ scanned' = scanned + 1
      /\ ignored' = IF IsUnmanaged(w) /\ w.ns \in IgnoredNS THEN ignored + 1 ELSE ignored
      /\ items' = IF Belongs(w) THEN Append(items, Row(w)) ELSE items
  BY DEF Scan, Belongs
<1>2. w \in Workload /\ items \in Seq(RowType)
  BY DEF RowsInv, TypeOK
<1>3. \A v : IsUnmanaged(v)' <=> IsUnmanaged(v)
  BY <1>1, SameSelection
<1>4. list' \ todo' = (list \ todo) \cup {w} /\ w \notin list \ todo
  BY <1>1
<1>5. /\ Selected' = IF Belongs(w) THEN Selected \cup {w} ELSE Selected
      /\ Skipped' = IF IsUnmanaged(w) /\ w.ns \in IgnoredNS THEN Skipped \cup {w} ELSE Skipped
      /\ w \notin Selected /\ w \notin Skipped
  BY <1>1, <1>3, <1>4 DEF Selected, Skipped, Belongs
<1>6. IsFiniteSet(list \ todo) /\ IsFiniteSet(Skipped)
  <2>1. list \ todo \subseteq list /\ Skipped \subseteq list
    BY DEF Skipped
  <2>2. QED
    BY <2>1, FS_Subset DEF Adding
<1>7. scanned' = Cardinality(list' \ todo')
  BY <1>1, <1>4, <1>6, FS_AddElement DEF Adding
<1>8. ignored' = Cardinality(Skipped')
  <2>1. Cardinality(Skipped \cup {w}) = Cardinality(Skipped) + 1
    BY <1>5, <1>6, FS_AddElement
  <2>2. QED
    BY <1>1, <1>5, <2>1 DEF Adding
<1>9. PICK src : Waits(src)
  BY DEF Adding
<1>10. CASE ~Belongs(w)
  <2>1. items' = items /\ Selected' = Selected /\ out' = out
    BY <1>1, <1>5, <1>10
  <2>2. Waits(src)'
    BY <1>9, <2>1 DEF Waits
  <2>3. QED
    BY <1>1, <1>7, <1>8, <2>2 DEF Adding
<1>11. CASE Belongs(w)
  <2> DEFINE n == Len(items)
             next == [k \in DOMAIN items' |-> IF k = n + 1 THEN w ELSE src[k]]
  <2>1. Row(w) \in RowType
    BY <1>2, RowIs
  <2>2. /\ items' = Append(items, Row(w)) /\ n \in Nat /\ DOMAIN items = 1..n
        /\ DOMAIN items' = (1..n) \cup {n + 1}
        /\ items'[n + 1] = Row(w) /\ \A k \in 1..n : items'[k] = items[k]
    BY <1>1, <1>2, <1>11, <2>1
  <2>3. src \in [1..n -> Selected] /\ \A i, j \in 1..n : src[i] = src[j] => i = j
    BY <1>9, <2>2, InjectionIs DEF Waits
  <2>4. n + 1 \notin 1..n /\ Selected' = Selected \cup {w}
    BY <1>5, <1>11, <2>2
  <2> HIDE DEF n
  <2>5. /\ DOMAIN next = (1..n) \cup {n + 1} /\ next[n + 1] = w
        /\ \A k \in 1..n : next[k] = src[k]
    BY <2>2, <2>4
  <2>6. next \in [DOMAIN items' -> Selected']
    BY <2>2, <2>3, <2>4
  <2> HIDE DEF next
  <2>7. \A i, j \in DOMAIN items' : next[i] = next[j] => i = j
    BY <1>5, <2>2, <2>3, <2>5
  <2>8. Range(next) = Range(src) \cup {w}
    BY <2>3, <2>5 DEF Range
  <2>9. Selected' \ Range(next) = Selected \ Range(src)
    BY <1>5, <2>4, <2>8
  <2>10. next \in Injection(DOMAIN items', Selected')
    BY <2>6, <2>7, InjectionIs
  <2>11. \A k \in DOMAIN items' : items'[k] = Row(next[k])
    BY <1>9, <2>2, <2>5 DEF Waits
  <2>12. Amount(out', Selected' \ Range(next))
    BY <1>1, <1>9, <2>9, Zenon DEF Waits
  <2>13. PICK more : /\ more \in Injection(DOMAIN items', Selected')
                     /\ \A k \in DOMAIN items' : items'[k] = Row(more[k])
                     /\ Amount(out', Selected' \ Range(more))
    BY <2>10, <2>11, <2>12, Zenon
  <2>14. Waits(more)'
    BY <2>13 DEF Waits
  <2>15. QED
    BY <1>1, <1>7, <1>8, <2>14 DEF Adding
<1>12. QED
  BY <1>10, <1>11

LEMMA CollapseAdds ==
  ASSUME RowsInv, Adding, Collapse
  PROVE  Adding'
<1>1. UNCHANGED <<list, flux, todo, scanned, ignored>>
  BY DEF Collapse
<1>2. PICK src : Waits(src)
  BY DEF Adding
<1>3. CASE items = <<>>
  BY <1>1, <1>3, AddingUnchanged DEF Collapse
<1>4. CASE items # <<>>
  <2> DEFINE n == Len(items)
             w == src[1]
             next == [k \in DOMAIN items' |-> src[k + 1]]
             Taken == Selected \ Range(src)
  <2>1. items \in Seq(RowType) /\ out \in Seq(RowType) /\ list \subseteq Workload
    BY DEF RowsInv, TypeOK
  <2>2. items' = Tail(items)
    BY <1>4 DEF Collapse
  <2>3. /\ n \in Nat \ {0} /\ DOMAIN items = 1..n /\ DOMAIN items' = 1..(n - 1)
        /\ \A k \in 1..(n - 1) : items'[k] = items[k + 1]
        /\ Head(items) = items[1]
    BY <1>4, <2>1, <2>2
  <2>4. /\ src \in [1..n -> Selected] /\ \A i, j \in 1..n : src[i] = src[j] => i = j
        /\ \A k \in 1..n : items[k] = Row(src[k])
        /\ Amount(out, Taken)
    BY <1>2, <2>3, InjectionIs DEF Waits
  <2> HIDE DEF n
  <2>5. w \in Selected /\ w \in Workload /\ Head(items) = Row(w) /\ w \in Range(src)
    BY <2>1, <2>3, <2>4 DEF Selected, Range
  <2>6. /\ next \in [1..(n - 1) -> Selected]
        /\ \A i, j \in 1..(n - 1) : next[i] = next[j] => i = j
        /\ \A k \in 1..(n - 1) : items'[k] = Row(next[k])
    BY <2>3, <2>4
  <2>7. Range(next) = Range(src) \ {w}
    <3>1. \A v \in Range(next) : v \in Range(src) \ {w}
      <4> SUFFICES ASSUME NEW k \in 1..(n - 1) PROVE src[k + 1] \in Range(src) /\ src[k + 1] # w
        BY <2>3 DEF Range
      <4>1. k + 1 \in 1..n /\ 1 \in 1..n /\ k + 1 # 1
        BY <2>3
      <4>2. QED
        BY <2>4, <4>1 DEF Range
    <3>2. \A v \in Range(src) \ {w} : v \in Range(next)
      <4> SUFFICES ASSUME NEW k \in 1..n, k # 1 PROVE src[k] \in Range(next)
        BY <2>4 DEF Range
      <4>1. k - 1 \in 1..(n - 1) /\ (k - 1) + 1 = k
        BY <2>3
      <4>2. k - 1 \in DOMAIN next /\ next[k - 1] = src[k]
        BY <2>3, <4>1
      <4>3. QED
        BY <4>2 DEF Range
    <3>3. QED
      BY <3>1, <3>2
  <2> HIDE DEF next, w
  <2>8. Selected \ Range(next) = Taken \cup {w} /\ w \notin Taken
    BY <2>5, <2>7
  <2>9. Taken \subseteq Workload /\ IsFiniteSet(Taken)
    <3>1. Taken \subseteq list
      BY DEF Selected
    <3>2. QED
      BY <2>1, <3>1, FS_Subset DEF Adding
  <2> HIDE DEF Taken
  <2>10. Amount(out', Taken \cup {w})
    <3>1. Row(w).release = ReleaseOf(w)
      BY <2>5, RowIs
    <3>2. CASE At(ReleaseOf(w)) = {}
      <4>1. out' = Append(out, Founded(Row(w)))
        BY <1>4, <2>5, <3>1, <3>2 DEF Collapse
      <4>2. ReleaseOf(w) # NoRelease => \A i \in DOMAIN out : out[i].release # ReleaseOf(w)
        BY <3>2 DEF At
      <4>3. Amount(Append(out, Founded(Row(w))), Taken \cup {w})
        BY <2>1, <2>4, <2>5, <2>8, <2>9, <4>2, AmountFounded
      <4>4. QED
        BY <4>1, <4>3, Zenon
    <3>3. CASE At(ReleaseOf(w)) # {}
      <4>1. PICK i \in At(ReleaseOf(w)) : out' = [out EXCEPT ![i] = Joined(out[i], Row(w))]
        BY <1>4, <2>5, <3>1, <3>3 DEF Collapse
      <4>2. i \in DOMAIN out /\ ReleaseOf(w) # NoRelease /\ out[i].release = ReleaseOf(w)
        BY <4>1 DEF At
      <4>3. \A j \in DOMAIN out : out[j].release = ReleaseOf(w) => j = i
        BY <4>2 DEF RowsInv, Folded
      <4>4. Amount([out EXCEPT ![i] = Joined(out[i], Row(w))], Taken \cup {w})
        BY <2>1, <2>4, <2>5, <2>8, <2>9, <4>2, <4>3, AmountJoined
      <4>5. QED
        BY <4>1, <4>4, Zenon
    <3>4. QED
      BY <3>2, <3>3
  <2>11. Selected' = Selected /\ Skipped' = Skipped
    BY <1>1, SameSelection DEF Selected, Skipped, Belongs
  <2>12. next \in Injection(DOMAIN items', Selected')
    BY <2>3, <2>6, <2>11, InjectionIs
  <2>13. Amount(out', Selected' \ Range(next))
    BY <2>8, <2>10, <2>11, Zenon
  <2>14. \A k \in DOMAIN items' : items'[k] = Row(next[k])
    BY <2>3, <2>6
  <2>15. PICK rest : /\ rest \in Injection(DOMAIN items', Selected')
                     /\ \A k \in DOMAIN items' : items'[k] = Row(rest[k])
                     /\ Amount(out', Selected' \ Range(rest))
    BY <2>12, <2>13, <2>14, Zenon
  <2>16. Waits(rest)'
    BY <2>15 DEF Waits
  <2>17. QED
    BY <1>1, <2>11, <2>16 DEF Adding
<1>5. QED
  BY <1>3, <1>4

LEMMA SortAdds ==
  ASSUME RowsInv, Adding, Sort
  PROVE  Adding'
<1>1. UNCHANGED <<list, flux, todo, items, scanned, ignored>>
  BY DEF Sort
<1>2. PICK src : Waits(src)
  BY DEF Adding
<1>3. PICK p \in Bijection(DOMAIN out, DOMAIN out) : out' = [i \in DOMAIN out |-> out[p[i]]]
  BY DEF Sort
<1>4. Selected' = Selected /\ Skipped' = Skipped
  BY <1>1, SameSelection DEF Selected, Skipped, Belongs
<1>5. out \in Seq(RowType) /\ Amount(out, Selected \ Range(src))
  BY <1>2 DEF RowsInv, TypeOK, Waits
<1>6. Amount(out', Selected \ Range(src))
  BY <1>3, <1>5, AmountMoved
<1>7. Waits(src)'
  BY <1>1, <1>2, <1>4, <1>6 DEF Waits
<1>8. QED
  BY <1>1, <1>4, <1>7 DEF Adding

LEMMA BuildAdds == ASSUME RowsInv, Adding, Next PROVE Adding'
<1>1. ASSUME NEW w \in list, Scan(w) PROVE Adding'
  BY <1>1, ScanAdds
<1>2. CASE ScanNothing
  BY <1>2, AddingUnchanged DEF ScanNothing
<1>3. CASE Collapse
  BY <1>3, CollapseAdds
<1>4. CASE Sort
  BY <1>4, SortAdds
<1>5. QED
  BY <1>1, <1>2, <1>3, <1>4 DEF Next

\* Before anything is scanned there is nothing to add up.
LEMMA NothingAdds ==
  ASSUME IsFiniteSet(list), todo = list, items = <<>>, out = <<>>, scanned = 0, ignored = 0
  PROVE  Adding
<1>1. list \ todo = {} /\ Selected = {} /\ Skipped = {}
  BY DEF Selected, Skipped
<1>2. Cardinality({}) = 0 /\ IsFiniteSet({})
  BY FS_EmptySet
<1>3. DOMAIN items = {} /\ DOMAIN out = {}
  OBVIOUS
<1>4. Amount(out, {})
  <2>1. SumFunction([i \in DOMAIN out |-> out[i].members]) = 0
    BY <1>3, SumNone
  <2>2. SumFunction([i \in DOMAIN out |-> out[i].desired]) = 0
    BY <1>3, SumNone
  <2>3. SumFunction([w \in {} |-> w.desired]) = 0
    BY SumNone
  <2>4. QED
    BY <1>2, <1>3, <2>1, <2>2, <2>3 DEF Amount
<1> DEFINE src == [k \in DOMAIN items |-> k]
<1>5. src \in Injection(DOMAIN items, Selected) /\ Selected \ Range(src) = {}
  BY <1>1, <1>3, InjectionIs
<1>6. Waits(src)
  BY <1>3, <1>4, <1>5 DEF Waits
<1>7. QED
  BY <1>1, <1>2, <1>6 DEF Adding

LEMMA SectionAdds ==
  ASSUME SectionInv, Adding, UNCHANGED joint \/ SectionNext
  PROVE  Adding'
<1>1. CASE UNCHANGED joint
  BY <1>1, AddingUnchanged DEF joint, section, vars
<1>2. CASE Reading
  BY <1>2, AddingUnchanged DEF Reading, section, vars
<1>3. CASE BuildSection
  <2>1. /\ stage = "reading" /\ cluster' \in Lists /\ list' = {w \in cluster' : KindOf[w] \in answered}
        /\ todo' = list' /\ UNCHANGED <<items, out, scanned, ignored>>
    BY <1>3 DEF BuildSection
  <2>2. list = {} /\ todo = {} /\ items = <<>> /\ out = <<>>
    BY <2>1 DEF SectionInv, RowsInv, AllListed, Sectioned
  <2>3. scanned = 0 /\ ignored = 0
    <3>1. list \ todo = {} /\ Skipped = {}
      BY <2>2 DEF Skipped
    <3>2. QED
      BY <3>1, FS_EmptySet DEF Adding
  <2>4. IsFiniteSet(list')
    <3>1. IsFiniteSet(cluster') /\ list' \subseteq cluster'
      BY <2>1, UnmanagedAssumption
    <3>2. QED
      BY <3>1, FS_Subset
  <2>5. IsFiniteSet(list)' /\ (todo = list)' /\ (items = <<>>)' /\ (out = <<>>)' /\ (scanned = 0)' /\ (ignored = 0)'
    BY <2>1, <2>2, <2>3, <2>4
  <2>6. ASSUME (IsFiniteSet(list) /\ todo = list /\ items = <<>> /\ out = <<>> /\ scanned = 0 /\ ignored = 0)'
        PROVE  Adding'
    BY <2>6, NothingAdds, PTL
  <2>7. QED
    BY <2>5, <2>6
<1>4. CASE Build
  BY <1>4, BuildAdds DEF SectionInv, Build
<1>5. QED
  BY <1>1, <1>2, <1>3, <1>4 DEF SectionNext, ReturnOther

LEMMA Together ==
  ASSUME NEW S, NEW T, NEW all, IsFiniteSet(S), IsFiniteSet(T), S \cap T = {}, all = S \cup T
  PROVE  IsFiniteSet(all) /\ Cardinality(all) = Cardinality(S) + Cardinality(T)
<1>1. /\ IsFiniteSet(S \cup T)
      /\ Cardinality(S \cup T) = Cardinality(S) + Cardinality(T) - Cardinality(S \cap T)
  BY FS_Union
<1>2. Cardinality(S) \in Nat /\ Cardinality(T) \in Nat /\ Cardinality(S \cap T) = 0
  BY FS_CardinalityType, FS_EmptySet
<1>3. QED
  BY <1>1, <1>2

\* A finished section: every workload is claimed, ignored or in a row.
LEMMA FinishedAddsUp ==
  ASSUME RowsInv, Adding, stage = "done"
  PROVE  AccountedOnce /\ \A i \in DOMAIN out : out[i].release # NoRelease => Whole(out[i], Members(out[i].release))
<1>1. todo = {} /\ items = <<>>
  BY DEF RowsInv, AllListed
<1>2. Amount(out, Selected)
  <2>1. PICK src : Waits(src)
    BY DEF Adding
  <2>2. src \in [{} -> Selected]
    BY <1>1, <2>1, InjectionIs DEF Waits
  <2>3. Selected \ Range(src) = Selected
    BY <2>2 DEF Range
  <2>4. QED
    BY <2>1, <2>3, Zenon DEF Waits
<1>3. /\ Selected = {w \in list : Belongs(w)}
      /\ Skipped = {w \in list : IsUnmanaged(w) /\ w.ns \in IgnoredNS}
      /\ list \ todo = list
  BY <1>1 DEF Selected, Skipped
<1> DEFINE Others == {w \in list : ~IsUnmanaged(w)}
<1>4. IsFiniteSet(list) /\ IsFiniteSet(Selected) /\ IsFiniteSet(Skipped) /\ IsFiniteSet(Others) /\ IsFiniteSet(Claimed)
  <2>1. Selected \subseteq list /\ Skipped \subseteq list /\ Others \subseteq list /\ Claimed \subseteq list
    BY DEF Selected, Skipped, Claimed
  <2>2. QED
    BY <2>1, FS_Subset DEF Adding
<1>5. Cardinality(Selected) + Cardinality(Skipped) + Cardinality(Others) = Cardinality(list)
  <2> DEFINE Known == Selected \cup Skipped
  <2>1. Selected \cap Skipped = {} /\ Known \cap Others = {} /\ Known \cup Others = list
    BY <1>3 DEF Belongs
  <2> HIDE DEF Others
  <2>2. IsFiniteSet(Known) /\ Cardinality(Known) = Cardinality(Selected) + Cardinality(Skipped)
    BY <1>4, <2>1, Together
  <2> HIDE DEF Known
  <2>3. Cardinality(list) = Cardinality(Known) + Cardinality(Others)
    BY <1>4, <2>1, <2>2, Together
  <2>4. QED
    BY <2>2, <2>3
<1>6. Claimed \subseteq Others
  BY DEF Claimed, IsUnmanaged
<1>7. Cardinality(Claimed) <= Cardinality(Others) /\ Cardinality(Claimed) \in Nat /\ Cardinality(Others) \in Nat
  <2> HIDE DEF Others
  <2>1. QED
    BY <1>4, <1>6, FS_Subset, FS_CardinalityType
<1>8. Cardinality(Selected) \in Nat /\ Cardinality(Skipped) \in Nat /\ Cardinality(list) \in Nat
  BY <1>4, FS_CardinalityType
<1>9. scanned = Cardinality(list) /\ ignored = Cardinality(Skipped)
  BY <1>3, Zenon DEF Adding
<1>10. SumFunction([i \in DOMAIN out |-> out[i].members]) = Cardinality(Selected)
  BY <1>2, Zenon DEF Amount
<1>11. SumFunction([i \in DOMAIN out |-> out[i].desired]) <= SumFunction([w \in list |-> w.desired])
  <2> DEFINE f == [w \in Selected |-> w.desired]
             g == [w \in list |-> w.desired]
  <2>1. SumFunction([i \in DOMAIN out |-> out[i].desired]) = SumFunction(f)
    BY <1>2, Zenon DEF Amount
  <2>2. \A w \in list : w.desired \in Nat
    BY DEF RowsInv, TypeOK, Workload
  <2>3. Numbers(g) /\ DOMAIN f \subseteq DOMAIN g /\ \A w \in DOMAIN f : g[w] = f[w]
    BY <1>3, <1>4, <2>2 DEF Numbers
  <2> HIDE DEF f, g
  <2>4. SumFunction(f) <= SumFunction(g)
    BY <2>3, SumLess
  <2>5. QED
    BY <2>1, <2>4 DEF g
<1>12. BuildWorkloadStats.total = Cardinality(list)
       /\ BuildWorkloadStats.desired = SumFunction([w \in list |-> w.desired])
  BY DEF BuildWorkloadStats
<1>13. \A i, j \in DOMAIN out : out[i].release = out[j].release /\ out[i].release # NoRelease => i = j
  BY DEF RowsInv, Folded
<1>14. AccountedOnce
  <2> DEFINE listed == SumFunction([i \in DOMAIN out |-> out[i].members])
  <2>1. listed = Cardinality(Selected)
    BY <1>10
  <2> HIDE DEF listed, Others
  <2>2. listed + ignored + Cardinality(Claimed) <= scanned
    BY <1>5, <1>7, <1>8, <1>9, <2>1
  <2>3. listed + ignored + Cardinality(Others) = scanned
    BY <1>5, <1>7, <1>8, <1>9, <2>1
  <2>4. QED
    BY <1>9, <1>11, <1>12, <1>13, <2>2, <2>3, Zenon DEF AccountedOnce, listed, Others
<1>15. ASSUME NEW i \in DOMAIN out, out[i].release # NoRelease
       PROVE  Whole(out[i], Members(out[i].release))
  <2>1. Of(Selected, out[i].release) = Members(out[i].release)
    BY <1>3 DEF Of, Members, Belongs
  <2>2. Part(out[i], Of(Selected, out[i].release))
    BY <1>2, <1>15 DEF Amount
  <2>3. QED
    BY <2>1, <2>2, Zenon DEF Part
<1>16. QED
  BY <1>14, <1>15

-----------------------------------------------------------------------------
(* ListRunningPods: one page after another.                                *)

\* The pages so far carry what the first page's state has up to the token.
Prefix ==
  /\ collected = view \cap 1..token
  /\ page = 0 => token = 0 /\ result \in {"none", "error"}
  /\ result = "ok" => token = Objects

LEMMA PagingTypeStep == PagingTypeOK /\ [PagingNext]_paging => PagingTypeOK'
<1> USE PagingAssumption DEF PagingTypeOK
<1> SUFFICES ASSUME PagingTypeOK, [PagingNext]_paging PROVE PagingTypeOK'
  OBVIOUS
<1>1. CASE Change
  BY <1>1 DEF Change, Running
<1>2. CASE Compact
  BY <1>2 DEF Compact
<1>3. CASE PageFailed
  BY <1>3 DEF PageFailed, server
<1>4. ASSUME NEW last \in 0..Objects, Page(last) PROVE PagingTypeOK'
  BY <1>4 DEF Page, Items, Served, Keys
<1>5. CASE UNCHANGED paging
  BY <1>5 DEF paging, server
<1>6. QED
  BY <1>1, <1>2, <1>3, <1>4, <1>5 DEF PagingNext, PagingRequest

LEMMA PagingTypeInit == PagingInit => PagingTypeOK
<1> SUFFICES ASSUME PagingInit PROVE PagingTypeOK
  OBVIOUS
<1>1. 0 \in 0..Objects /\ 0 \in 0..MaxPages /\ 0 \in 0..Changes
  BY PagingAssumption
<1>2. QED
  BY <1>1 DEF PagingInit, PagingTypeOK

LEMMA PrefixStep == PagingTypeOK /\ Prefix /\ [PagingNext]_paging => Prefix'
<1> USE PagingAssumption DEF PagingTypeOK, Prefix
<1> SUFFICES ASSUME PagingTypeOK, Prefix, [PagingNext]_paging PROVE Prefix'
  OBVIOUS
<1>1. CASE Change
  BY <1>1 DEF Change
<1>2. CASE Compact
  BY <1>2 DEF Compact
<1>3. CASE PageFailed
  BY <1>3 DEF PageFailed, server
<1>4. ASSUME NEW last \in 0..Objects, Page(last) PROVE Prefix'
  <2>1. view' \cap 1..token = collected
    <3>1. CASE page = 0
      BY <3>1
    <3>2. CASE page # 0
      BY <1>4, <3>2 DEF Page, Served
    <3>3. QED
      BY <3>1, <3>2
  <2>2. collected' = collected \cup (view' \cap (token + 1 .. last)) /\ token' = last /\ token <= last
    BY <1>4 DEF Page, Items
  <2>3. 1..last = (1..token) \cup (token + 1 .. last)
    BY <2>2
  <2>4. collected' = view' \cap 1..token'
    BY <2>1, <2>2, <2>3
  <2>5. (page' = 0 => FALSE) /\ (result' = "ok" => token' = Objects)
    BY <1>4 DEF Page
  <2>6. QED
    BY <2>4, <2>5
<1>5. CASE UNCHANGED paging
  BY <1>5 DEF paging, server
<1>6. QED
  BY <1>1, <1>2, <1>3, <1>4, <1>5 DEF PagingNext, PagingRequest

\* The pages carry no more than a page each.
Bounded ==
  /\ IsFiniteSet(collected)
  /\ Cardinality(collected) <= PageLimit * page

LEMMA BoundedStep == PagingTypeOK /\ Bounded /\ [PagingNext]_paging => Bounded'
<1> SUFFICES ASSUME PagingTypeOK, Bounded, [PagingNext]_paging PROVE Bounded'
  OBVIOUS
<1>1. ASSUME NEW last \in 0..Objects, Page(last) PROVE Bounded'
  <2> DEFINE I == Items(last)
  <2>1. collected' = collected \cup I /\ page' = page + 1 /\ Cardinality(I) <= PageLimit
    BY <1>1 DEF Page
  <2>2. IsFiniteSet(I)
    <3>1. token + 1 \in Int /\ last \in Int
      BY PagingAssumption DEF PagingTypeOK
    <3>2. IsFiniteSet(token + 1 .. last)
      BY <3>1, FS_Interval
    <3>3. QED
      BY <3>2, FS_Intersection DEF Items
  <2>3. IsFiniteSet(collected') /\ Cardinality(collected') <= Cardinality(collected) + Cardinality(I)
    <3>1. IsFiniteSet(collected \cap I)
      BY <2>2, FS_Intersection
    <3>2. Cardinality(collected \cap I) \in Nat /\ Cardinality(collected) \in Nat /\ Cardinality(I) \in Nat
      BY <2>2, <3>1, FS_CardinalityType DEF Bounded
    <3>3. QED
      <4>1. /\ IsFiniteSet(collected \cup I)
            /\ Cardinality(collected \cup I) = Cardinality(collected) + Cardinality(I) - Cardinality(collected \cap I)
        BY <2>2, FS_Union DEF Bounded
      <4> HIDE DEF I
      <4>2. QED
        BY <2>1, <3>2, <4>1
  <2>4. Cardinality(collected) \in Nat /\ Cardinality(I) \in Nat /\ Cardinality(collected') \in Nat
    BY <2>2, <2>3, FS_CardinalityType DEF Bounded
  <2>5. PageLimit * (page + 1) = PageLimit * page + PageLimit
    BY PagingAssumption DEF PagingTypeOK
  <2>6. PageLimit * page \in Nat /\ PageLimit \in Nat
    BY PagingAssumption DEF PagingTypeOK
  <2>7. QED
    BY <2>1, <2>3, <2>4, <2>5, <2>6 DEF Bounded
<1>2. CASE UNCHANGED <<page, collected>>
  BY <1>2 DEF Bounded
<1>3. QED
  BY <1>1, <1>2 DEF PagingNext, PagingRequest, Change, Compact, PageFailed, paging

PagingInv == PagingTypeOK /\ Prefix /\ Bounded

-----------------------------------------------------------------------------
(* The two reads next to each other, and what follows.                     *)

ReadsVars == <<way, joint, paging>>

\* In every state of either read, what has been asked for is accounted for:
\* a kind is under way, answered or failed, a workload is waiting, selected
\* or shown, and a pod up to the token is collected.
THEOREM Invariance == ReadsSpec => [](SectionInv /\ PagingInv)
<1>1. ReadsInit => SectionInv /\ PagingInv
  <2> SUFFICES ASSUME ReadsInit PROVE SectionInv /\ PagingInv
    OBVIOUS
  <2>1. SectionInit /\ PagingInit
    BY DEF ReadsInit
  <2>2. Prefix
    BY <2>1 DEF PagingInit, Prefix
  <2>3. Bounded
    BY <2>1, PagingAssumption, FS_EmptySet DEF PagingInit, Bounded
  <2>4. QED
    BY <2>1, <2>2, <2>3, SectionInitHolds, PagingTypeInit DEF PagingInv
<1>2. SectionInv /\ PagingInv /\ [ReadsNext]_ReadsVars => SectionInv' /\ PagingInv'
  <2> SUFFICES ASSUME SectionInv, PagingInv, [ReadsNext]_ReadsVars
               PROVE  SectionInv' /\ PagingInv'
    OBVIOUS
  <2>1. CASE KindsNext
    BY <2>1, SectionStep, PagingTypeStep, PrefixStep, BoundedStep DEF KindsNext, PagingInv
  <2>2. CASE PagesNext
    BY <2>2, SectionUnchanged, PagingTypeStep, PrefixStep, BoundedStep DEF PagesNext, PagingInv
  <2>3. CASE UNCHANGED ReadsVars
    <3>1. UNCHANGED joint /\ UNCHANGED paging
      BY <2>3 DEF ReadsVars
    <3>2. QED
      BY <3>1, SectionUnchanged, PagingTypeStep, PrefixStep, BoundedStep DEF PagingInv
  <2>4. QED
    BY <2>1, <2>2, <2>3 DEF ReadsNext
<1>3. QED
  BY <1>1, <1>2, PTL DEF ReadsSpec, ReadsVars

\* What fetchWorkloads, fetchJobs and AppendFlux keep of a joined answer has
\* every kind in it or in its error, and is not of a read cut short.
THEOREM KeptIsHonestHolds == ReadsSpec => []KeptIsHonest
<1>1. SectionInv => KeptIsHonest
  BY DEF SectionInv, Joining, KeptIsHonest
<1>2. QED
  BY <1>1, Invariance, PTL

\* Nothing Flux is known to have installed is ever listed as unmanaged
\* (isUnmanaged, HelmRelease.ReleaseKey).
THEOREM FluxIsNotListedHolds == ReadsSpec => []FluxIsNotListed
<1>1. TypeOK /\ RowsJudged => FluxIsNotListed
  <2>1. SUFFICES ASSUME TypeOK, RowsJudged, NEW i \in DOMAIN out, NEW h \in flux,
                        out[i].release # NoRelease,
                        out[i].ns = (IF h.target # None THEN h.target ELSE h.ns),
                        out[i].name = (IF h.as # None THEN h.as ELSE h.name)
                 PROVE  FALSE
    BY DEF FluxIsNotListed
  <2>2. out[i].release \in Release
    <3>1. out[i] \in RowType
      BY <2>1 DEF TypeOK
    <3>2. QED
      BY <2>1, <3>1 DEF RowType
  <2>3. out[i].release = <<out[i].ns, out[i].name>>
    BY <2>1, <2>2 DEF RowsJudged, Judged, Named, Release
  <2>4. ReleaseKey(h) = <<out[i].ns, out[i].name>>
    BY <2>1 DEF ReleaseKey, Default
  <2>5. ReleaseKey(h) \in FluxReleaseKeys
    BY DEF FluxReleaseKeys
  <2>6. QED
    BY <2>1, <2>3, <2>4, <2>5 DEF RowsJudged, Judged
<1>2. SectionInv => TypeOK /\ RowsJudged
  BY DEF SectionInv, RowsInv
<1>3. QED
  BY <1>1, <1>2, Invariance, PTL

\* In whatever order the kinds answer or fail, a workload of the cluster that
\* belongs in the section is in it, and reads DEGRADED if it misses a
\* replica, unless the section carries the error of its kind.
THEOREM NothingMissing == ReadsSpec => []NothingSilentlyMissing
<1>1. SectionInv => NothingSilentlyMissing
  <2> SUFFICES ASSUME SectionInv, stage = "done", NEW w \in Unclaimed, KindOf[w] \notin DOMAIN kept.errs
               PROVE  \E i \in DOMAIN out :
                        /\ out[i].ns = w.ns
                        /\ out[i].name = IF ReleaseOf(w) = NoRelease THEN w.name ELSE w.instance
                        /\ w.ready < w.desired => out[i].state = "DEGRADED"
    BY DEF NothingSilentlyMissing
  <2>1. w \in cluster /\ Belongs(w)
    BY DEF Unclaimed, Belongs
  <2>2. /\ kept.known /\ what = "workloads" /\ cluster \in Lists
        /\ list = {v \in cluster : KindOf[v] \in kept.kinds}
    BY DEF SectionInv, Sectioned
  <2>3. KindOf[w] \in kept.kinds
    <3>1. KindOf[w] \in Read!Kinds["workloads"]
      BY <2>1, <2>2, ReadsAssumption DEF Read!Kinds
    <3>2. kept.kinds \cup DOMAIN kept.errs = Read!Kinds["workloads"]
      BY <2>2 DEF SectionInv, Joining, Read!KeptIsHonest, Read!All
    <3>3. QED
      BY <3>1, <3>2
  <2>4. Listed(w) /\ todo = {} /\ items = <<>>
    BY <2>1, <2>2, <2>3 DEF SectionInv, RowsInv, AllListed
  <2>5. PICK i \in DOMAIN out : Shows(out[i], w)
    BY <2>4 DEF Listed
  <2>6. ReleaseOf(w) # NoRelease => out[i].name = w.instance
    <3>1. ReleaseOf(w) # NoRelease => ReleaseOf(w)[2] = w.instance
      BY DEF ReleaseOf
    <3>2. QED
      BY <2>5, <3>1 DEF SectionInv, RowsInv, RowsJudged, Named, Shows
  <2>7. QED
    BY <2>5, <2>6 DEF Shows
<1>2. QED
  BY <1>1, Invariance, PTL

\* Also while the rows are being made each release has one row ...
OneRowPerRelease ==
  \A i, j \in DOMAIN out : out[i].release = out[j].release /\ out[i].release # NoRelease => i = j

\* ... which in a finished section is DEGRADED just when one of its members
\* misses a replica.
DegradedForAMember ==
  stage = "done" =>
    \A i \in DOMAIN out : out[i].release # NoRelease =>
      (out[i].state = "DEGRADED" <=> \E w \in Members(out[i].release) : w.ready < w.desired)

\* However its members are spread over the kinds and in whatever order they
\* are folded, a Helm release has one row, whose state neither hides a broken
\* member nor makes one up (collapseReleases).
THEOREM ReleasesAreWhole == ReadsSpec => [](OneRowPerRelease /\ DegradedForAMember)
<1>1. SectionInv => OneRowPerRelease
  BY DEF SectionInv, RowsInv, Folded, OneRowPerRelease
<1>2. SectionInv => DegradedForAMember
  <2> SUFFICES ASSUME SectionInv, stage = "done", NEW i \in DOMAIN out, out[i].release # NoRelease
               PROVE  out[i].state = "DEGRADED" <=> \E w \in Members(out[i].release) : w.ready < w.desired
    BY DEF DegradedForAMember
  <2>1. ASSUME out[i].state = "DEGRADED" PROVE \E w \in Members(out[i].release) : w.ready < w.desired
    BY <2>1 DEF SectionInv, RowsInv, Folded, ForAReason, Founder, Belongs, Members
  <2>2. ASSUME NEW w \in Members(out[i].release), w.ready < w.desired PROVE out[i].state = "DEGRADED"
    <3>1. w \in list /\ Belongs(w) /\ ReleaseOf(w) = out[i].release
      BY <2>2 DEF Members, Belongs
    <3>2. Listed(w) /\ todo = {} /\ items = <<>>
      BY <3>1 DEF SectionInv, RowsInv, AllListed
    <3>3. PICK j \in DOMAIN out : Shows(out[j], w)
      BY <3>2 DEF Listed
    <3>4. i = j
      BY <1>1, <3>1, <3>3 DEF Shows, OneRowPerRelease
    <3>5. QED
      BY <2>2, <3>3, <3>4 DEF Shows
  <2>3. QED
    BY <2>1, <2>2
<1>3. QED
  BY <1>1, <1>2, Invariance, PTL

\* The rows of a finished section amount to the workloads of the list,
\* whatever kinds answered and in whatever order: each is claimed, ignored or a
\* member of one row, and each release has the counters, the state and the
\* version of all its members (BuildUnmanaged, collapseReleases).
THEOREM RowsAddUpHolds == ReadsSpec => []RowsAddUp
<1>1. ReadsInit => Adding
  <2>1. ReadsInit => IsFiniteSet(list) /\ todo = list /\ items = <<>> /\ out = <<>> /\ scanned = 0 /\ ignored = 0
    BY FS_EmptySet DEF ReadsInit, SectionInit
  <2>2. QED
    BY <2>1, NothingAdds
<1>2. SectionInv /\ Adding /\ [ReadsNext]_ReadsVars => Adding'
  BY SectionAdds DEF ReadsNext, KindsNext, PagesNext, ReadsVars
<1>3. SectionInv /\ Adding => RowsAddUp
  BY FinishedAddsUp DEF SectionInv, RowsAddUp
<1>4. ReadsSpec => []SectionInv
  BY Invariance, PTL
<1>5. QED
  BY <1>1, <1>2, <1>3, <1>4, PTL DEF ReadsSpec, ReadsVars

\* A list of running pods that is returned is the whole list, whatever the
\* server puts on each page and whatever comes and goes meanwhile, and is
\* never that of a cluster that runs more pods than the cap can carry.
THEOREM NoTruncatedAnswerHolds == ReadsSpec => []NoTruncatedAnswer
<1>1. PagingInv => NoTruncatedAnswer
  <2> SUFFICES ASSUME PagingInv, result = "ok"
               PROVE  collected = view /\ Cardinality(view) <= PageLimit * MaxPages
    BY DEF NoTruncatedAnswer
  <2>1. collected = view /\ IsFiniteSet(view) /\ Cardinality(view) <= PageLimit * page
    BY DEF PagingInv, PagingTypeOK, Prefix, Keys, Bounded
  <2>2. PageLimit * page <= PageLimit * MaxPages
    BY PagingAssumption DEF PagingInv, PagingTypeOK
  <2>3. Cardinality(view) \in Nat /\ PageLimit * page \in Nat /\ PageLimit * MaxPages \in Nat
    BY <2>1, PagingAssumption, FS_CardinalityType DEF PagingInv, PagingTypeOK
  <2>4. QED
    BY <2>1, <2>2, <2>3
<1>2. QED
  BY <1>1, Invariance, PTL
=============================================================================

-------------------------------- MODULE Build --------------------------------
(***************************************************************************)
(* internal/status: Build folds the Application list into the rows and     *)
(* tiles of a Snapshot, AppendFlux folds the Flux objects into the same    *)
(* table, and Health makes one percentage of the tiles.                    *)
(*                                                                         *)
(* An Application is [name, kids, pruned, strays, phase, health, sync]:    *)
(* kids are the Applications among its resources, pruned those of them     *)
(* that require pruning, and strays the names of its other resources that  *)
(* do.  A Flux object is [name, ns, kind, suspend, ready, reconciling,     *)
(* stalled], a condition that is not reported being "None".                *)
(***************************************************************************)
EXTENDS Integers, Sequences, FiniteSets, FiniteSetsExt, Functions

CONSTANTS
  Inputs,    \* the pairs of lists an instance starts from
  Roots,     \* ROOT_APP_NAME, None when it is not set
  Ignored,   \* names matched by IGNORE_GLOBS
  GPUNames   \* names matched by GPU_GLOBS

None == 0    \* names are numbers, in alphabetical order
Healths == {"Healthy", "Degraded", "Missing", "Unknown", "", "Progressing", "Suspended"}
Syncs   == {"Synced", "OutOfSync", "Unknown"}
States  == {"DEGRADED", "WARNING", "PROGRESSING", "DRIFT", "PRUNE", "SUSPENDED", "OK"}
Conditions == {"None", "True", "False", "Unknown"}
Fields  == {"Degraded", "Warning", "Progressing", "Drift", "Prune", "Suspended", "OK"}

Application ==
  [name : Nat \ {None}, kids : SUBSET Nat, pruned : SUBSET Nat, strays : SUBSET Nat,
   phase : {"Running", "Succeeded"}, health : Healths, sync : Syncs]
FluxObject ==
  [name : Nat \ {None}, ns : Nat, kind : {"HelmRelease", "Kustomization"}, suspend : BOOLEAN,
   ready : Conditions, reconciling : Conditions, stalled : Conditions]

ASSUME InputsAssumption ==
  /\ Inputs \subseteq [apps : Seq(Application), flux : Seq(FluxObject)]
  /\ Roots \subseteq Nat /\ Ignored \subseteq Nat /\ GPUNames \subseteq Nat

VARIABLES
  input,     \* the two lists
  rootName,  \* rootName: given, or found by detectRootApp
  stage,     \* which loop is running
  at,        \* its index
  services,  \* snap.Services
  total, hidden, gpu,  \* the counters of snap.Summary of these names
  tiles      \* its seven counters of rows, by the names of the fields

summary == <<total, hidden, gpu, tiles>>
vars    == <<input, rootName, stage, at, services, summary>>

Init ==
  /\ input \in Inputs /\ rootName \in Roots
  /\ stage = "detect" /\ at = 1
  /\ services = <<>> /\ tiles = [f \in Fields |-> 0]
  /\ total = 0 /\ hidden = 0 /\ gpu = 0

-----------------------------------------------------------------------------
(* The root Application and what it says of the others.                    *)

Kids(k) == Cardinality(input.apps[k].kids)

\* The first of the Applications that own the most others, if any owns one.
DetectRootApp ==
  LET apps == input.apps
      best == {k \in DOMAIN apps : /\ Kids(k) > 0
                                   /\ \A j \in DOMAIN apps : Kids(j) <= Kids(k)
                                   /\ \A j \in DOMAIN apps : Kids(j) = Kids(k) => k <= j}
  IN  IF best = {} THEN None ELSE apps[CHOOSE k \in best : TRUE].name

RootOf(apps) == {k \in DOMAIN apps : apps[k].name = rootName}

\* Keyed by the name of the resource, whatever its kind.
Prune == UNION {input.apps[k].pruned \cup input.apps[k].strays : k \in RootOf(input.apps)}

RootSettled == \A k \in RootOf(input.apps) : input.apps[k].phase # "Running"

Mut_ClassifyDriftFirst(app) ==                   \* OutOfSync is looked at before the root is
  IF app.name \in Prune THEN "PRUNE"
  ELSE IF app.health \in {"Degraded", "Missing"} THEN "DEGRADED"
  ELSE IF app.health \in {"Unknown", ""} THEN "WARNING"
  ELSE IF app.health = "Progressing" THEN "PROGRESSING"
  ELSE IF app.health = "Suspended" THEN "SUSPENDED"
  ELSE IF app.sync = "OutOfSync" THEN "DRIFT" ELSE "OK"
Mut_ClassifyEmptyHealth(app) ==                  \* without normalizeHealth
  IF app.name \in Prune THEN "PRUNE"
  ELSE IF app.health \in {"Degraded", "Missing"} THEN "DEGRADED"
  ELSE IF app.health = "Unknown" THEN "WARNING"
  ELSE IF app.health = "Progressing" \/ (~RootSettled /\ app.sync = "OutOfSync") THEN "PROGRESSING"
  ELSE IF app.health = "Suspended" THEN "SUSPENDED"
  ELSE IF app.sync = "OutOfSync" THEN "DRIFT" ELSE "OK"
\* First match wins; an empty health was made Unknown by normalizeHealth.
Classify(app) ==
  IF app.name \in Prune THEN "PRUNE"
  ELSE IF app.health \in {"Degraded", "Missing"} THEN "DEGRADED"
  ELSE IF app.health \in {"Unknown", ""} THEN "WARNING"
  ELSE IF app.health = "Progressing" \/ (~RootSettled /\ app.sync = "OutOfSync") THEN "PROGRESSING"
  ELSE IF app.health = "Suspended" THEN "SUSPENDED"
  ELSE IF app.sync = "OutOfSync" THEN "DRIFT" ELSE "OK"

\* fluxVerdict: suspend, then a failure, then a rollout, then Ready.
FluxVerdict(obj) ==
  IF obj.suspend THEN "SUSPENDED"
  ELSE IF obj.ready = "False" THEN "DEGRADED"
  ELSE IF obj.stalled = "True" THEN "WARNING"
  ELSE IF obj.reconciling = "True" THEN "PROGRESSING"
  ELSE IF obj.ready = "True" THEN "OK" ELSE "WARNING"

AppRow(app) ==
  [name |-> app.name, ns |-> None, kind |-> "", source |-> "argocd", sync |-> app.sync,
   gpu |-> app.name \in GPUNames, state |-> Classify(app)]
FluxRow(obj) ==
  [name |-> obj.name, ns |-> obj.ns, kind |-> obj.kind, source |-> "flux", sync |-> "",
   gpu |-> obj.name \in GPUNames, state |-> FluxVerdict(obj)]

-----------------------------------------------------------------------------
(* addService and the loops that call it.                                  *)

Mut_Field(state) ==                              \* the case of PRUNE copied from that of DRIFT
  CASE state = "OK"          -> "OK"
    [] state = "DEGRADED"    -> "Degraded"
    [] state = "WARNING"     -> "Warning"
    [] state = "PROGRESSING" -> "Progressing"
    [] state = "DRIFT"       -> "Drift"
    [] state = "PRUNE"       -> "Drift"
    [] state = "SUSPENDED"   -> "Suspended"
\* The counter each case of addService increments.
Field(state) ==
  CASE state = "OK"          -> "OK"
    [] state = "DEGRADED"    -> "Degraded"
    [] state = "WARNING"     -> "Warning"
    [] state = "PROGRESSING" -> "Progressing"
    [] state = "DRIFT"       -> "Drift"
    [] state = "PRUNE"       -> "Prune"
    [] state = "SUSPENDED"   -> "Suspended"

AddService(svc) ==
  /\ services' = Append(services, svc)
  /\ total' = total + 1 /\ gpu' = gpu + (IF svc.gpu THEN 1 ELSE 0)
  /\ tiles' = [tiles EXCEPT ![Field(svc.state)] = @ + 1]
  /\ UNCHANGED hidden

Hide == hidden' = hidden + 1 /\ UNCHANGED <<services, total, gpu, tiles>>

\* Picks the root and reads the prune flags off it.
Detect ==
  /\ stage = "detect"
  /\ rootName' = IF rootName = None THEN DetectRootApp ELSE rootName
  /\ stage' = "apps"
  /\ UNCHANGED <<input, at, services, summary>>

\* The root is no row, not even a hidden one.
FoldApp ==
  /\ stage = "apps" /\ at <= Len(input.apps)
  /\ LET app == input.apps[at] IN
       \/ app.name = rootName /\ UNCHANGED <<services, summary>>
       \/ app.name # rootName /\ app.name \in Ignored /\ Hide
       \/ app.name # rootName /\ app.name \notin Ignored /\ AddService(AppRow(app))
  /\ at' = at + 1
  /\ UNCHANGED <<input, rootName, stage>>

FoldFlux ==
  /\ stage = "flux" /\ at <= Len(input.flux)
  /\ LET obj == input.flux[at] IN
       \/ obj.name \in Ignored /\ Hide
       \/ obj.name \notin Ignored /\ AddService(FluxRow(obj))
  /\ at' = at + 1
  /\ UNCHANGED <<input, rootName, stage>>

Severity == [DEGRADED |-> 0, WARNING |-> 1, PROGRESSING |-> 2, DRIFT |-> 3, PRUNE |-> 4,
             SUSPENDED |-> 5, OK |-> 6]
Key(row) == <<Severity[row.state], row.name, IF row.source = "argocd" THEN 0 ELSE 1, row.ns>>

\* Lexicographic order of the keys of sortServices.
Before(a, b) ==
  \E i \in 1..4 : /\ Key(a)[i] < Key(b)[i]
                  /\ \A j \in 1..i - 1 : Key(a)[j] = Key(b)[j]

\* sort.Slice promises no order for rows that compare equal.
Arrangements(rows) ==
  {[k \in DOMAIN rows |-> rows[p[k]]] : p \in Bijection(DOMAIN rows, DOMAIN rows)}

Sorted(rows) == \A k \in 1..Len(rows) - 1 : ~Before(rows[k + 1], rows[k])

\* The end of Build, and of AppendFlux.
SortServices ==
  /\ \/ stage = "apps" /\ at > Len(input.apps) /\ stage' = "flux"
     \/ stage = "flux" /\ at > Len(input.flux) /\ stage' = "done"
  /\ at' = 1
  /\ services' \in {rows \in Arrangements(services) : Sorted(rows)}
  /\ UNCHANGED <<input, rootName, summary>>

Next == Detect \/ FoldApp \/ FoldFlux \/ SortServices

Spec == Init /\ [][Next]_vars

-----------------------------------------------------------------------------
(* Health.                                                                 *)

Mut_Health ==                                    \* a rollout counts against the percentage
  LET counted == total - tiles["Prune"] - tiles["Suspended"]
  IN [known |-> counted > 0, counted |-> counted, ok |-> tiles["OK"],
      percent |-> IF counted > 0 THEN (200 * tiles["OK"] + counted) \div (2 * counted) ELSE 0]
\* OK and PROGRESSING as a share of all but PRUNE and SUSPENDED, rounded half
\* up: math.Round of a number that is not negative.
Health ==
  LET counted == total - tiles["Prune"] - tiles["Suspended"]
      ok == tiles["OK"] + tiles["Progressing"]
  IN [known |-> counted > 0, counted |-> counted, ok |-> ok,
      percent |-> IF counted > 0 THEN (200 * ok + counted) \div (2 * counted) ELSE 0]

\* The tiles of the page: what stands under the name of each state, which is
\* also the filter its link sets.
Tiles ==
  [DEGRADED |-> tiles["Degraded"], WARNING |-> tiles["Warning"],
   PROGRESSING |-> tiles["Progressing"], DRIFT |-> tiles["Drift"], PRUNE |-> tiles["Prune"],
   SUSPENDED |-> tiles["Suspended"], OK |-> tiles["OK"]]

\* The Health ring: one arc for each counted state, healthy ones first; where
\* the arcs of the first n states end, in rows, the whole ring being Arc(5).
HealthRingOrder == <<"OK", "PROGRESSING", "DRIFT", "WARNING", "DEGRADED">>
Arc(n) ==
  LET size(i) == IF i <= n THEN Tiles[HealthRingOrder[i]] ELSE 0
  IN  size(1) + size(2) + size(3) + size(4) + size(5)

-----------------------------------------------------------------------------
(* Properties.                                                             *)

Row == [name : Nat \ {None}, ns : Nat, kind : {"", "HelmRelease", "Kustomization"},
        source : {"argocd", "flux"}, sync : Syncs \cup {""}, gpu : BOOLEAN, state : States]

\* Every variable has its type.
TypeOK ==
  /\ input \in [apps : Seq(Application), flux : Seq(FluxObject)] /\ rootName \in Nat
  /\ stage \in {"detect", "apps", "flux", "done"} /\ at \in Nat \ {0}
  /\ services \in Seq(Row)
  /\ total \in Nat /\ hidden \in Nat /\ gpu \in Nat /\ tiles \in [Fields -> Nat]

TileSum ==
  tiles["Degraded"] + tiles["Warning"] + tiles["Progressing"] + tiles["Drift"] +
  tiles["Prune"] + tiles["Suspended"] + tiles["OK"]

InState(s) == {k \in DOMAIN services : services[k].state = s}

\* "the tiles keep summing to the service total whatever produced the row"
\* (addService), and the total is the number of rows.
TilesSum == total = TileSum /\ total = Len(services)

\* The number on each tile of the page is the number of rows in the state it
\* names, and the GPU figure that of the GPU rows: through both folds, both
\* sorts, the seven cases of addService and the seven fields the page reads.
TilesCountRows ==
  /\ \A s \in States : Tiles[s] = Cardinality(InState(s))
  /\ gpu = Cardinality({k \in DOMAIN services : services[k].gpu})

\* The object the row is named for reports nothing that is wrong.
AppWell(row) ==
  \E k \in DOMAIN input.apps :
    LET app == input.apps[k] IN
      app.name = row.name /\ app.sync = row.sync /\ app.sync # "OutOfSync" /\ app.health = "Healthy"
FluxWell(row) ==
  \E k \in DOMAIN input.flux :
    LET obj == input.flux[k] IN
      /\ obj.name = row.name /\ obj.ns = row.ns /\ obj.kind = row.kind
      /\ ~obj.suspend /\ obj.ready = "True" /\ "True" \notin {obj.reconciling, obj.stalled}

\* A row is OK only when nothing its controller reports says otherwise.
CalmIsEarned ==
  \A k \in DOMAIN services :
    services[k].state = "OK" =>
      IF services[k].source = "argocd" THEN AppWell(services[k]) ELSE FluxWell(services[k])

\* "Rule 6 therefore only fires on settled drift": no row drifts while the
\* root Application is still syncing.
DriftIsSettled ==
  \A k \in DOMAIN services : services[k].state = "DRIFT" => RootSettled

\* "Flux rows never appear in either": not even when the root would prune
\* something of the same name.
FluxNeverDrifts ==
  \A k \in DOMAIN services :
    services[k].source = "flux" => services[k].state \notin {"DRIFT", "PRUNE"}

\* The percentage needs no clamp, is known exactly when some row counts, and
\* is within half a point of the share of the rows themselves; and the ring
\* drawn around it agrees, "exactly the percent printed in the middle".
HealthIsShare ==
  LET counts == DOMAIN services \ (InState("PRUNE") \cup InState("SUSPENDED"))
      good   == InState("OK") \cup InState("PROGRESSING")
      h      == Health
      off    == 2 * (100 * Cardinality(good) - h.percent * Cardinality(counts))
  IN  /\ h.known <=> counts # {}
      /\ h.ok <= h.counted
      /\ h.percent \in 0..100
      /\ off <= Cardinality(counts) /\ -off <= Cardinality(counts)
      /\ Arc(5) = h.counted /\ Arc(2) = h.ok
=============================================================================

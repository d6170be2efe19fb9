----------------------------- MODULE BuildProofs -----------------------------
(***************************************************************************)
(* Theorems about Build, for every Application list and every Flux list.   *)
(***************************************************************************)
EXTENDS Build, FiniteSetTheorems, TLAPS

(* Every verdict is one of the seven states, so every row has a tile. *)
LEMMA RowTypes ==
  /\ \A app \in Application : AppRow(app) \in Row
  /\ \A obj \in FluxObject : FluxRow(obj) \in Row
<1>1. ASSUME NEW app \in Application PROVE AppRow(app) \in Row
  <2>1. Classify(app) \in States
    BY DEF Classify, States
  <2>2. app.name \in Nat \ {None} /\ app.sync \in Syncs
    BY DEF Application
  <2>3. None \in Nat /\ (app.name \in GPUNames) \in BOOLEAN
    BY DEF None
  <2>4. QED
    BY <2>1, <2>2, <2>3 DEF AppRow, Row
<1>2. ASSUME NEW obj \in FluxObject PROVE FluxRow(obj) \in Row
  <2>1. FluxVerdict(obj) \in States
    BY DEF FluxVerdict, States
  <2>2. obj.name \in Nat \ {None} /\ obj.ns \in Nat /\ obj.kind \in {"HelmRelease", "Kustomization"}
    BY DEF FluxObject
  <2>3. (obj.name \in GPUNames) \in BOOLEAN
    OBVIOUS
  <2>4. QED
    BY <2>1, <2>2, <2>3 DEF FluxRow, Row
<1>3. QED
  BY <1>1, <1>2

(* The switch of addService and the tiles of the page agree: no two states  *)
(* share a counter, and each tile shows the counter of its state.           *)
LEMMA FieldOfState ==
  /\ \A s \in States : Field(s) \in Fields
  /\ \A s, t \in States : s # t => Field(s) # Field(t)
  /\ \A s \in States : Tiles[s] = tiles[Field(s)]
<1>1. \A s \in States : Field(s) \in Fields
  BY DEF Field, States, Fields
<1>2. /\ Field("OK") = "OK" /\ Field("DEGRADED") = "Degraded" /\ Field("WARNING") = "Warning"
      /\ Field("PROGRESSING") = "Progressing" /\ Field("DRIFT") = "Drift"
      /\ Field("PRUNE") = "Prune" /\ Field("SUSPENDED") = "Suspended"
  BY DEF Field
<1>3. \A s, t \in States : s # t => Field(s) # Field(t)
  BY <1>2 DEF States
<1>4. \A s \in States : Tiles[s] = tiles[Field(s)]
  BY <1>2 DEF States, Tiles
<1>5. QED
  BY <1>1, <1>3, <1>4

(* addService keeps the types. *)
LEMMA AddServiceTypes ==
  ASSUME TypeOK, NEW svc \in Row, AddService(svc)
  PROVE  /\ services' \in Seq(Row)
         /\ total' \in Nat /\ gpu' \in Nat /\ hidden' \in Nat /\ tiles' \in [Fields -> Nat]
<1>1. /\ tiles \in [Fields -> Nat] /\ svc.state \in States /\ svc.gpu \in BOOLEAN
      /\ Field(svc.state) \in Fields
  BY FieldOfState DEF TypeOK, Row
<1>2. tiles' \in [Fields -> Nat]
  BY <1>1 DEF AddService
<1>3. QED
  BY <1>1, <1>2 DEF AddService, TypeOK

(* A sorted table is an arrangement of the rows there were: it has as many *)
(* of them, and each is one of them.                                       *)
LEMMA ArrangedRows ==
  ASSUME services \in Seq(Row), NEW rows \in Arrangements(services)
  PROVE  /\ rows \in Seq(Row)
         /\ Len(rows) = Len(services)
         /\ \A k \in DOMAIN rows : \E j \in DOMAIN services : rows[k] = services[j]
<1> DEFINE D == DOMAIN services
<1>1. D = 1..Len(services) /\ Len(services) \in Nat
  OBVIOUS
<1>2. PICK p \in Bijection(D, D) : rows = [k \in D |-> services[p[k]]]
  BY DEF Arrangements
<1>3. p \in [D -> D]
  BY DEF Bijection, Injection
<1>4. \A k \in D : rows[k] = services[p[k]] /\ p[k] \in D
  BY <1>2, <1>3
<1>5. rows \in [1..Len(services) -> Row]
  BY <1>1, <1>2, <1>3
<1>6. rows \in Seq(Row) /\ Len(rows) = Len(services)
  BY <1>1, <1>5
<1>7. QED
  BY <1>1, <1>4, <1>6

(* Sorting moves rows about and changes none, so any set of positions is   *)
(* carried to one of the same size.                                        *)
LEMMA ArrangedCount ==
  ASSUME services \in Seq(Row), NEW p \in Bijection(DOMAIN services, DOMAIN services),
         NEW S \in SUBSET DOMAIN services
  PROVE  Cardinality({k \in DOMAIN services : p[k] \in S}) = Cardinality(S)
<1> DEFINE D == DOMAIN services
           U == {k \in D : p[k] \in S}
           f == [k \in U |-> p[k]]
<1>1. D = 1..Len(services) /\ Len(services) \in Nat /\ IsFiniteSet(D)
  BY FS_Interval
<1>2. /\ p \in [D -> D]
      /\ \A i, j \in D : p[i] = p[j] => i = j
      /\ \A s \in D : \E k \in D : p[k] = s
  BY DEF Bijection, Injection, Surjection, IsInjective
<1>3. f \in [U -> S]
  OBVIOUS
<1>4. \A i, j \in U : f[i] = f[j] => i = j
  BY <1>2
<1>5. \A s \in S : \E k \in U : f[k] = s
  BY <1>2
<1>6. f \in Bijection(U, S)
  BY <1>3, <1>4, <1>5 DEF Bijection, Injection, Surjection, IsInjective
<1>7. ExistsBijection(U, S)
  BY <1>6 DEF ExistsBijection
<1>8. IsFiniteSet(U)
  BY <1>1, FS_Subset
<1>9. QED
  BY <1>7, <1>8, FS_Bijection

-----------------------------------------------------------------------------
LEMMA TypeStep == TypeOK /\ [Next]_vars => TypeOK'
<1> SUFFICES ASSUME TypeOK, [Next]_vars PROVE TypeOK'
  OBVIOUS
<1>1. CASE Detect
  <2>1. DetectRootApp \in Nat
    <3> DEFINE best == {k \in DOMAIN input.apps :
                          /\ Kids(k) > 0
                          /\ \A j \in DOMAIN input.apps : Kids(j) <= Kids(k)
                          /\ \A j \in DOMAIN input.apps : Kids(j) = Kids(k) => k <= j}
    <3>1. DetectRootApp = IF best = {} THEN None ELSE input.apps[CHOOSE k \in best : TRUE].name
      BY DEF DetectRootApp
    <3>2. ASSUME best # {} PROVE input.apps[CHOOSE k \in best : TRUE] \in Application
      <4>1. (CHOOSE k \in best : TRUE) \in DOMAIN input.apps
        BY <3>2
      <4>2. QED
        BY <4>1 DEF TypeOK
    <3>3. None \in Nat /\ \A app \in Application : app.name \in Nat
      BY DEF None, Application
    <3>4. QED
      BY <3>1, <3>2, <3>3
  <2>2. QED
    BY <1>1, <2>1 DEF Detect, TypeOK, summary
<1>2. CASE FoldApp
  <2>1. input.apps[at] \in Application
    BY <1>2 DEF FoldApp, TypeOK
  <2>2. AppRow(input.apps[at]) \in Row
    BY <2>1, RowTypes
  <2>3. CASE AddService(AppRow(input.apps[at]))
    BY <1>2, <2>2, <2>3, AddServiceTypes DEF FoldApp, TypeOK
  <2>4. CASE UNCHANGED <<services, summary>> \/ Hide
    BY <1>2, <2>4 DEF FoldApp, Hide, TypeOK, summary
  <2>5. QED
    BY <1>2, <2>3, <2>4 DEF FoldApp
<1>3. CASE FoldFlux
  <2>1. input.flux[at] \in FluxObject
    BY <1>3 DEF FoldFlux, TypeOK
  <2>2. FluxRow(input.flux[at]) \in Row
    BY <2>1, RowTypes
  <2>3. CASE AddService(FluxRow(input.flux[at]))
    BY <1>3, <2>2, <2>3, AddServiceTypes DEF FoldFlux, TypeOK
  <2>4. CASE Hide
    BY <1>3, <2>4 DEF FoldFlux, Hide, TypeOK, summary
  <2>5. QED
    BY <1>3, <2>3, <2>4 DEF FoldFlux
<1>4. CASE SortServices
  BY <1>4, ArrangedRows DEF SortServices, TypeOK, summary
<1>5. CASE UNCHANGED vars
  BY <1>5 DEF vars, summary, TypeOK
<1>6. QED
  BY <1>1, <1>2, <1>3, <1>4, <1>5 DEF Next

LEMMA TypeInit == Init => TypeOK
<1> SUFFICES ASSUME Init PROVE TypeOK
  OBVIOUS
<1>1. input \in [apps : Seq(Application), flux : Seq(FluxObject)] /\ rootName \in Nat
  BY InputsAssumption DEF Init
<1>2. services \in Seq(Row)
  BY DEF Init
<1>3. tiles \in [Fields -> Nat]
  BY DEF Init
<1>4. QED
  BY <1>1, <1>2, <1>3 DEF Init, TypeOK

(* Every variable of Build keeps its type, whatever is read. *)
THEOREM Typing == Spec => []TypeOK
<1>1. QED
  BY TypeInit, TypeStep, PTL DEF Spec

-----------------------------------------------------------------------------
(* One more row of a state, one more on its tile. *)
LEMMA AddServiceCounts ==
  ASSUME TypeOK, TilesCountRows, NEW svc \in Row, AddService(svc)
  PROVE  TilesCountRows'
<1> DEFINE n == Len(services)
<1>1. n \in Nat /\ DOMAIN services = 1..n /\ DOMAIN services' = 1..n + 1
      /\ services'[n + 1] = svc /\ \A k \in 1..n : services'[k] = services[k]
  BY DEF AddService, TypeOK
<1>2. svc.state \in States /\ svc.gpu \in BOOLEAN
  BY DEF Row
<1>3. \A s \in States : /\ Field(s) \in Fields
                        /\ Tiles[s] = tiles[Field(s)] /\ Tiles'[s] = tiles'[Field(s)]
  <2>1. \A s \in States : Tiles'[s] = tiles'[Field(s)]
    BY DEF Field, States, Tiles
  <2> QED
    BY <2>1, FieldOfState
<1>4. tiles \in [Fields -> Nat] /\ tiles' = [tiles EXCEPT ![Field(svc.state)] = @ + 1]
  BY DEF AddService, TypeOK
<1>5. IsFiniteSet(1..n)
  BY <1>1, FS_Interval
<1>6. ASSUME NEW s \in States PROVE Tiles'[s] = Cardinality(InState(s)')
  <2>1. IsFiniteSet(InState(s)) /\ n + 1 \notin InState(s)
    BY <1>1, <1>5, FS_Subset DEF InState
  <2>2. Tiles[s] = Cardinality(InState(s))
    BY DEF TilesCountRows
  <2>3. CASE svc.state = s
    <3>1. InState(s)' = InState(s) \cup {n + 1}
      BY <1>1, <2>3 DEF InState
    <3>2. Tiles'[s] = Tiles[s] + 1
      BY <1>2, <1>3, <1>4, <2>3
    <3>3. QED
      BY <2>1, <2>2, <3>1, <3>2, FS_AddElement
  <2>4. CASE svc.state # s
    <3>1. InState(s)' = InState(s)
      BY <1>1, <2>4 DEF InState
    <3>2. Tiles'[s] = Tiles[s]
      BY <1>2, <1>3, <1>4, <2>4, FieldOfState
    <3>3. QED
      BY <2>2, <3>1, <3>2
  <2>5. QED
    BY <2>3, <2>4
<1>7. gpu' = Cardinality({k \in DOMAIN services' : services'[k].gpu})
  <2> DEFINE G == {k \in DOMAIN services : services[k].gpu}
             H == {k \in DOMAIN services' : services'[k].gpu}
  <2>1. IsFiniteSet(G) /\ n + 1 \notin G
    BY <1>1, <1>5, FS_Subset
  <2>2. gpu = Cardinality(G) /\ gpu \in Nat
    BY DEF TilesCountRows, TypeOK
  <2>3. gpu' = gpu + (IF svc.gpu THEN 1 ELSE 0)
    BY DEF AddService, TypeOK
  <2>4. CASE svc.gpu
    <3>1. H = G \cup {n + 1}
      BY <1>1, <2>4
    <3>2. Cardinality(H) = Cardinality(G) + 1
      BY <2>1, <3>1, FS_AddElement
    <3>3. gpu' = gpu + 1
      BY <2>3, <2>4
    <3>4. QED
      BY <2>2, <3>2, <3>3
  <2>5. CASE ~svc.gpu
    <3>1. H = G
      BY <1>1, <2>5
    <3>2. gpu' = gpu
      BY <2>2, <2>3, <2>5
    <3>3. QED
      BY <2>2, <3>1, <3>2
  <2>6. QED
    BY <2>4, <2>5
<1>8. QED
  BY <1>6, <1>7 DEF TilesCountRows

(* Sorting leaves every count as it was. *)
LEMMA SortCounts ==
  ASSUME TypeOK, TilesCountRows, SortServices
  PROVE  TilesCountRows'
<1> DEFINE D == DOMAIN services
<1>1. services \in Seq(Row)
  BY DEF TypeOK
<1>2. PICK p \in Bijection(D, D) : services' = [k \in D |-> services[p[k]]]
  BY DEF SortServices, Arrangements
<1>3. p \in [D -> D] /\ DOMAIN services' = D /\ \A k \in D : services'[k] = services[p[k]]
  BY <1>2 DEF Bijection, Injection
<1>4. ASSUME NEW s \in States PROVE Cardinality(InState(s)') = Cardinality(InState(s))
  <2>1. InState(s)' = {k \in D : p[k] \in InState(s)}
    BY <1>3 DEF InState
  <2>2. InState(s) \in SUBSET D
    BY DEF InState
  <2>3. QED
    BY <1>1, <2>1, <2>2, ArrangedCount
<1>5. Cardinality({k \in D : services'[k].gpu}) = Cardinality({k \in D : services[k].gpu})
  <2> DEFINE G == {k \in D : services[k].gpu}
  <2>1. {k \in D : services'[k].gpu} = {k \in D : p[k] \in G}
    BY <1>3
  <2>2. G \in SUBSET D
    OBVIOUS
  <2>3. QED
    BY <1>1, <2>1, <2>2, ArrangedCount
<1>6. Tiles' = Tiles /\ gpu' = gpu
  BY DEF SortServices, summary, Tiles
<1>7. QED
  BY <1>3, <1>4, <1>5, <1>6 DEF TilesCountRows

(* Each tile counts its rows, for any mix of Applications and Flux objects *)
(* and whatever order the sort settles on.                                 *)
THEOREM TilesCount == Spec => []TilesCountRows
<1>1. Init => TilesCountRows
  <2> SUFFICES ASSUME Init PROVE TilesCountRows
    OBVIOUS
  <2>1. DOMAIN services = {}
    BY DEF Init
  <2>2. \A s \in States : InState(s) = {}
    BY <2>1 DEF InState
  <2>3. {k \in DOMAIN services : services[k].gpu} = {}
    BY <2>1
  <2>4. \A s \in States : Tiles[s] = 0
    BY FieldOfState DEF Init
  <2>5. QED
    BY <2>2, <2>3, <2>4, FS_EmptySet DEF Init, TilesCountRows
<1>2. TypeOK /\ TilesCountRows /\ [Next]_vars => TilesCountRows'
  <2> SUFFICES ASSUME TypeOK, TilesCountRows, [Next]_vars PROVE TilesCountRows'
    OBVIOUS
  <2>1. CASE UNCHANGED <<services, summary>> \/ Hide
    <3>1. services' = services /\ gpu' = gpu /\ Tiles' = Tiles
      BY <2>1 DEF Hide, summary, Tiles
    <3>2. \A s \in States : InState(s)' = InState(s)
      BY <3>1 DEF InState
    <3>3. QED
      BY <3>1, <3>2 DEF TilesCountRows
  <2>2. CASE FoldApp
    <3>1. input.apps[at] \in Application
      BY <2>2 DEF FoldApp, TypeOK
    <3>2. AppRow(input.apps[at]) \in Row
      BY <3>1, RowTypes
    <3>3. QED
      BY <2>1, <2>2, <3>2, AddServiceCounts DEF FoldApp
  <2>3. CASE FoldFlux
    <3>1. input.flux[at] \in FluxObject
      BY <2>3 DEF FoldFlux, TypeOK
    <3>2. FluxRow(input.flux[at]) \in Row
      BY <3>1, RowTypes
    <3>3. QED
      BY <2>1, <2>3, <3>2, AddServiceCounts DEF FoldFlux
  <2>4. CASE SortServices
    BY <2>4, SortCounts
  <2>5. QED
    BY <2>1, <2>2, <2>3, <2>4 DEF Next, Detect, vars
<1>3. QED
  BY <1>1, <1>2, Typing, PTL DEF Spec

(* "Every source goes through here so the tiles keep summing to the        *)
(* service total whatever produced the row" (addService).                  *)
THEOREM TilesSumHolds == Spec => []TilesSum
<1>1. Init => TilesSum
  BY DEF Init, TilesSum, TileSum, Fields
<1>2. TypeOK /\ TilesSum /\ [Next]_vars => TilesSum'
  <2> SUFFICES ASSUME TypeOK, TilesSum, [Next]_vars PROVE TilesSum'
    OBVIOUS
  <2>1. ASSUME NEW svc \in Row, AddService(svc) PROVE TilesSum'
    <3>1. tiles \in [Fields -> Nat] /\ total \in Nat /\ Field(svc.state) \in Fields
      BY FieldOfState DEF TypeOK, Row
    <3>2. tiles' = [tiles EXCEPT ![Field(svc.state)] = @ + 1] /\ total' = total + 1
      BY <2>1 DEF AddService, TypeOK
    <3>3. Len(services') = Len(services) + 1 /\ Len(services) \in Nat
      BY <2>1 DEF AddService, TypeOK
    <3>4. TileSum' = TileSum + 1
      BY <3>1, <3>2 DEF TileSum, Fields
    <3>5. QED
      BY <3>1, <3>2, <3>3, <3>4 DEF TilesSum
  <2>2. CASE UNCHANGED <<services, summary>> \/ Hide
    BY <2>2 DEF Hide, summary, TilesSum, TileSum
  <2>3. CASE FoldApp
    <3>1. input.apps[at] \in Application
      BY <2>3 DEF FoldApp, TypeOK
    <3>2. AppRow(input.apps[at]) \in Row
      BY <3>1, RowTypes
    <3>3. QED
      BY <2>1, <2>2, <2>3, <3>2 DEF FoldApp
  <2>4. CASE FoldFlux
    <3>1. input.flux[at] \in FluxObject
      BY <2>4 DEF FoldFlux, TypeOK
    <3>2. FluxRow(input.flux[at]) \in Row
      BY <3>1, RowTypes
    <3>3. QED
      BY <2>1, <2>2, <2>4, <3>2 DEF FoldFlux
  <2>5. CASE SortServices
    <3>1. Len(services') = Len(services) /\ total' = total /\ tiles' = tiles
      BY <2>5, ArrangedRows DEF SortServices, TypeOK, summary
    <3>2. QED
      BY <3>1 DEF TilesSum, TileSum
  <2>6. QED
    BY <2>2, <2>3, <2>4, <2>5 DEF Next, Detect, vars
<1>3. QED
  BY <1>1, <1>2, Typing, PTL DEF Spec

-----------------------------------------------------------------------------
(* Rows exist only once the root is known. *)
NoneBeforeRoot == stage = "detect" => services = <<>>

Earned(row) ==
  row.state = "OK" => IF row.source = "argocd" THEN AppWell(row) ELSE FluxWell(row)

RowsJudged ==
  \A k \in DOMAIN services :
    /\ services[k].source = "flux" => services[k].state \notin {"DRIFT", "PRUNE"}
    /\ services[k].state = "DRIFT" => RootSettled
    /\ Earned(services[k])

(* How a row is judged survives every later fold and sort. *)
LEMMA JudgedStep ==
  TypeOK /\ NoneBeforeRoot /\ RowsJudged /\ [Next]_vars => NoneBeforeRoot' /\ RowsJudged'
<1> SUFFICES ASSUME TypeOK, NoneBeforeRoot, RowsJudged, [Next]_vars
             PROVE  NoneBeforeRoot' /\ RowsJudged'
  OBVIOUS
<1>1. CASE Detect
  <2>1. services = <<>> /\ services' = <<>>
    BY <1>1 DEF Detect, NoneBeforeRoot
  <2>2. QED
    BY <2>1 DEF NoneBeforeRoot, RowsJudged
<1>2. ASSUME UNCHANGED <<input, rootName>>
      PROVE  RootSettled' = RootSettled /\ \A row : Earned(row) => Earned(row)'
  <2>1. RootSettled' = RootSettled
    BY <1>2 DEF RootSettled, RootOf
  <2>2. \A row : (AppWell(row) => AppWell(row)') /\ (FluxWell(row) => FluxWell(row)')
    BY <1>2 DEF AppWell, FluxWell
  <2> QED
    BY <2>1, <2>2 DEF Earned
<1>3. ASSUME UNCHANGED <<input, rootName>>, NEW svc \in Row, AddService(svc),
             svc.source = "flux" => svc.state \notin {"DRIFT", "PRUNE"},
             svc.state = "DRIFT" => RootSettled, Earned(svc)
      PROVE  RowsJudged'
  <2>1. services \in Seq(Row) /\ services' = Append(services, svc)
    BY <1>3 DEF TypeOK, AddService
  <2>2. \A k \in DOMAIN services' : services'[k] = svc \/ (k \in DOMAIN services /\ services'[k] = services[k])
    BY <2>1
  <2>3. QED
    BY <1>2, <1>3, <2>2 DEF RowsJudged
<1>4. ASSUME UNCHANGED <<input, rootName, services>> PROVE RowsJudged'
  BY <1>2, <1>4 DEF RowsJudged
<1>5. CASE FoldApp
  <2> DEFINE app == input.apps[at]
  <2>1. app \in Application
    BY <1>5 DEF FoldApp, TypeOK
  <2>2. AppRow(app) \in Row
    BY <2>1, RowTypes
  <2>3. AppRow(app).source = "argocd" /\ AppRow(app).state = Classify(app)
    BY DEF AppRow
  <2>4. Classify(app) = "DRIFT" => RootSettled
    BY DEF Classify
  <2>0. Earned(AppRow(app))
    <3>1. Classify(app) = "OK" => app.health = "Healthy" /\ app.sync # "OutOfSync"
      BY <2>1 DEF Classify, Application, Healths
    <3>2. at \in DOMAIN input.apps
      BY <1>5 DEF FoldApp, TypeOK
    <3>3. AppRow(app).name = app.name /\ AppRow(app).sync = app.sync
      BY DEF AppRow
    <3> QED
      BY <2>3, <3>1, <3>2, <3>3 DEF Earned, AppWell
  <2>5. CASE AddService(AppRow(app))
    BY <1>3, <1>5, <2>0, <2>2, <2>3, <2>4, <2>5 DEF FoldApp, NoneBeforeRoot
  <2>6. CASE UNCHANGED <<services, summary>> \/ Hide
    BY <1>4, <1>5, <2>6 DEF FoldApp, Hide, NoneBeforeRoot
  <2>7. QED
    BY <1>5, <2>5, <2>6 DEF FoldApp
<1>6. CASE FoldFlux
  <2> DEFINE obj == input.flux[at]
  <2>1. obj \in FluxObject
    BY <1>6 DEF FoldFlux, TypeOK
  <2>2. FluxRow(obj) \in Row
    BY <2>1, RowTypes
  <2>3. FluxRow(obj).state \notin {"DRIFT", "PRUNE"}
    BY DEF FluxRow, FluxVerdict
  <2>0. Earned(FluxRow(obj))
    <3>1. FluxVerdict(obj) = "OK" =>
            ~obj.suspend /\ obj.ready = "True" /\ "True" \notin {obj.reconciling, obj.stalled}
      BY DEF FluxVerdict
    <3>2. at \in DOMAIN input.flux
      BY <1>6 DEF FoldFlux, TypeOK
    <3>3. /\ FluxRow(obj).name = obj.name /\ FluxRow(obj).ns = obj.ns
          /\ FluxRow(obj).kind = obj.kind /\ FluxRow(obj).source = "flux"
          /\ FluxRow(obj).state = FluxVerdict(obj)
      BY DEF FluxRow
    <3> QED
      BY <3>1, <3>2, <3>3 DEF Earned, FluxWell
  <2>4. CASE AddService(FluxRow(obj))
    BY <1>3, <1>6, <2>0, <2>2, <2>3, <2>4 DEF FoldFlux, NoneBeforeRoot
  <2>5. CASE Hide
    BY <1>4, <1>6, <2>5 DEF FoldFlux, Hide, NoneBeforeRoot
  <2>6. QED
    BY <1>6, <2>4, <2>5 DEF FoldFlux
<1>7. CASE SortServices
  <2>1. \A k \in DOMAIN services' : \E j \in DOMAIN services : services'[k] = services[j]
    BY <1>7, ArrangedRows DEF SortServices, TypeOK
  <2>2. QED
    BY <1>2, <1>7, <2>1 DEF SortServices, RowsJudged, NoneBeforeRoot
<1>8. CASE UNCHANGED vars
  BY <1>4, <1>8 DEF vars, NoneBeforeRoot
<1>9. QED
  BY <1>1, <1>5, <1>6, <1>7, <1>8 DEF Next

LEMMA JudgedInit == Init => NoneBeforeRoot /\ RowsJudged
BY DEF Init, NoneBeforeRoot, RowsJudged

(* No row is DRIFT while the root Application is syncing: rule 4 is above  *)
(* rule 6 for every child.                                                 *)
THEOREM DriftIsSettledHolds == Spec => []DriftIsSettled
<1>1. RowsJudged => DriftIsSettled
  BY DEF RowsJudged, DriftIsSettled
<1>2. QED
  BY <1>1, JudgedInit, JudgedStep, Typing, PTL DEF Spec

(* No Flux row is ever DRIFT or PRUNE, whatever the root would prune. *)
THEOREM FluxNeverDriftsHolds == Spec => []FluxNeverDrifts
<1>1. RowsJudged => FluxNeverDrifts
  BY DEF RowsJudged, FluxNeverDrifts
<1>2. QED
  BY <1>1, JudgedInit, JudgedStep, Typing, PTL DEF Spec

(* No row is OK that its controller reports as anything else, whichever     *)
(* Applications and Flux objects share its name.                            *)
THEOREM CalmIsEarnedHolds == Spec => []CalmIsEarned
<1>1. RowsJudged => CalmIsEarned
  BY DEF RowsJudged, Earned, CalmIsEarned
<1>2. QED
  BY <1>1, JudgedInit, JudgedStep, Typing, PTL DEF Spec

-----------------------------------------------------------------------------
(* The percentage.                                                          *)

(* Rounding to the nearest half up, and staying a percentage.               *)
LEMMA Rounded ==
  ASSUME NEW ok \in Nat, NEW counted \in Nat \ {0}, ok <= counted
  PROVE  LET p == (200 * ok + counted) \div (2 * counted) IN
           /\ p \in 0..100
           /\ 2 * (100 * ok - p * counted) <= counted
           /\ -(2 * (100 * ok - p * counted)) <= counted
<1> DEFINE p == (200 * ok + counted) \div (2 * counted)
<1>1. p \in Int /\ 2 * counted * p <= 200 * ok + counted /\ 200 * ok + counted < 2 * counted * p + 2 * counted
  OBVIOUS
<1> HIDE DEF p
<1>2. p >= 0
  BY <1>1
<1>3. p <= 100
  BY <1>1
<1>4. 2 * (100 * ok - p * counted) = 200 * ok - 2 * counted * p
  BY <1>1
<1> QED
  BY <1>1, <1>2, <1>3, <1>4 DEF p

(* What Health says of the rows: it counts them exactly, rounds their share *)
(* to the nearest percent, and the arcs of the ring end where it says.      *)
THEOREM HealthIsShareHolds == Spec => []HealthIsShare
<1>1. TypeOK /\ TilesCountRows /\ TilesSum => HealthIsShare
  <2> SUFFICES ASSUME TypeOK, TilesCountRows, TilesSum PROVE HealthIsShare
    OBVIOUS
  <2> DEFINE D == DOMAIN services
             out == InState("PRUNE") \cup InState("SUSPENDED")
             good == InState("OK") \cup InState("PROGRESSING")
             counted == total - Tiles["PRUNE"] - Tiles["SUSPENDED"]
             ok == Tiles["OK"] + Tiles["PROGRESSING"]
  <2>1. \A s \in States : Tiles[s] \in Nat /\ Tiles[s] = Cardinality(InState(s))
    BY FieldOfState DEF TypeOK, TilesCountRows
  <2>2. IsFiniteSet(D) /\ Cardinality(D) = total /\ total \in Nat
    <3>1. D = 1..total /\ total \in Nat
      BY DEF TypeOK, TilesSum
    <3>2. IsFiniteSet(1..total) /\ Cardinality(1..total) = total
      BY <3>1, FS_Interval
    <3> QED
      BY <3>1, <3>2
  <2>3. \A s \in States : IsFiniteSet(InState(s)) /\ InState(s) \subseteq D
    BY <2>2, FS_Subset DEF InState
  <2>4. ASSUME NEW s \in States, NEW t \in States, s # t
        PROVE  /\ IsFiniteSet(InState(s) \cup InState(t)) /\ InState(s) \cup InState(t) \subseteq D
               /\ Cardinality(InState(s) \cup InState(t)) = Tiles[s] + Tiles[t]
    <3>1. InState(s) \cap InState(t) = {}
      BY <2>4 DEF InState
    <3>2. Cardinality(InState(s) \cup InState(t)) = Cardinality(InState(s)) + Cardinality(InState(t)) - 0
      BY <2>3, <3>1, FS_Union, FS_EmptySet
    <3>3. IsFiniteSet(InState(s) \cup InState(t))
      BY <2>3, FS_Union
    <3> QED
      BY <2>1, <2>3, <3>2, <3>3
  <2>5. Cardinality(good) = ok
    BY <2>4 DEF States
  <2>6. IsFiniteSet(out) /\ out \subseteq D /\ Cardinality(out) = Tiles["PRUNE"] + Tiles["SUSPENDED"]
    BY <2>4 DEF States
  <2>7. Cardinality(D \ out) = counted /\ IsFiniteSet(D \ out) /\ counted \in Nat
    <3>1. D \cap out = out
      BY <2>6
    <3>2. IsFiniteSet(D \ out) /\ Cardinality(D \ out) = Cardinality(D) - Cardinality(out)
      BY <2>2, <3>1, FS_Difference
    <3>3. Cardinality(D \ out) \in Nat
      BY <3>2, FS_CardinalityType
    <3>4. /\ Tiles["PRUNE"] \in Nat /\ Tiles["SUSPENDED"] \in Nat
      BY <2>1 DEF States
    <3> QED
      BY <2>2, <2>6, <3>2, <3>3, <3>4
  <2>8. counted = Tiles["OK"] + Tiles["PROGRESSING"] + Tiles["DRIFT"] + Tiles["WARNING"] + Tiles["DEGRADED"]
        /\ ok \in Nat /\ ok <= counted
    <3>1. \A s \in States : Tiles[s] \in Nat
      BY <2>1
    <3>2. total = Tiles["DEGRADED"] + Tiles["WARNING"] + Tiles["PROGRESSING"] + Tiles["DRIFT"]
                  + Tiles["PRUNE"] + Tiles["SUSPENDED"] + Tiles["OK"]
      BY DEF TilesSum, TileSum, Tiles
    <3> QED
      BY <3>1, <3>2 DEF States
  <2>9. counted > 0 <=> D \ out # {}
    BY <2>7, FS_EmptySet
  <2>10. Arc(5) = counted /\ Arc(2) = ok
    BY <2>1, <2>8 DEF Arc, HealthRingOrder, States
  <2>11. /\ Health.known = (counted > 0) /\ Health.counted = counted /\ Health.ok = ok
         /\ Health.percent = IF counted > 0 THEN (200 * ok + counted) \div (2 * counted) ELSE 0
    BY DEF Health, Tiles
  <2> HIDE DEF counted, ok, D, out, good
  <2>12. /\ Health.percent \in 0..100
         /\ 2 * (100 * ok - Health.percent * counted) <= counted
         /\ -(2 * (100 * ok - Health.percent * counted)) <= counted
    <3>1. CASE counted > 0
      <4> DEFINE p == (200 * ok + counted) \div (2 * counted)
      <4>1. /\ p \in 0..100 /\ 2 * (100 * ok - p * counted) <= counted
            /\ -(2 * (100 * ok - p * counted)) <= counted
        <5>1. ok \in Nat /\ counted \in Nat \ {0} /\ ok <= counted
          BY <2>7, <2>8, <3>1
        <5> QED
          BY <5>1, Rounded
      <4>2. Health.percent = p
        BY <2>11, <3>1
      <4> QED
        BY <4>1, <4>2
    <3>2. CASE counted = 0
      <4>1. ok = 0
        <5>1. ok \in Nat /\ ok <= counted
          BY <2>8
        <5> QED
          BY <3>2, <5>1
      <4>2. Health.percent = 0
        BY <2>11, <3>2
      <4> QED
        BY <3>2, <4>1, <4>2
    <3> QED
      BY <2>7, <3>1, <3>2
  <2> QED
    BY <2>5, <2>7, <2>8, <2>9, <2>10, <2>11, <2>12 DEF HealthIsShare, D, out, good
<1>2. QED
  BY <1>1, Typing, TilesCount, TilesSumHolds, PTL
=============================================================================

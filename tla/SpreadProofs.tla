----------------------------- MODULE SpreadProofs -----------------------------
(***************************************************************************)
(* For every list of nodes, pods and PeerAuthentications, in any order,    *)
(* and any services and groups: what the node statistics and the spread    *)
(* say is what a count of the nodes and pods themselves says.              *)
(*                                                                         *)
(* Both loops have the same kind of invariant: so far, each number is the  *)
(* cardinality of a set of indexes below the one that comes next.  So a    *)
(* turn adds to each set one index or none.  Only devices are counted in   *)
(* sums, of what each node advertises.                                     *)
(***************************************************************************)
EXTENDS Spread, FiniteSetTheorems, FunctionTheorems, WellFoundedInduction, TLAPS

-----------------------------------------------------------------------------
(* Sets that grow by one element.                                           *)

LEMMA OneMore ==
  ASSUME NEW S, IsFiniteSet(S), NEW x, NEW T, x \notin S, T \ {x} = S
  PROVE  /\ IsFiniteSet(T) /\ Cardinality(S) \in Nat
         /\ Cardinality(T) = Cardinality(S) + One(x \in T)
<1>1. CASE x \in T
  <2>1. T = S \cup {x}
    BY <1>1
  <2> QED
    BY <1>1, <2>1, FS_AddElement, FS_CardinalityType DEF One
<1>2. CASE x \notin T
  <2>1. T = S
    BY <1>2
  <2> QED
    BY <1>2, <2>1, FS_CardinalityType DEF One
<1> QED
  BY <1>1, <1>2

LEMMA UpToNext ==
  ASSUME NEW n \in Nat
  PROVE  /\ \A k : k \in 1..(n + 1) <=> k \in 1..n \/ k = n + 1
         /\ n + 1 \notin 1..n /\ \A k \in 1..n : k \in Int /\ 0 < k /\ k < n + 1
OBVIOUS

\* The same of indexes, the next of which is n + 1.
LEMMA NextIndex ==
  ASSUME NEW n \in Nat, NEW T, T \subseteq 1..(n + 1)
  PROVE  LET S == T \cap (1..n) IN
           /\ IsFiniteSet(S) /\ Cardinality(S) \in 0..n
           /\ IsFiniteSet(T) /\ Cardinality(T) = Cardinality(S) + One(n + 1 \in T)
<1> DEFINE S == T \cap (1..n)
<1>1. IsFiniteSet(1..n) /\ Cardinality(1..n) = n
  BY FS_Interval
<1>2. IsFiniteSet(S) /\ Cardinality(S) <= n
  BY <1>1, FS_Subset
<1>3. n + 1 \notin S
  OBVIOUS
<1>4. T \ {n + 1} = S
  <2>1. \A k \in 1..(n + 1) : k # n + 1 <=> k \in 1..n
    OBVIOUS
  <2> QED
    BY <2>1
<1> HIDE DEF S
<1>5. Cardinality(S) \in Nat /\ IsFiniteSet(T) /\ Cardinality(T) = Cardinality(S) + One(n + 1 \in T)
  BY <1>2, <1>3, <1>4, OneMore
<1>6. Cardinality(S) \in 0..n
  BY <1>2, <1>5
<1> QED
  BY <1>2, <1>5, <1>6 DEF S

LEMMA Parted ==
  ASSUME NEW A, IsFiniteSet(A), NEW B, IsFiniteSet(B), A \cap B = {}
  PROVE  /\ IsFiniteSet(A \cup B) /\ Cardinality(A) \in Nat /\ Cardinality(B) \in Nat
         /\ Cardinality(A \cup B) = Cardinality(A) + Cardinality(B)
<1>1. Cardinality(A \cap B) = 0
  BY FS_EmptySet
<1>2. Cardinality(A) \in Nat /\ Cardinality(B) \in Nat
  BY FS_CardinalityType
<1>3. IsFiniteSet(A \cup B) /\ Cardinality(A \cup B) = Cardinality(A) + Cardinality(B) - Cardinality(A \cap B)
  BY FS_Union
<1> QED
  BY <1>1, <1>2, <1>3

\* A set of indexes has a last one.
LEMMA LastExists ==
  ASSUME NEW n \in Nat, NEW S, S \subseteq 1..n, S # {}
  PROVE  \E m \in S : \A j \in S : j <= m
<1> DEFINE From(k) == {j \in S : k <= j}
           F == {From(k) : k \in S}
<1>0. \A j \in S : j \in Int
  OBVIOUS
<1>1. IsFiniteSet(S)
  <2>1. IsFiniteSet(1..n)
    BY FS_Interval
  <2> HIDE DEF From, F
  <2> QED
    BY <2>1, FS_Subset
<1>2. F \subseteq FiniteSubsetsOf(S) /\ F # {}
  <2>1. \A k \in S : From(k) \subseteq S /\ IsFiniteSet(From(k))
    BY <1>1, FS_Subset
  <2>2. F # {}
    OBVIOUS
  <2>3. \A k \in S : From(k) \in FiniteSubsetsOf(S)
    <3> HIDE DEF From
    <3> QED BY <2>1 DEF FiniteSubsetsOf
  <2> HIDE DEF From
  <2> QED
    BY <2>2, <2>3
<1>3. \E x \in F : \A y \in F : ~(<<y, x>> \in StrictSubsetOrdering(S))
  <2> HIDE DEF F
  <2> QED BY <1>1, <1>2, WFMin, FS_StrictSubsetOrderingWellFounded
<1>4. PICK m \in S : \A j \in S : ~(<<From(j), From(m)>> \in StrictSubsetOrdering(S))
  <2> HIDE DEF From
  <2> QED BY <1>3
<1>5. ASSUME NEW j \in S, m < j PROVE FALSE
  <2>0. m \in Int /\ j \in Int /\ ~(j <= m)
    BY <1>0, <1>5
  <2>1. /\ From(j) \subseteq From(m)
        /\ m \in From(m) /\ m \notin From(j)
    <3>1. \A i \in S : j <= i => m <= i
      BY <1>0, <2>0
    <3>2. m <= m /\ ~(j <= m)
      BY <2>0
    <3> QED
      BY <3>1, <3>2
  <2>2. From(j) \subseteq S /\ From(m) \subseteq S /\ From(j) # From(m)
    BY <2>1
  <2>3. <<From(j), From(m)>> \in StrictSubsetOrdering(S)
    <3> HIDE DEF From
    <3> QED BY <2>1, <2>2 DEF StrictSubsetOrdering
  <2> HIDE DEF From
  <2> QED
    BY <1>4, <2>3
<1>6. \A j \in S : j <= m
  BY <1>5
<1> QED
  BY <1>6

\* And a first one.
LEMMA FirstExists ==
  ASSUME NEW n \in Nat, NEW S, S \subseteq 1..n, S # {}
  PROVE  \E m \in S : \A j \in S : m <= j
<1> DEFINE T == {n + 1 - k : k \in S}
<1>1. T \subseteq 1..n /\ T # {}
  <2>1. \A k \in S : k \in 1..n /\ n + 1 - k \in 1..n
    <3>1. \A k \in 1..n : n + 1 - k \in 1..n
      OBVIOUS
    <3> QED BY <3>1
  <2>2. \A t \in T : t \in 1..n
    BY <2>1
  <2>3. \E k \in S : n + 1 - k \in T
    OBVIOUS
  <2> HIDE DEF T
  <2> QED BY <2>2, <2>3
<1>2. PICK t \in T : \A j \in T : j <= t
  <2> HIDE DEF T
  <2> QED BY <1>1, LastExists
<1>3. PICK m \in S : t = n + 1 - m
  OBVIOUS
<1>4. ASSUME NEW j \in S PROVE m <= j
  <2>1. n + 1 - j \in T
    OBVIOUS
  <2>2. n + 1 - j <= n + 1 - m /\ j \in Int /\ m \in Int
    BY <1>2, <1>3, <2>1
  <2> HIDE DEF T
  <2> QED BY <2>2
<1> QED
  BY <1>4

LEMMA Before ==
  ASSUME NEW n \in Nat, NEW m \in 1..n
  PROVE  m # 0 /\ \A k \in 1..(m - 1) : k \in 1..n /\ ~(m <= k)
OBVIOUS

LEMMA Rounded ==
  ASSUME NEW part \in Nat, NEW whole \in Nat, part <= whole
  PROVE  RoundPercent(part, whole) \in 0..100
<1>1. CASE whole = 0
  BY <1>1 DEF RoundPercent
<1>2. CASE whole > 0
  <2> DEFINE p == (200 * part + whole) \div (2 * whole)
  <2>1. p \in Int /\ 2 * whole * p <= 200 * part + whole /\ 200 * part + whole < 2 * whole * p + 2 * whole
    BY <1>2
  <2> HIDE DEF p
  <2>2. p >= 0
    BY <2>1, <1>2
  <2>3. p <= 100
    BY <2>1, <1>2
  <2>4. RoundPercent(part, whole) = p
    BY <1>2 DEF RoundPercent, p
  <2> QED
    BY <2>1, <2>2, <2>3, <2>4
<1> QED
  BY <1>1, <1>2

-----------------------------------------------------------------------------
(* Sums.  A sum of counters is how many units they count: that the fold of  *)
(* SumFunction computes it is shown of all subsets at once, a smallest one   *)
(* on which it did not being smaller by an element of it.                    *)

\* The units of some counters: a sum of them is how many there are.
Units(f, S) == UNION {{x} \X (1..f[x]) : x \in S}
Sized(f, S) == Cardinality(Units(f, S))

LEMMA UnitsAre ==
  ASSUME NEW f, NEW S
  PROVE  /\ \A x, d : <<x, d>> \in Units(f, S) <=> x \in S /\ d \in 1..f[x]
         /\ \A u \in Units(f, S) : u = <<u[1], u[2]>>
         /\ Units(f, {}) = {}
BY DEF Units

LEMMA UnitsFinite ==
  ASSUME NEW f, NEW S, IsFiniteSet(S), \A x \in S : f[x] \in Nat
  PROVE  IsFiniteSet(Units(f, S)) /\ Sized(f, S) \in Nat
<1>1. \A x \in S : IsFiniteSet({x} \X (1..f[x]))
  <2> TAKE x \in S
  <2>1. 1 \in Int /\ f[x] \in Int
    OBVIOUS
  <2>2. IsFiniteSet(1..f[x])
    BY <2>1, FS_Interval
  <2>3. IsFiniteSet({x})
    BY FS_Singleton
  <2>4. QED
    BY <2>2, <2>3, FS_Product
<1>2. IsFiniteSet({{x} \X (1..f[x]) : x \in S})
  <2> DEFINE g == [x \in S |-> {x} \X (1..f[x])]
  <2>1. g \in Surjection(S, {{x} \X (1..f[x]) : x \in S})
    BY DEF Surjection
  <2>2. QED
    BY <2>1, FS_Surjection, Zenon
<1>3. IsFiniteSet(Units(f, S))
  BY <1>1, <1>2, FS_UNION DEF Units
<1>4. QED
  BY <1>3, FS_CardinalityType DEF Sized

\* One more counter adds what it counts.
LEMMA SizedAdd ==
  ASSUME NEW f, NEW S, IsFiniteSet(S), NEW x, x \notin S, \A y \in S \cup {x} : f[y] \in Nat
  PROVE  Sized(f, S \cup {x}) = Sized(f, S) + f[x]
<1> DEFINE new == {x} \X (1..f[x])
<1>1. Units(f, S \cup {x}) = Units(f, S) \cup new
  BY DEF Units
<1>2. Units(f, S) \cap new = {}
  BY DEF Units
<1>3. IsFiniteSet(new) /\ Cardinality(new) = f[x]
  <2>1. IsFiniteSet({x}) /\ Cardinality({x}) = 1
    BY FS_Singleton
  <2>2. IsFiniteSet(1..f[x]) /\ Cardinality(1..f[x]) = f[x]
    BY FS_Interval
  <2>3. IsFiniteSet(new) /\ Cardinality(new) = Cardinality({x}) * Cardinality(1..f[x])
    BY <2>1, <2>2, FS_Product
  <2>4. QED
    BY <2>1, <2>2, <2>3
<1>4. IsFiniteSet(Units(f, S)) /\ Cardinality(Units(f, S)) \in Nat /\ f[x] \in Nat
  BY UnitsFinite DEF Sized
<1> HIDE DEF new
<1>5. Cardinality(Units(f, S) \cup new) = Cardinality(Units(f, S)) + Cardinality(new) - Cardinality(Units(f, S) \cap new)
  BY <1>3, <1>4, FS_Union
<1>6. Cardinality(Units(f, S) \cap new) = 0
  BY <1>2, FS_EmptySet
<1>7. Cardinality(Units(f, S) \cup new) = Cardinality(Units(f, S)) + f[x]
  BY <1>3, <1>4, <1>5, <1>6
<1>8. QED
  BY <1>1, <1>7, Zenon DEF Sized

\* The fold over a set adds its counters up, in whatever order it takes them.
LEMMA SumIs ==
  ASSUME NEW f, NEW S, IsFiniteSet(S), \A x \in S : f[x] \in Nat
  PROVE  SumFunctionOnSet(f, S) = Sized(f, S)
<1> DEFINE Is(h) == h = [s \in SUBSET S |->
                           IF s = {} THEN 0
                           ELSE f[CHOOSE x \in s : TRUE] + h[s \ {CHOOSE x \in s : TRUE}]]
           size == [s \in SUBSET S |-> Sized(f, s)]
<1>1. SumFunctionOnSet(f, S) = (CHOOSE h : Is(h))[S]
  BY DEF SumFunctionOnSet, FoldFunctionOnSet, MapThenFoldSet
<1>2. Is(size)
  <2> SUFFICES ASSUME NEW s \in SUBSET S
               PROVE  Sized(f, s) = IF s = {} THEN 0
                                    ELSE f[CHOOSE x \in s : TRUE] + size[s \ {CHOOSE x \in s : TRUE}]
    BY Zenon
  <2>1. CASE s = {}
    BY <2>1, FS_EmptySet, UnitsAre DEF Sized
  <2>2. CASE s # {}
    <3> DEFINE x == CHOOSE x \in s : TRUE
               r == s \ {x}
    <3>1. x \in s
      BY <2>2
    <3>2. IsFiniteSet(r) /\ r \in SUBSET S
      BY FS_Subset
    <3> HIDE DEF x
    <3>3. s = r \cup {x} /\ x \notin r
      BY <3>1
    <3>4. f[x] \in Nat /\ \A y \in r \cup {x} : f[y] \in Nat
      BY <3>1, <3>2
    <3> HIDE DEF r
    <3>5. Sized(f, s) = Sized(f, r) + f[x] /\ Sized(f, r) \in Nat
      BY <3>2, <3>3, <3>4, SizedAdd, UnitsFinite
    <3>6. size[r] = Sized(f, r)
      BY <3>2
    <3>7. Sized(f, s) = f[x] + size[r]
      BY <3>4, <3>5, <3>6
    <3>8. QED
      BY <2>2, <3>7, Zenon DEF x, r
  <2>3. QED
    BY <2>1, <2>2
<1>3. ASSUME NEW h, Is(h) PROVE h[S] = Sized(f, S)
  <2> DEFINE R == StrictSubsetOrdering(S)
             T == {s \in SUBSET S : h[s] # size[s]}
  <2>1. IsWellFoundedOn(R, SUBSET S)
    BY FS_StrictSubsetOrderingWellFounded, FS_FiniteSubsetsOfFinite
  <2>2. T = {}
    <3> SUFFICES ASSUME T # {} PROVE FALSE
      OBVIOUS
    <3>1. PICK s \in T : \A r \in T : <<r, s>> \notin R
      <4> HIDE DEF R, T
      <4>1. T \subseteq SUBSET S
        BY DEF T
      <4>2. QED
        BY <2>1, <4>1, WFMin
    <3> DEFINE x == CHOOSE x \in s : TRUE
               r == s \ {x}
    <3>2. s \in SUBSET S /\ h[s] # size[s]
      BY <3>1
    <3>3. h[s] = IF s = {} THEN 0 ELSE f[x] + h[r]
      BY <1>3, <3>2, Zenon
    <3>4. size[s] = IF s = {} THEN 0 ELSE f[x] + size[r]
      BY <1>2, <3>2, Zenon
    <3>5. s # {} /\ h[r] # size[r]
      BY <3>2, <3>3, <3>4
    <3>6. x \in s
      BY <3>5
    <3>7. r \in T /\ <<r, s>> \in R
      BY <3>2, <3>5, <3>6 DEF StrictSubsetOrdering
    <3>8. QED
      BY <3>1, <3>7
  <2>3. S \in SUBSET S /\ h[S] = size[S]
    BY <2>2
  <2>4. QED
    BY <2>3
<1>4. Is(CHOOSE h : Is(h))
  <2> HIDE DEF Is
  <2>1. QED
    BY <1>2
<1>5. QED
  BY <1>1, <1>3, <1>4, Zenon

Numbers(f) == IsFiniteSet(DOMAIN f) /\ \A x \in DOMAIN f : f[x] \in Nat

LEMMA SumType == ASSUME NEW f, Numbers(f) PROVE SumFunction(f) = Sized(f, DOMAIN f) /\ SumFunction(f) \in Nat
BY SumIs, UnitsFinite DEF Numbers, SumFunction

LEMMA SumNone == ASSUME NEW f, DOMAIN f = {} PROVE SumFunction(f) = 0
<1>1. Numbers(f)
  BY FS_EmptySet DEF Numbers
<1>2. Sized(f, {}) = 0
  BY UnitsAre, FS_EmptySet DEF Sized
<1>3. QED
  BY <1>1, <1>2, SumType

\* Numbers of which some are at zero count nothing: no unit, no sum.
LEMMA SumZero ==
  ASSUME NEW f, Numbers(f)
  PROVE  SumFunction(f) > 0 <=> \E x \in DOMAIN f : f[x] > 0
<1> DEFINE U == Units(f, DOMAIN f)
<1>1. IsFiniteSet(U) /\ SumFunction(f) = Cardinality(U) /\ Cardinality(U) \in Nat
  BY SumType, UnitsFinite DEF Numbers, Sized
<1>2. \A x, d : <<x, d>> \in U <=> x \in DOMAIN f /\ d \in 1..f[x]
  BY UnitsAre
<1>3. \A u \in U : u = <<u[1], u[2]>>
  BY UnitsAre
<1> HIDE DEF U
<1>4. Cardinality(U) = 0 <=> U = {}
  BY <1>1, FS_EmptySet
<1>5. \A x \in DOMAIN f : f[x] > 0 <=> 1 \in 1..f[x]
  BY DEF Numbers
<1>6. ASSUME NEW u \in U PROVE \E x \in DOMAIN f : f[x] > 0
  <2>1. u[1] \in DOMAIN f /\ u[2] \in 1..f[u[1]]
    BY <1>2, <1>3
  <2>2. f[u[1]] > 0
    BY <2>1 DEF Numbers
  <2> QED
    BY <2>1, <2>2
<1>7. ASSUME NEW x \in DOMAIN f, f[x] > 0 PROVE U # {}
  BY <1>2, <1>5, <1>7
<1> QED
  BY <1>1, <1>4, <1>6, <1>7

\* Numbers that go up, or come in, by others: their sums add.
LEMMA SumPlus ==
  ASSUME NEW f, Numbers(f), NEW c, Numbers(c), DOMAIN f \subseteq DOMAIN c,
         NEW g, DOMAIN g = DOMAIN f \cup {x \in DOMAIN c : c[x] > 0},
         \A x \in DOMAIN g : g[x] = (IF x \in DOMAIN f THEN f[x] ELSE 0) + c[x]
  PROVE  Numbers(g) /\ SumFunction(g) = SumFunction(f) + SumFunction(c)
<1> DEFINE base(x) == IF x \in DOMAIN f THEN f[x] ELSE 0
           F == Units(f, DOMAIN f)
           C == Units(c, DOMAIN c)
           G == Units(g, DOMAIN g)
           m == [u \in C |-> <<u[1], base(u[1]) + u[2]>>]
<1>1. /\ \A x \in DOMAIN c : c[x] \in Nat /\ base(x) \in Nat
      /\ \A x \in DOMAIN f : f[x] \in Nat /\ x \in DOMAIN g /\ base(x) = f[x]
      /\ \A x \in DOMAIN g : g[x] = base(x) + c[x] /\ x \in DOMAIN c
      /\ \A x \in DOMAIN c : c[x] > 0 => x \in DOMAIN g
      /\ \A x : x \notin DOMAIN f => base(x) = 0
  BY DEF Numbers
<1>2. Numbers(g)
  <2>1. DOMAIN g \subseteq DOMAIN c
    OBVIOUS
  <2>2. IsFiniteSet(DOMAIN g)
    BY <2>1, FS_Subset DEF Numbers
  <2> QED
    BY <1>1, <2>2 DEF Numbers
<1>3. /\ IsFiniteSet(F) /\ IsFiniteSet(C) /\ IsFiniteSet(G)
      /\ SumFunction(f) = Cardinality(F) /\ SumFunction(c) = Cardinality(C) /\ SumFunction(g) = Cardinality(G)
  BY <1>2, SumType, UnitsFinite DEF Numbers, Sized
<1>4. /\ \A x, d : <<x, d>> \in F <=> x \in DOMAIN f /\ d \in 1..f[x]
      /\ \A x, d : <<x, d>> \in C <=> x \in DOMAIN c /\ d \in 1..c[x]
      /\ \A x, d : <<x, d>> \in G <=> x \in DOMAIN g /\ d \in 1..g[x]
  BY UnitsAre
<1>5. /\ \A u \in F : u = <<u[1], u[2]>>
      /\ \A u \in C : u = <<u[1], u[2]>>
      /\ \A u \in G : u = <<u[1], u[2]>>
  BY UnitsAre
<1> HIDE DEF F, C, G, base
<1>6. F \subseteq G
  <2> SUFFICES ASSUME NEW u \in F PROVE u \in G
    OBVIOUS
  <2>1. u[1] \in DOMAIN f /\ u[2] \in 1..f[u[1]] /\ u = <<u[1], u[2]>>
    BY <1>4, <1>5
  <2>2. u[1] \in DOMAIN g /\ u[2] \in 1..g[u[1]]
    BY <1>1, <2>1
  <2>3. <<u[1], u[2]>> \in G
    BY <1>4, <2>2
  <2> QED
    BY <2>1, <2>3, Zenon
<1>7. \A u \in C : /\ u[1] \in DOMAIN c /\ u[2] \in 1..c[u[1]] /\ u[1] \in DOMAIN g
                   /\ base(u[1]) + u[2] \in 1..g[u[1]] /\ ~(base(u[1]) + u[2] <= base(u[1]))
  <2> TAKE u \in C
  <2>1. u[1] \in DOMAIN c /\ u[2] \in 1..c[u[1]]
    BY <1>4, <1>5
  <2> QED
    BY <1>1, <2>1
<1>8. m \in [C -> G \ F]
  <2> SUFFICES ASSUME NEW u \in C PROVE <<u[1], base(u[1]) + u[2]>> \in G \ F
    OBVIOUS
  <2>1. <<u[1], base(u[1]) + u[2]>> \in G
    BY <1>4, <1>7
  <2>2. ~(u[1] \in DOMAIN f /\ base(u[1]) + u[2] \in 1..f[u[1]])
    BY <1>1, <1>7
  <2> QED
    BY <1>4, <2>1, <2>2
<1>9. \A u, v \in C : m[u] = m[v] => u = v
  <2> SUFFICES ASSUME NEW u \in C, NEW v \in C, m[u] = m[v] PROVE u = v
    OBVIOUS
  <2>1. u[1] = v[1] /\ base(u[1]) + u[2] = base(v[1]) + v[2]
    OBVIOUS
  <2>2. base(u[1]) \in Nat /\ u[2] \in Nat /\ v[2] \in Nat
    BY <1>1, <1>7
  <2>3. u[2] = v[2]
    BY <2>1, <2>2
  <2>4. u = <<u[1], u[2]>> /\ v = <<v[1], v[2]>>
    BY <1>5
  <2> HIDE DEF m
  <2> QED
    BY <2>1, <2>3, <2>4, Zenon
<1>10. \A v \in G \ F : \E u \in C : m[u] = v
  <2> SUFFICES ASSUME NEW v \in G, v \notin F PROVE \E u \in C : m[u] = v
    OBVIOUS
  <2>1. v[1] \in DOMAIN g /\ v[2] \in 1..g[v[1]] /\ v = <<v[1], v[2]>>
    BY <1>4, <1>5
  <2>2. ~(v[1] \in DOMAIN f /\ v[2] \in 1..f[v[1]])
    BY <1>4, <2>1
  <2> DEFINE d == v[2] - base(v[1])
  <2>3. v[1] \in DOMAIN c /\ d \in 1..c[v[1]] /\ base(v[1]) + d = v[2]
    BY <1>1, <2>1, <2>2
  <2> HIDE DEF d
  <2>4. <<v[1], d>> \in C
    BY <1>4, <2>3
  <2>5. m[<<v[1], d>>] = <<v[1], v[2]>>
    BY <2>3, <2>4
  <2> HIDE DEF m
  <2>6. m[<<v[1], d>>] = v
    BY <2>1, <2>5, Zenon
  <2> QED
    BY <2>4, <2>6, Zenon
<1> HIDE DEF m
<1>11. m \in Bijection(C, G \ F)
  BY <1>8, <1>9, <1>10 DEF Bijection, Injection, Surjection, IsInjective
<1>12. IsFiniteSet(G \ F) /\ Cardinality(G \ F) = Cardinality(C)
  BY <1>3, <1>11, FS_Bijection DEF ExistsBijection
<1>13. Cardinality(F \cup (G \ F)) = Cardinality(F) + Cardinality(G \ F)
  <2> DEFINE rest == G \ F
  <2>1. F \cap rest = {} /\ IsFiniteSet(rest)
    BY <1>12
  <2> HIDE DEF rest
  <2>2. Cardinality(F \cup rest) = Cardinality(F) + Cardinality(rest)
    BY <1>3, <2>1, Parted
  <2> QED
    BY <2>2 DEF rest
<1>14. F \cup (G \ F) = G
  BY <1>6
<1> QED
  BY <1>2, <1>3, <1>12, <1>13, <1>14

-----------------------------------------------------------------------------
(* The loop of BuildNodeStats.                                              *)

\* One entry of a map goes up, the others stay.
LEMMA BumpOne ==
  ASSUME NEW m, NEW key
  PROVE  LET new == Bump(m, key, <<1>>) IN
           /\ DOMAIN new = DOMAIN m \cup {key}
           /\ \A k \in DOMAIN m \ {key} : new[k] = m[k]
           /\ new[key][1] = (IF key \in DOMAIN m THEN m[key][1] ELSE 0) + 1
BY DEF Bump

NotReadyOnes(n)  == {k \in 1..n : ~Ready(nodes[k])}
InArch(arch, n)  == {k \in 1..n : ArchName(nodes[k]) = arch}
InZone(zone, n)  == {k \in 1..n : ZoneName(nodes[k]) = zone}
ReadyIn(zone, n) == {k \in InZone(zone, n) : Ready(nodes[k])}
Archs(n)         == {ArchName(nodes[k]) : k \in 1..n}
Zones(n)         == {ZoneName(nodes[k]) : k \in 1..n}

\* The nodes that can speak for the version of the cluster.
Best(n) == {k \in 1..n : Ready(nodes[k]) /\ nodes[k].version # ""}

VersionInv ==
  /\ source \in 0..counted
  /\ Best(counted) # {} => source \in Best(counted) /\ \A k \in Best(counted) : source <= k

KindsInv ==
  /\ stats.Total = counted
  /\ stats.CPUNodes \in Nat /\ stats.GPUNodes \in Nat /\ stats.Unschedulable \in Nat
  /\ stats.CPUNodes + stats.GPUNodes = stats.Total
  /\ stats.Unschedulable <= stats.GPUNodes
  /\ stats.NotReady = Cardinality(NotReadyOnes(counted))

RowsInv ==
  /\ IsFiniteSet(stats.rows) /\ Cardinality(stats.rows) = counted
  /\ \A r \in stats.rows : \E k \in 1..counted : r.name = nodes[k].name

ArchInv ==
  /\ DOMAIN stats.arch = Archs(counted)
  /\ \A a \in Archs(counted) : stats.arch[a][1] = Cardinality(InArch(a, counted))

ZonesInv ==
  /\ DOMAIN stats.zones = Zones(counted)
  /\ \A z \in Zones(counted) :
       /\ stats.zones[z][1] = Cardinality(InZone(z, counted))
       /\ stats.zones[z][2] = Cardinality(ReadyIn(z, counted))

NodesInv ==
  /\ NodeList(nodes) /\ counted \in 0..Len(nodes)
  /\ VersionInv /\ KindsInv /\ RowsInv /\ ArchInv /\ ZonesInv

\* The sets grow by the next index where it belongs to them.
LEMMA HeadingsGrow ==
  ASSUME NEW n \in Nat, NEW h
  PROVE  LET new == n + 1 IN
    /\ Cardinality(NotReadyOnes(n)) \in 0..n
    /\ Cardinality(NotReadyOnes(new)) = Cardinality(NotReadyOnes(n)) + One(~Ready(nodes[new]))
    /\ Cardinality(InArch(h, n)) \in 0..n
    /\ Cardinality(InArch(h, new)) = Cardinality(InArch(h, n)) + One(ArchName(nodes[new]) = h)
    /\ Cardinality(InZone(h, n)) \in 0..n
    /\ Cardinality(InZone(h, new)) = Cardinality(InZone(h, n)) + One(ZoneName(nodes[new]) = h)
    /\ Cardinality(ReadyIn(h, n)) \in 0..n
    /\ Cardinality(ReadyIn(h, new)) =
         Cardinality(ReadyIn(h, n)) + One(ZoneName(nodes[new]) = h /\ Ready(nodes[new]))
<1> DEFINE new == n + 1
<1>0. new \in 1..new /\ \A k : k \in 1..n <=> k \in 1..new /\ k \in 1..n
  OBVIOUS
<1>1. NotReadyOnes(new) \cap (1..n) = NotReadyOnes(n) /\ NotReadyOnes(new) \subseteq 1..(n + 1)
  BY <1>0 DEF NotReadyOnes
<1>2. InArch(h, new) \cap (1..n) = InArch(h, n) /\ InArch(h, new) \subseteq 1..(n + 1)
  BY <1>0 DEF InArch
<1>3. InZone(h, new) \cap (1..n) = InZone(h, n) /\ InZone(h, new) \subseteq 1..(n + 1)
  BY <1>0 DEF InZone
<1>4. ReadyIn(h, new) \cap (1..n) = ReadyIn(h, n) /\ ReadyIn(h, new) \subseteq 1..(n + 1)
  BY <1>0 DEF ReadyIn, InZone
<1>5. /\ new \in NotReadyOnes(new) <=> ~Ready(nodes[new])
      /\ new \in InArch(h, new) <=> ArchName(nodes[new]) = h
      /\ new \in InZone(h, new) <=> ZoneName(nodes[new]) = h
      /\ new \in ReadyIn(h, new) <=> ZoneName(nodes[new]) = h /\ Ready(nodes[new])
  BY <1>0 DEF NotReadyOnes, InArch, InZone, ReadyIn
<1>6. /\ Cardinality(NotReadyOnes(n)) \in 0..n
      /\ Cardinality(NotReadyOnes(new)) = Cardinality(NotReadyOnes(n)) + One(new \in NotReadyOnes(new))
  BY <1>1, NextIndex
<1>7. /\ Cardinality(InArch(h, n)) \in 0..n
      /\ Cardinality(InArch(h, new)) = Cardinality(InArch(h, n)) + One(new \in InArch(h, new))
  BY <1>2, NextIndex
<1>8. /\ Cardinality(InZone(h, n)) \in 0..n
      /\ Cardinality(InZone(h, new)) = Cardinality(InZone(h, n)) + One(new \in InZone(h, new))
  BY <1>3, NextIndex
<1>9. /\ Cardinality(ReadyIn(h, n)) \in 0..n
      /\ Cardinality(ReadyIn(h, new)) = Cardinality(ReadyIn(h, n)) + One(new \in ReadyIn(h, new))
  BY <1>4, NextIndex
<1> HIDE DEF new
<1>10. QED
  BY <1>5, <1>6, <1>7, <1>8, <1>9 DEF new, One

LEMMA NodesInvInit ==
  ASSUME NEW list, NodeList(list), NodesInit(list)
  PROVE  NodesInv
<1>1. nodes = list /\ counted = 0 /\ source = 0 /\ stats = NoStats
  BY DEF NodesInit
<1>2. 1..counted = {}
  BY <1>1
<1>3. /\ NotReadyOnes(counted) = {} /\ Archs(counted) = {} /\ Zones(counted) = {} /\ Best(counted) = {}
  BY <1>2 DEF NotReadyOnes, Archs, Zones, Best
<1>4. Cardinality({}) = 0 /\ IsFiniteSet({})
  BY FS_EmptySet
<1>5. /\ VersionInv /\ KindsInv
      /\ RowsInv
      /\ ArchInv /\ ZonesInv
  <2>1. /\ stats.Total = 0 /\ stats.NotReady = 0 /\ stats.CPUNodes = 0 /\ stats.GPUNodes = 0
        /\ stats.Unschedulable = 0 /\ stats.rows = {}
        /\ stats.arch = <<>> /\ stats.zones = <<>>
    BY <1>1 DEF NoStats
  <2>2. DOMAIN stats.arch = {} /\ DOMAIN stats.zones = {}
    BY <2>1
  <2>3. VersionInv
    BY <1>1, <1>3 DEF VersionInv
  <2>6. KindsInv
    <3>1. Cardinality(NotReadyOnes(counted)) = 0
      BY <1>3, <1>4
    <3> QED BY <1>1, <2>1, <3>1 DEF KindsInv
  <2>4. RowsInv
    BY <1>1, <1>4, <2>1 DEF RowsInv
  <2>5. ArchInv /\ ZonesInv
    BY <1>3, <2>2 DEF ArchInv, ZonesInv
  <2> QED
    BY <2>3, <2>4, <2>5, <2>6
<1>6. counted \in 0..Len(nodes)
  BY <1>1 DEF NodeList, IsList
<1> QED
  BY <1>1, <1>5, <1>6 DEF NodesInv

\* The first ready node with a version takes over from whatever was there,
\* and stays.
LEMMA VersionStep ==
  ASSUME NodesInv, CountNode
  PROVE  VersionInv'
<1> DEFINE new == counted + 1
<1>1. /\ counted \in Nat /\ counted' = new /\ nodes' = nodes
      /\ source' = IF Source(new) THEN new ELSE source
  BY DEF NodesInv, CountNode, NodeList, IsList
<1>2. Best(counted)' = Best(new)
  BY <1>1 DEF Best
<1>0. /\ \A k : k \in 1..new <=> k \in 1..counted \/ k = new
      /\ new \notin 1..counted /\ \A k \in 1..counted : k \in Int /\ 0 < k /\ k < new
  BY <1>1, UpToNext
<1>3. Best(new) \ {new} = Best(counted)
  <2> HIDE DEF new
  <2> QED BY <1>0 DEF Best
<1>4. source \in 0..counted /\ source' \in 0..counted'
  BY <1>1 DEF NodesInv, VersionInv
<1>5. CASE Best(counted) # {}
  <2>1. source \in Best(counted) /\ \A k \in Best(counted) : source <= k
    BY <1>5 DEF NodesInv, VersionInv
  <2>2. source # 0 /\ Ready(nodes[source]) /\ nodes[source].version # ""
    <3>1. source \in 1..counted /\ Ready(nodes[source]) /\ nodes[source].version # ""
      BY <2>1 DEF Best
    <3>2. 0 \notin 1..counted
      BY <1>1
    <3> QED BY <3>1, <3>2
  <2>3. source' = source
    BY <1>1, <2>2 DEF Source, Version
  <2>4. source < new /\ \A k \in Best(new) : k \in Best(counted) \/ k = new
    BY <1>0, <1>3, <2>1 DEF Best
  <2>5. \A k \in Best(new) : source <= k
    BY <1>1, <1>4, <2>1, <2>4
  <2> QED
    BY <1>2, <1>3, <1>4, <2>1, <2>3, <2>5 DEF VersionInv
<1>6. CASE Best(counted) = {} /\ new \in Best(new)
  <2>1. source = 0 \/ ~Ready(nodes[source]) \/ nodes[source].version = ""
    <3>1. source # 0 => source \in 1..counted
      BY <1>1, <1>4
    <3> QED BY <3>1, <1>6 DEF Best
  <2>2. Source(new)
    BY <2>1, <1>6 DEF Best, Source, Version
  <2>3. source' = new /\ Best(new) = {new}
    BY <1>1, <1>3, <1>6, <2>2
  <2> QED
    BY <1>1, <1>2, <1>4, <2>3 DEF VersionInv
<1>7. CASE Best(counted) = {} /\ new \notin Best(new)
  BY <1>2, <1>3, <1>4, <1>7 DEF VersionInv
<1> QED
  BY <1>5, <1>6, <1>7

LEMMA HeadingsStep ==
  ASSUME NodesInv, CountNode
  PROVE  KindsInv' /\ RowsInv' /\ ArchInv' /\ ZonesInv'
<1> DEFINE new == counted + 1
           n   == nodes[new]
<1>1. /\ counted \in Nat /\ new \in Nat /\ counted' = new /\ nodes' = nodes
      /\ new \in DOMAIN nodes /\ stats' = Count(n)
  BY DEF NodesInv, CountNode, NodeList, IsList
<1>2. /\ stats'.Total = stats.Total + 1
      /\ stats'.NotReady = stats.NotReady + One(~Ready(n))
      /\ stats'.GPUNodes = stats.GPUNodes + One(Class(n) # "cpu")
      /\ stats'.CPUNodes = stats.CPUNodes + One(Class(n) = "cpu")
      /\ stats'.Unschedulable = stats.Unschedulable + One(Class(n) = "unschedulable")
      /\ stats'.arch = Bump(stats.arch, ArchName(n), <<1>>)
      /\ stats'.zones = Bump(stats.zones, ZoneName(n), <<1, One(Ready(n))>>)
      /\ stats'.rows = stats.rows \cup {Row(n)}
  BY <1>1 DEF Count
<1>3. /\ NotReadyOnes(counted)' = NotReadyOnes(new)
      /\ Archs(counted)' = Archs(new) /\ Zones(counted)' = Zones(new)
      /\ \A h : InArch(h, counted)' = InArch(h, new)
      /\ \A h : InZone(h, counted)' = InZone(h, new)
      /\ \A h : ReadyIn(h, counted)' = ReadyIn(h, new)
  BY <1>1 DEF NotReadyOnes, Archs, Zones, InArch, InZone, ReadyIn
<1>4. Archs(new) = Archs(counted) \cup {ArchName(n)} /\ Zones(new) = Zones(counted) \cup {ZoneName(n)}
  BY <1>1, UpToNext DEF Archs, Zones
<1>5. KindsInv'
  <2>1. Cardinality(NotReadyOnes(new)) = Cardinality(NotReadyOnes(counted)) + One(~Ready(n))
    BY <1>1, HeadingsGrow
  <2>2. KindsInv
    BY DEF NodesInv
  <2> HIDE DEF n
  <2> QED
    BY <1>1, <1>2, <1>3, <2>1, <2>2 DEF KindsInv, One
<1>6. RowsInv'
  <2>1. RowsInv /\ NodeList(nodes)
    BY DEF NodesInv
  <2>2. Row(n).name = n.name
    BY DEF Row
  <2>3. Row(n) \notin stats.rows
    BY <1>1, <2>1, <2>2 DEF RowsInv, NodeList, IsList
  <2>4. IsFiniteSet(stats'.rows) /\ Cardinality(stats'.rows) = counted + 1
    <3> DEFINE rs == stats.rows
    <3>1. IsFiniteSet(rs) /\ Cardinality(rs) = counted /\ Row(n) \notin rs
      BY <2>1, <2>3 DEF RowsInv
    <3> HIDE DEF rs, n
    <3>2. IsFiniteSet(rs \cup {Row(n)}) /\ Cardinality(rs \cup {Row(n)}) = counted + 1
      BY <3>1, FS_AddElement
    <3> QED BY <1>2, <3>2 DEF rs
  <2>5. \A r \in stats'.rows : \E k \in 1..new : r.name = nodes[k].name
    BY <1>1, <1>2, <2>1, <2>2 DEF RowsInv
  <2> QED
    BY <1>1, <2>4, <2>5 DEF RowsInv
<1>7. ArchInv'
  <2> DEFINE m == stats.arch
             key == ArchName(n)
  <2>1. DOMAIN m = Archs(counted) /\ \A a \in Archs(counted) : m[a][1] = Cardinality(InArch(a, counted))
    BY DEF NodesInv, ArchInv
  <2>2. key \notin Archs(counted) => Cardinality(InArch(key, counted)) = 0
    <3>1. key \notin Archs(counted) => InArch(key, counted) = {}
      BY DEF Archs, InArch
    <3> QED BY <3>1, FS_EmptySet
  <2>3. \A a : /\ Cardinality(InArch(a, counted)) \in Nat
               /\ Cardinality(InArch(a, new)) = Cardinality(InArch(a, counted)) + One(key = a)
    BY <1>1, HeadingsGrow
  <2> HIDE DEF m, key, new, n
  <2>4. /\ DOMAIN Bump(m, key, <<1>>) = DOMAIN m \cup {key}
        /\ \A a \in DOMAIN m \ {key} : Bump(m, key, <<1>>)[a] = m[a]
        /\ Bump(m, key, <<1>>)[key][1] = (IF key \in DOMAIN m THEN m[key][1] ELSE 0) + 1
    BY BumpOne
  <2>5. stats'.arch = Bump(m, key, <<1>>) /\ Archs(new) = Archs(counted) \cup {key}
    BY <1>2, <1>4 DEF m, key
  <2>6. DOMAIN stats'.arch = Archs(new)
    BY <2>1, <2>4, <2>5
  <2>7. ASSUME NEW a \in Archs(new) PROVE stats'.arch[a][1] = Cardinality(InArch(a, new))
    <3>1. CASE a = key
      BY <3>1, <2>1, <2>2, <2>3, <2>4, <2>5 DEF One
    <3>2. CASE a # key
      BY <3>2, <2>1, <2>3, <2>4, <2>5 DEF One
    <3> QED BY <3>1, <3>2
  <2> QED
    BY <1>1, <1>3, <2>6, <2>7 DEF ArchInv
<1>8. ZonesInv'
  <2> DEFINE m == stats.zones
             key == ZoneName(n)
             b == One(Ready(n))
  <2>1. /\ DOMAIN m = Zones(counted)
        /\ \A z \in Zones(counted) : /\ m[z][1] = Cardinality(InZone(z, counted))
                                     /\ m[z][2] = Cardinality(ReadyIn(z, counted))
    BY DEF NodesInv, ZonesInv
  <2>2. key \notin Zones(counted) =>
          Cardinality(InZone(key, counted)) = 0 /\ Cardinality(ReadyIn(key, counted)) = 0
    <3>1. key \notin Zones(counted) => InZone(key, counted) = {} /\ ReadyIn(key, counted) = {}
      BY DEF Zones, InZone, ReadyIn
    <3> QED BY <3>1, FS_EmptySet
  <2>3. \A z : /\ Cardinality(InZone(z, counted)) \in Nat
               /\ Cardinality(InZone(z, new)) = Cardinality(InZone(z, counted)) + One(key = z)
               /\ Cardinality(ReadyIn(z, counted)) \in Nat
               /\ Cardinality(ReadyIn(z, new)) = Cardinality(ReadyIn(z, counted)) + One(key = z /\ Ready(n))
    BY <1>1, HeadingsGrow
  <2>4. b = IF Ready(n) THEN 1 ELSE 0
    BY DEF One
  <2> HIDE DEF m, key, new, n, b
  <2>5. /\ DOMAIN Bump(m, key, <<1, b>>) = DOMAIN m \cup {key}
        /\ \A z \in DOMAIN m \ {key} : Bump(m, key, <<1, b>>)[z] = m[z]
        /\ Bump(m, key, <<1, b>>)[key][1] = (IF key \in DOMAIN m THEN m[key][1] ELSE 0) + 1
        /\ Bump(m, key, <<1, b>>)[key][2] = (IF key \in DOMAIN m THEN m[key][2] ELSE 0) + b
    BY DEF Bump
  <2>6. stats'.zones = Bump(m, key, <<1, b>>) /\ Zones(new) = Zones(counted) \cup {key}
    BY <1>2, <1>4 DEF m, key, b
  <2>7. DOMAIN stats'.zones = Zones(new)
    BY <2>1, <2>5, <2>6
  <2>8. ASSUME NEW z \in Zones(new)
        PROVE  /\ stats'.zones[z][1] = Cardinality(InZone(z, new))
               /\ stats'.zones[z][2] = Cardinality(ReadyIn(z, new))
    <3>1. CASE z = key
      BY <3>1, <2>1, <2>2, <2>3, <2>4, <2>5, <2>6 DEF One
    <3>2. CASE z # key
      BY <3>2, <2>1, <2>3, <2>5, <2>6 DEF One
    <3> QED BY <3>1, <3>2
  <2> QED
    BY <1>1, <1>3, <2>7, <2>8 DEF ZonesInv
<1> QED
  BY <1>5, <1>6, <1>7, <1>8

LEMMA NodesInvStep == ASSUME NodesInv, CountNode PROVE NodesInv'
<1>1. nodes' = nodes /\ counted' \in 0..Len(nodes)
  BY DEF NodesInv, CountNode, NodeList, IsList
<1>2. NodeList(nodes)' /\ (counted \in 0..Len(nodes))'
  BY <1>1 DEF NodesInv
<1> QED
  BY <1>2, VersionStep, HeadingsStep DEF NodesInv

LEMMA NodesInvUnchanged == ASSUME NodesInv, UNCHANGED nodeVars PROVE NodesInv'
<1>1. nodes' = nodes /\ counted' = counted /\ source' = source /\ stats' = stats
  BY DEF nodeVars
<1>2. VersionInv'
  BY <1>1 DEF NodesInv, VersionInv, Best
<1>3. KindsInv' /\ RowsInv'
  BY <1>1 DEF NodesInv, KindsInv, RowsInv, NotReadyOnes
<1>4. ArchInv'
  BY <1>1 DEF NodesInv, ArchInv, InArch, Archs
<1>5. ZonesInv'
  <2>1. /\ Zones(counted)' = Zones(counted)
        /\ \A z : InZone(z, counted)' = InZone(z, counted)
        /\ \A z : ReadyIn(z, counted)' = ReadyIn(z, counted)
    BY <1>1 DEF InZone, ReadyIn, Zones
  <2> QED BY <1>1, <2>1 DEF NodesInv, ZonesInv
<1> QED
  BY <1>1, <1>2, <1>3, <1>4, <1>5 DEF NodesInv
-----------------------------------------------------------------------------
(* The devices of the nodes.                                                *)

\* The nodes under a resource are some of those that are not called
\* unschedulable, and the devices of all resources are those of all nodes.
Schedulable == stats.GPUNodes - stats.Unschedulable
Advertised  == [name \in DOMAIN stats.perRes |-> stats.perRes[name][2]]

DevicesInv ==
  /\ IsFiniteSet(accel) /\ DOMAIN stats.perRes \subseteq accel
  /\ \A name \in DOMAIN stats.perRes :
       stats.perRes[name] \in Nat \X Nat /\ stats.perRes[name][1] <= Schedulable
  /\ SumFunction(Advertised) = stats.GPUs
  /\ Cardinality({r \in stats.rows : r.free > 0}) <= Schedulable

\* What a node advertises.
OfNode(n) == [name \in accel |-> Capacity(n, name)]

LEMMA AccelIsFinite ==
  ASSUME NEW list, NodeList(list), NodesInit(list)
  PROVE  IsFiniteSet(accel)
<1>1. PICK override \in Overrides : accel = DiscoverAccelerators(list, override)
  BY DEF NodesInit
<1>2. CASE override # {}
  BY <1>1, <1>2, NodesAssumption DEF DiscoverAccelerators
<1>3. CASE override = {}
  <2> DEFINE D == 1..Len(list)
             f == [k \in D |-> DOMAIN list[k].capacity]
             R == {f[k] : k \in D}
  <2>1. DOMAIN list = D /\ \A k \in D : IsFiniteSet(f[k])
    BY DEF NodeList, IsList, Quantities
  <2>2. IsFiniteSet(D)
    BY FS_Interval DEF NodeList, IsList
  <2>3. accel \subseteq UNION R
    BY <1>1, <1>3, <2>1 DEF DiscoverAccelerators, Capacity
  <2>4. f \in Surjection(D, R)
    BY DEF Surjection
  <2> HIDE DEF D, f
  <2>5. IsFiniteSet(R)
    BY <2>2, <2>4, FS_Surjection
  <2>6. IsFiniteSet(UNION R)
    BY <2>1, <2>5, FS_UNION
  <2> QED
    BY <2>3, <2>6, FS_Subset
<1> QED
  BY <1>2, <1>3

LEMMA DevicesInit ==
  ASSUME NEW list, NodeList(list), NodesInit(list)
  PROVE  DevicesInv
<1>1. stats.perRes = <<>> /\ stats.GPUs = 0 /\ stats.rows = {} /\ Schedulable = 0
  BY DEF NodesInit, NoStats, Schedulable
<1>2. DOMAIN stats.perRes = {} /\ DOMAIN Advertised = {}
  BY <1>1 DEF Advertised
<1>3. SumFunction(Advertised) = 0
  BY <1>2, SumNone
<1>4. Cardinality({r \in stats.rows : r.free > 0}) = 0
  BY <1>1, FS_EmptySet
<1> QED
  BY <1>1, <1>2, <1>3, <1>4, AccelIsFinite DEF DevicesInv

\* A node with a device is under a heading that can hand it out.
LEMMA DevicesOfNode ==
  ASSUME IsFiniteSet(accel), NEW n, Quantities(n)
  PROVE  /\ Numbers(OfNode(n)) /\ DOMAIN OfNode(n) = accel
         /\ \A name : Capacity(n, name) \in Nat
         /\ NodeAccelerators(n) = SumFunction(OfNode(n))
         /\ \A name \in accel : Capacity(n, name) > 0 => Class(n) = "gpu"
         /\ Row(n).free > 0 => Class(n) = "gpu"
<1>1. \A name : Capacity(n, name) \in Nat
  BY DEF Capacity, Quantities, QuantityInt
<1>2. Numbers(OfNode(n)) /\ DOMAIN OfNode(n) = accel /\ \A name \in accel : OfNode(n)[name] = Capacity(n, name)
  BY <1>1 DEF Numbers, OfNode
<1>3. NodeAccelerators(n) = SumFunction(OfNode(n))
  BY DEF NodeAccelerators, OfNode
<1>4. \A name \in accel : Capacity(n, name) > 0 => Class(n) = "gpu"
  <2> SUFFICES ASSUME NEW name \in accel, Capacity(n, name) > 0 PROVE Class(n) = "gpu"
    OBVIOUS
  <2>1. NodeAccelerators(n) > 0
    BY <1>2, <1>3, SumZero
  <2>2. NodeAccelerators(n) \in Nat
    BY <1>2, <1>3, SumType
  <2> QED
    BY <2>1, <2>2 DEF Class
<1>5. ASSUME Row(n).free > 0 PROVE Class(n) = "gpu"
  <2> DEFINE free == {name \in accel : Allocatable(n, name) > 0}
  <2>1. Row(n).free = IF free = {} THEN 0 ELSE Allocatable(n, CHOOSE name \in free : TRUE)
    BY DEF Row
  <2>2. PICK name \in free : TRUE
    BY <1>5, <2>1
  <2>3. name \in accel /\ Allocatable(n, name) > 0 /\ name \in DOMAIN n.allocatable
    BY <2>2 DEF Allocatable
  <2>4. Allocatable(n, name) \in Int /\ Allocatable(n, name) <= Capacity(n, name)
    BY <2>3 DEF Quantities, Allocatable, QuantityInt
  <2>5. Capacity(n, name) > 0
    BY <1>1, <2>3, <2>4
  <2> QED
    BY <1>4, <2>3, <2>5
<1> QED
  BY <1>1, <1>2, <1>3, <1>4, <1>5

LEMMA DevicesStep ==
  ASSUME NodesInv, DevicesInv, CountNode
  PROVE  DevicesInv'
<1> DEFINE n == nodes[counted + 1]
           has == {name \in accel : Capacity(n, name) > 0}
           m == stats.perRes
<1>1. stats' = Count(n) /\ accel' = accel /\ Quantities(n)
  BY DEF NodesInv, CountNode, NodeList, IsList
<1>2. /\ IsFiniteSet(accel) /\ DOMAIN m \subseteq accel
      /\ \A name \in DOMAIN m : m[name] \in Nat \X Nat /\ m[name][1] <= Schedulable
      /\ SumFunction(Advertised) = stats.GPUs
      /\ Cardinality({r \in stats.rows : r.free > 0}) <= Schedulable
  BY DEF DevicesInv
<1>3. stats.GPUNodes \in Nat /\ stats.Unschedulable \in Nat /\ Schedulable \in Nat
  BY DEF NodesInv, KindsInv, Schedulable
<1>4. /\ Numbers(OfNode(n)) /\ DOMAIN OfNode(n) = accel
      /\ \A name : Capacity(n, name) \in Nat
      /\ NodeAccelerators(n) = SumFunction(OfNode(n))
      /\ \A name \in has : Class(n) = "gpu"
      /\ Row(n).free > 0 => Class(n) = "gpu"
  BY <1>1, <1>2, DevicesOfNode
<1>5. /\ stats'.GPUNodes = stats.GPUNodes + One(Class(n) # "cpu")
      /\ stats'.Unschedulable = stats.Unschedulable + One(Class(n) = "unschedulable")
      /\ stats'.GPUs = stats.GPUs + NodeAccelerators(n)
      /\ stats'.rows = stats.rows \cup {Row(n)}
  BY <1>1 DEF Count
<1>6. /\ DOMAIN stats'.perRes = DOMAIN m \cup has
      /\ \A name \in DOMAIN m \cup has :
           stats'.perRes[name] =
             IF name \in has
               THEN <<(IF name \in DOMAIN m THEN m[name][1] ELSE 0) + 1,
                      (IF name \in DOMAIN m THEN m[name][2] ELSE 0) + Capacity(n, name)>>
               ELSE m[name]
  BY <1>1 DEF Count
<1>7. Class(n) \in {"gpu", "unschedulable", "cpu"}
  <2>1. NodeAccelerators(n) \in Nat
    BY <1>4, SumType
  <2> QED
    BY <2>1 DEF Class
<1> HIDE DEF n, m, has
<1>8. Schedulable' = Schedulable + One(Class(n) = "gpu")
  BY <1>3, <1>5, <1>7 DEF Schedulable, One
<1>9. Schedulable' \in Nat /\ Schedulable <= Schedulable' /\ (Class(n) = "gpu" => Schedulable' = Schedulable + 1)
  BY <1>3, <1>8 DEF One
<1>10. ASSUME NEW name \in DOMAIN stats'.perRes
       PROVE  stats'.perRes[name] \in Nat \X Nat /\ stats'.perRes[name][1] <= Schedulable'
  <2>1. CASE name \in has
    <3>1. stats'.perRes[name] = <<(IF name \in DOMAIN m THEN m[name][1] ELSE 0) + 1,
                                  (IF name \in DOMAIN m THEN m[name][2] ELSE 0) + Capacity(n, name)>>
      BY <1>6, <2>1
    <3>2. Schedulable' = Schedulable + 1 /\ Capacity(n, name) \in Nat
      BY <1>4, <1>9, <2>1
    <3>3. name \in DOMAIN m => m[name][1] \in Nat /\ m[name][2] \in Nat /\ m[name][1] <= Schedulable
      BY <1>2
    <3> QED
      BY <1>3, <3>1, <3>2, <3>3
  <2>2. CASE name \notin has
    <3>1. name \in DOMAIN m /\ stats'.perRes[name] = m[name]
      BY <1>6, <2>2
    <3>2. m[name] \in Nat \X Nat /\ m[name][1] <= Schedulable /\ m[name][1] \in Nat
      BY <1>2, <3>1
    <3> QED
      BY <1>3, <1>9, <3>1, <3>2
  <2> QED
    BY <2>1, <2>2
<1>11. SumFunction(Advertised)' = stats'.GPUs
  <2> DEFINE f == Advertised
             c == OfNode(n)
             g == [name \in DOMAIN stats'.perRes |-> stats'.perRes[name][2]]
  <2>1. /\ DOMAIN f = DOMAIN m /\ \A name \in DOMAIN m : f[name] = m[name][2] /\ f[name] \in Nat
    BY <1>2 DEF Advertised, m
  <2>2. DOMAIN c = accel /\ \A name \in accel : c[name] = Capacity(n, name)
    BY DEF OfNode
  <2>3. Numbers(f)
    BY <1>2, <2>1, FS_Subset DEF Numbers
  <2>4. DOMAIN f \subseteq DOMAIN c
    BY <1>2, <2>1, <2>2
  <2>5. DOMAIN g = DOMAIN f \cup {name \in DOMAIN c : c[name] > 0}
    BY <1>6, <2>1, <2>2 DEF has
  <2>6. \A name \in DOMAIN g : g[name] = (IF name \in DOMAIN f THEN f[name] ELSE 0) + c[name]
    <3> SUFFICES ASSUME NEW name \in DOMAIN stats'.perRes
                 PROVE  g[name] = (IF name \in DOMAIN f THEN f[name] ELSE 0) + c[name]
      OBVIOUS
    <3>1. CASE name \in has
      <4>1. name \in accel
        BY <3>1 DEF has
      <4>2. stats'.perRes[name] = <<(IF name \in DOMAIN m THEN m[name][1] ELSE 0) + 1,
                                    (IF name \in DOMAIN m THEN m[name][2] ELSE 0) + Capacity(n, name)>>
        BY <1>6, <3>1
      <4>3. g[name] = (IF name \in DOMAIN m THEN m[name][2] ELSE 0) + Capacity(n, name)
        BY <4>2
      <4> HIDE DEF f, c, g
      <4> QED
        BY <2>1, <2>2, <4>1, <4>3
    <3>2. CASE name \notin has
      <4>1. name \in DOMAIN m /\ name \in accel /\ g[name] = m[name][2]
        BY <1>2, <1>6, <3>2
      <4>2. c[name] = 0
        BY <1>4, <2>2, <3>2, <4>1 DEF has
      <4> QED
        BY <2>1, <4>1, <4>2
    <3> QED
      BY <3>1, <3>2
  <2> HIDE DEF f, c, g
  <2>7. Numbers(c)
    BY <1>4 DEF c
  <2>8. SumFunction(g) = SumFunction(f) + SumFunction(c)
    BY <2>3, <2>4, <2>5, <2>6, <2>7, SumPlus
  <2>9. Advertised' = g
    BY DEF Advertised, g
  <2> QED
    BY <1>2, <1>4, <1>5, <2>8, <2>9, Zenon DEF f, c
<1>12. Cardinality({r \in stats'.rows : r.free > 0}) <= Schedulable'
  <2> DEFINE S == {r \in stats.rows : r.free > 0}
             T == {r \in stats'.rows : r.free > 0}
  <2>1. IsFiniteSet(S)
    <3>1. S \subseteq stats.rows
      OBVIOUS
    <3> HIDE DEF S
    <3> QED
      BY <3>1, FS_Subset DEF NodesInv, RowsInv
  <2>2. T = S \/ (T = S \cup {Row(n)} /\ Row(n).free > 0)
    BY <1>5
  <2>3. Cardinality(S) <= Schedulable
    BY <1>2
  <2> HIDE DEF S, T
  <2>4. Cardinality(S) \in Nat
    BY <2>1, FS_CardinalityType
  <2>5. CASE T = S
    BY <1>3, <1>9, <2>3, <2>4, <2>5 DEF T
  <2>6. CASE T = S \cup {Row(n)} /\ Row(n).free > 0
    <3>1. Cardinality(T) <= Cardinality(S) + 1 /\ Cardinality(T) \in Nat
      <4>1. IsFiniteSet(T) /\ Cardinality(T) = IF Row(n) \in S THEN Cardinality(S) ELSE Cardinality(S) + 1
        BY <2>1, <2>6, FS_AddElement
      <4> QED
        BY <2>4, <4>1, FS_CardinalityType
    <3>2. Schedulable' = Schedulable + 1
      BY <1>4, <1>9, <2>6
    <3>3. Cardinality(T) <= Schedulable'
      BY <1>3, <2>3, <2>4, <3>1, <3>2
    <3> QED
      BY <3>3 DEF T
  <2> QED
    BY <2>2, <2>5, <2>6
<1> QED
  BY <1>1, <1>2, <1>6, <1>10, <1>11, <1>12 DEF DevicesInv, has

LEMMA DevicesUnchanged == ASSUME DevicesInv, UNCHANGED nodeVars PROVE DevicesInv'
<1>1. accel' = accel /\ stats' = stats
  BY DEF nodeVars
<1> QED
  BY <1>1 DEF DevicesInv, Advertised, Schedulable

-----------------------------------------------------------------------------
(* The loop of FillZones over the pods.                                     *)

\* A host address that some node advertises is taken for one of those nodes.
LEMMA HostIsNode ==
  ASSUME NodeList(nodes), NEW ip \in Addresses
  PROVE  \E k \in DOMAIN nodes : Host(ip) = nodes[k]
<1> DEFINE S == {k \in DOMAIN nodes : ip \in nodes[k].ips}
           P(k) == \A j \in S : j <= k
<1>1. S \subseteq 1..Len(nodes) /\ Len(nodes) \in Nat /\ S # {}
  BY DEF NodeList, IsList, Addresses
<1>2. \E k \in S : P(k)
  <2> HIDE DEF S
  <2> QED BY <1>1, LastExists
<1>3. Host(ip) = nodes[CHOOSE k \in S : P(k)]
  BY DEF Host
<1>4. (CHOOSE k \in S : P(k)) \in S
  <2> HIDE DEF S, P
  <2> QED BY <1>2
<1> QED
  BY <1>3, <1>4

\* A zone a pod is placed in is the zone of a node.
LEMMA ZoneIsNodes ==
  ASSUME NodeList(nodes), NEW pod, Zone(pod) # Unknown
  PROVE  /\ \E k \in DOMAIN nodes : Zone(pod) = ZoneName(nodes[k])
         /\ NodeOf(pod) # {}
<1>1. pod.host \in Addresses
  BY DEF Zone
<1> QED
  BY <1>1, HostIsNode DEF Zone, NodeOf

PlacedOf(ks)   == {k \in ks : Zone(pods[k]) # Unknown}
MeshedOf(ks)   == {k \in ks : InMesh(pods[k])}
InjectedOf(ks) == {k \in MeshedOf(ks) : pods[k].injected}
ZonesOf(ks)    == {Zone(pods[k]) : k \in PlacedOf(ks)}
NodesOf(ks)    == UNION {NodeOf(pods[k]) : k \in ks}

LEMMA AmountsSays ==
  ASSUME NEW t, NEW ks
  PROVE  Amounts(t, ks) <=>
           /\ t.pods = Cardinality(ks)
           /\ t.unplaced = Cardinality(ks \ PlacedOf(ks))
           /\ t.zones = ZonesOf(ks)
           /\ t.nodes = NodesOf(ks)
           /\ t.meshPods = Cardinality(MeshedOf(ks))
           /\ t.injected = Cardinality(InjectedOf(ks))
BY DEF Amounts, PlacedOf, MeshedOf, InjectedOf, ZonesOf, NodesOf

\* The pod that speaks for the policy of a row is one of the row's own.
Spoken(t, ks) ==
  /\ IF ks = {} THEN t.first = 0 ELSE t.first \in ks
  /\ IsFiniteSet(t.zones) /\ IsFiniteSet(t.nodes)

\* A tally of a set of pods.
Told(t, ks) == Amounts(t, ks) /\ Spoken(t, ks)

LEMMA ToldNone == Told(None, {})
<1>1. /\ {} \ PlacedOf({}) = {} /\ MeshedOf({}) = {} /\ InjectedOf({}) = {}
      /\ ZonesOf({}) = {} /\ NodesOf({}) = {}
  BY DEF PlacedOf, MeshedOf, InjectedOf, ZonesOf, NodesOf
<1>2. Cardinality({}) = 0 /\ IsFiniteSet({})
  BY FS_EmptySet
<1>3. Amounts(None, {})
  BY <1>1, <1>2, AmountsSays DEF None
<1> QED
  BY <1>2, <1>3 DEF Told, Spoken, None

LEMMA ToldAdd ==
  ASSUME NEW ks, IsFiniteSet(ks), 0 \notin ks, NEW k, k \notin ks, k # 0,
         NEW t, Told(t, ks)
  PROVE  Told(Add(t, k), ks \cup {k})
<1> DEFINE all == ks \cup {k}
           pod == pods[k]
           new == Add(t, k)
<1>1. /\ new.pods = t.pods + 1
      /\ new.unplaced = t.unplaced + One(Zone(pod) = Unknown)
      /\ new.meshPods = t.meshPods + One(InMesh(pod))
      /\ new.injected = t.injected + One(InMesh(pod) /\ pod.injected)
      /\ new.zones = t.zones \cup ({Zone(pod)} \ {Unknown})
      /\ new.nodes = t.nodes \cup NodeOf(pod)
      /\ new.first = IF t.first = 0 THEN k ELSE t.first
  BY DEF Add, One
<1>2. Amounts(t, ks) /\ Spoken(t, ks)
  BY DEF Told
<1>3. /\ t.pods = Cardinality(ks)
      /\ t.unplaced = Cardinality(ks \ PlacedOf(ks))
      /\ t.zones = ZonesOf(ks)
      /\ t.nodes = NodesOf(ks)
      /\ t.meshPods = Cardinality(MeshedOf(ks))
      /\ t.injected = Cardinality(InjectedOf(ks))
  BY <1>2, AmountsSays
<1>4. new.pods = Cardinality(all)
  <2>1. Cardinality(all) = Cardinality(ks) + 1
    BY FS_AddElement
  <2> HIDE DEF all, new
  <2> QED BY <1>1, <1>3, <2>1
<1>5. new.unplaced = Cardinality(all \ PlacedOf(all))
  <2> DEFINE S == ks \ PlacedOf(ks)
             T == all \ PlacedOf(all)
  <2>1. IsFiniteSet(S)
    BY FS_Subset DEF PlacedOf
  <2>2. k \notin S /\ T \ {k} = S /\ (k \in T <=> Zone(pod) = Unknown)
    BY DEF PlacedOf
  <2> HIDE DEF S, T
  <2>3. Cardinality(T) = Cardinality(S) + One(k \in T)
    BY <2>1, <2>2, OneMore
  <2> HIDE DEF new
  <2> QED BY <1>1, <1>3, <2>2, <2>3 DEF S, T, One
<1>6. new.meshPods = Cardinality(MeshedOf(all))
  <2> DEFINE S == MeshedOf(ks)
             T == MeshedOf(all)
  <2>1. IsFiniteSet(S)
    BY FS_Subset DEF MeshedOf
  <2>2. k \notin S /\ T \ {k} = S /\ (k \in T <=> InMesh(pod))
    BY DEF MeshedOf
  <2> HIDE DEF S, T
  <2>3. Cardinality(T) = Cardinality(S) + One(k \in T)
    BY <2>1, <2>2, OneMore
  <2> HIDE DEF new
  <2> QED BY <1>1, <1>3, <2>2, <2>3 DEF S, T, One
<1>7. new.injected = Cardinality(InjectedOf(all))
  <2> DEFINE S == InjectedOf(ks)
             T == InjectedOf(all)
  <2>1. IsFiniteSet(S)
    BY FS_Subset DEF InjectedOf, MeshedOf
  <2>2. k \notin S /\ T \ {k} = S /\ (k \in T <=> InMesh(pod) /\ pod.injected)
    BY DEF InjectedOf, MeshedOf
  <2> HIDE DEF S, T
  <2>3. Cardinality(T) = Cardinality(S) + One(k \in T)
    BY <2>1, <2>2, OneMore
  <2> HIDE DEF new
  <2> QED BY <1>1, <1>3, <2>2, <2>3 DEF S, T, One
<1>8. new.zones = ZonesOf(all)
  <2>1. ZonesOf(all) = ZonesOf(ks) \cup ({Zone(pod)} \ {Unknown})
    BY DEF ZonesOf, PlacedOf
  <2> HIDE DEF new, all
  <2> QED BY <1>1, <1>3, <2>1
<1>9. new.nodes = NodesOf(all)
  <2>1. NodesOf(all) = NodesOf(ks) \cup NodeOf(pod)
    BY DEF NodesOf
  <2> HIDE DEF new, all
  <2> QED BY <1>1, <1>3, <2>1
<1>10. Amounts(new, all)
  BY <1>4, <1>5, <1>6, <1>7, <1>8, <1>9, AmountsSays
<1>11. Spoken(new, all)
  <2>1. IsFiniteSet(new.zones) /\ IsFiniteSet(new.nodes)
    <3> DEFINE zs == {Zone(pod)} \ {Unknown}
               ns == NodeOf(pod)
    <3>1. IsFiniteSet(zs) /\ IsFiniteSet(ns)
      BY FS_EmptySet, FS_Singleton, FS_Difference DEF NodeOf
    <3>2. IsFiniteSet(t.zones) /\ IsFiniteSet(t.nodes)
      BY <1>2 DEF Spoken
    <3>3. new.zones = t.zones \cup zs /\ new.nodes = t.nodes \cup ns
      BY <1>1
    <3> HIDE DEF zs, ns
    <3>4. IsFiniteSet(t.zones \cup zs) /\ IsFiniteSet(t.nodes \cup ns)
      BY <3>1, <3>2, FS_Union
    <3> QED BY <3>3, <3>4
  <2>2. new.first \in all
    <3> HIDE DEF new
    <3> QED BY <1>1, <1>2 DEF Spoken
  <2> HIDE DEF new
  <2> QED BY <2>1, <2>2 DEF Spoken
<1> HIDE DEF new, all
<1>12. QED
  BY <1>10, <1>11 DEF Told, new, all

LEMMA ToldUnchanged ==
  ASSUME nodes' = nodes, pods' = pods
  PROVE  \A t, ks : Told(t, ks)' <=> Told(t, ks)
BY DEF Told, Spoken, Amounts, Zone, NodeOf, InMesh, Host, Addresses, ZoneName, ZoneOf

\* Of a set of pods, those the loop has taken.
UpTo(ks, n) == {k \in ks : k < n}

Control ==
  /\ PodList(pods) /\ MeshRead(read)
  /\ at \in 1..(Len(pods) + 1) /\ stage \in {"pods", "done"}
  /\ stage = "done" => NodesDone /\ at = Len(pods) + 1 /\ summary = Tallied

TalliesInv ==
  /\ DOMAIN svc = Services /\ DOMAIN grp = Groups
  /\ \A i \in Services : Told(svc[i], UpTo(OfService(i), at))
  /\ \A i \in Groups : Told(grp[i], UpTo(OfGroup(i), at))

IInv == NodesInv /\ DevicesInv /\ Control /\ TalliesInv

LEMMA RunsAreIndexes ==
  ASSUME PodList(pods)
  PROVE  /\ Len(pods) \in Nat /\ DOMAIN pods = 1..Len(pods)
         /\ \A k \in Runs : k \in DOMAIN pods /\ k \in 1..Len(pods) /\ k \in Int /\ 1 <= k
<1>1. Len(pods) \in Nat /\ DOMAIN pods = 1..Len(pods)
  BY DEF PodList, IsList
<1>2. \A k \in Runs : k \in DOMAIN pods
  BY DEF Runs
<1> QED
  BY <1>1, <1>2

LEMMA InitInv == Init => IInv
<1> SUFFICES ASSUME Init PROVE IInv
  OBVIOUS
<1>1. PICK slice \in Slices : /\ \E list \in slice.nodes : NodesInit(list)
                             /\ pods \in slice.pods /\ read \in slice.reads
  BY DEF Init
<1>2. NodesInv /\ DevicesInv
  BY <1>1, NodesInvInit, DevicesInit, SpreadAssumption
<1>3. Control
  <2>1. PodList(pods) /\ MeshRead(read)
    BY <1>1, SpreadAssumption
  <2>2. at = 1 /\ stage = "pods" /\ Len(pods) \in Nat
    BY <2>1, RunsAreIndexes DEF Init
  <2> QED
    BY <2>1, <2>2 DEF Control
<1>4. \A i : UpTo(OfService(i), 1) = {} /\ UpTo(OfGroup(i), 1) = {}
  <2>1. \A k \in Runs : ~(k < 1)
    BY <1>3, RunsAreIndexes DEF Control
  <2> QED
    BY <2>1 DEF UpTo, OfService, OfGroup
<1>5. TalliesInv
  BY <1>4, ToldNone DEF Init, TalliesInv
<1> QED
  BY <1>2, <1>3, <1>5 DEF IInv

\* With the next pod the set of those taken grows by it or by nothing.
LEMMA UpToGrows ==
  ASSUME PodList(pods), NEW n \in 1..Len(pods), NEW ks, ks \subseteq Runs
  PROVE  /\ UpTo(ks, n + 1) = IF n \in ks THEN UpTo(ks, n) \cup {n} ELSE UpTo(ks, n)
         /\ IsFiniteSet(UpTo(ks, n)) /\ 0 \notin UpTo(ks, n) /\ n \notin UpTo(ks, n) /\ n # 0
<1>1. \A k \in ks : k \in 1..Len(pods) /\ k \in Int
  BY RunsAreIndexes
<1>2. Len(pods) \in Nat
  BY RunsAreIndexes
<1>3. \A k \in ks : k < n + 1 <=> k < n \/ k = n
  BY <1>1, <1>2
<1>4. ~(n < n) /\ n # 0 /\ n < n + 1
  BY <1>2
<1>5. 0 \notin UpTo(ks, n)
  BY <1>1, <1>2 DEF UpTo
<1>6. IsFiniteSet(UpTo(ks, n))
  <2>1. IsFiniteSet(1..Len(pods))
    BY <1>2, FS_Interval
  <2>2. UpTo(ks, n) \subseteq 1..Len(pods)
    BY <1>1 DEF UpTo
  <2> QED BY <2>1, <2>2, FS_Subset
<1> QED
  BY <1>3, <1>4, <1>5, <1>6 DEF UpTo

LEMMA FoldPodStep ==
  ASSUME IInv, FoldPod
  PROVE  TalliesInv'
<1> DEFINE s == OwnerIndex(Tracked, pods[at])
           g == OwnerIndex(Untracked, pods[at])
           run == pods[at].phase = "Running"
<1>1. /\ PodList(pods) /\ at \in 1..Len(pods) /\ at \in DOMAIN pods
      /\ nodes' = nodes /\ pods' = pods /\ at' = at + 1
  <2>1. /\ PodList(pods) /\ at \in 1..(Len(pods) + 1) /\ at <= Len(pods)
        /\ nodes' = nodes /\ pods' = pods /\ at' = at + 1
    BY DEF IInv, Control, FoldPod, nodeVars
  <2> QED
    BY <2>1, RunsAreIndexes
<1>2. \A i : /\ OfService(i)' = OfService(i) /\ OfGroup(i)' = OfGroup(i)
             /\ OfService(i) \subseteq Runs /\ OfGroup(i) \subseteq Runs
  BY <1>1 DEF OfService, OfGroup, Runs
<1>3. \A i : /\ at \in OfService(i) <=> run /\ s = i
             /\ at \in OfGroup(i) <=> run /\ s = Nobodys /\ g = i
  BY <1>1 DEF OfService, OfGroup, Runs
<1>4. \A t, ks : Told(t, ks)' <=> Told(t, ks)
  BY <1>1, ToldUnchanged
<1> HIDE DEF s, g, run
<1>5. DOMAIN svc' = Services /\ DOMAIN grp' = Groups
  BY DEF FoldPod, IInv, TalliesInv
<1>6. ASSUME NEW i \in Services
      PROVE  svc'[i] = IF at \in OfService(i) THEN Add(svc[i], at) ELSE svc[i]
  <2>1. i # Nobodys
    BY SpreadAssumption DEF OwnerList, Services, Groups, Indexes
  <2> QED
    BY <1>3, <2>1 DEF FoldPod, IInv, TalliesInv, s, g, run
<1>7. ASSUME NEW i \in Groups
      PROVE  grp'[i] = IF at \in OfGroup(i) THEN Add(grp[i], at) ELSE grp[i]
  <2>1. i # Nobodys
    BY SpreadAssumption DEF OwnerList, Services, Groups, Indexes
  <2> QED
    BY <1>3, <2>1 DEF FoldPod, IInv, TalliesInv, s, g, run
<1>8. ASSUME NEW t, NEW ks, ks \subseteq Runs, Told(t, UpTo(ks, at))
      PROVE  Told(IF at \in ks THEN Add(t, at) ELSE t, UpTo(ks, at + 1))
  <2>1. /\ UpTo(ks, at + 1) = IF at \in ks THEN UpTo(ks, at) \cup {at} ELSE UpTo(ks, at)
        /\ IsFiniteSet(UpTo(ks, at)) /\ 0 \notin UpTo(ks, at) /\ at \notin UpTo(ks, at) /\ at # 0
    BY <1>1, <1>8, UpToGrows
  <2> QED
    BY <1>8, <2>1, ToldAdd
<1>9. ASSUME NEW i \in Services PROVE Told(svc[i], UpTo(OfService(i), at))'
  <2>1. Told(svc'[i], UpTo(OfService(i), at + 1))
    BY <1>2, <1>6, <1>8 DEF IInv, TalliesInv
  <2> QED
    BY <1>1, <1>2, <1>4, <2>1 DEF UpTo
<1>10. ASSUME NEW i \in Groups PROVE Told(grp[i], UpTo(OfGroup(i), at))'
  <2>1. Told(grp'[i], UpTo(OfGroup(i), at + 1))
    BY <1>2, <1>7, <1>8 DEF IInv, TalliesInv
  <2> QED
    BY <1>1, <1>2, <1>4, <2>1 DEF UpTo
<1> QED
  BY <1>5, <1>9, <1>10 DEF TalliesInv
LEMMA TalliesUnchanged ==
  ASSUME TalliesInv, nodes' = nodes, pods' = pods, at' = at, svc' = svc, grp' = grp
  PROVE  TalliesInv'
<1>1. \A i : OfService(i)' = OfService(i) /\ OfGroup(i)' = OfGroup(i)
  BY DEF OfService, OfGroup, Runs
<1>2. \A ks : UpTo(ks, at)' = UpTo(ks, at)
  BY DEF UpTo
<1>3. \A t, ks : Told(t, ks)' <=> Told(t, ks)
  BY ToldUnchanged
<1>4. ASSUME NEW i \in Services PROVE Told(svc[i], UpTo(OfService(i), at))'
  BY <1>1, <1>3 DEF TalliesInv, UpTo
<1>5. ASSUME NEW i \in Groups PROVE Told(grp[i], UpTo(OfGroup(i), at))'
  BY <1>1, <1>3 DEF TalliesInv, UpTo
<1> QED
  BY <1>4, <1>5 DEF TalliesInv

LEMMA TalliedUnchanged ==
  ASSUME UNCHANGED <<pods, read, svc, grp>>
  PROVE  Tallied' = Tallied
BY DEF Tallied, Of, Zoned, OneZone, ManyZones, OneNode, ManyNodes, Meshed, Full, Judged, Permissive,
       Disabled, Policy, Asked, ResolveServicePolicy, Section, Sets, WorkloadScoped, NamespaceScoped,
       Narrow

LEMMA NextInv == IInv /\ [Next]_vars => IInv'
<1> SUFFICES ASSUME IInv, [Next]_vars PROVE IInv'
  OBVIOUS
<1> USE DEF IInv
<1>1. ASSUME CountNode, UNCHANGED <<pods, read, at, stage, svc, grp, summary>> PROVE IInv'
  <2>1. NodesInv' /\ DevicesInv' /\ nodes' = nodes
    BY <1>1, NodesInvStep, DevicesStep DEF CountNode
  <2>2. stage # "done"
    BY <1>1 DEF Control, CountNode, NodesDone, NodesInv
  <2>3. Control'
    BY <1>1, <2>2 DEF Control, PodList, MeshRead, IsList
  <2>4. TalliesInv'
    BY <1>1, <2>1, TalliesUnchanged
  <2> QED
    BY <2>1, <2>3, <2>4
<1>2. ASSUME FoldPod PROVE IInv'
  <2>1. NodesInv' /\ DevicesInv'
    BY <1>2, NodesInvUnchanged, DevicesUnchanged DEF FoldPod
  <2>2. Control'
    <3>1. at + 1 \in 1..(Len(pods) + 1)
      BY <1>2, RunsAreIndexes DEF Control, FoldPod
    <3> QED
      BY <1>2, <3>1 DEF Control, FoldPod, PodList, MeshRead, IsList
  <2> QED
    BY <1>2, <2>1, <2>2, FoldPodStep
<1>3. ASSUME Tally PROVE IInv'
  <2>1. NodesInv' /\ DevicesInv'
    BY <1>3, NodesInvUnchanged, DevicesUnchanged DEF Tally
  <2>2. nodes' = nodes /\ pods' = pods /\ read' = read /\ at' = at /\ svc' = svc /\ grp' = grp
        /\ counted' = counted /\ stage' = "done" /\ summary' = Tallied /\ NodesDone /\ at > Len(pods)
    BY <1>3 DEF Tally, nodeVars
  <2>3. Control'
    <3>1. Tallied' = Tallied
      BY <2>2, TalliedUnchanged
    <3>2. at = Len(pods) + 1
      BY <2>2, RunsAreIndexes DEF Control
    <3>3. NodesDone'
      BY <2>2 DEF NodesDone
    <3>4. PodList(pods)' /\ MeshRead(read)'
      BY <2>2 DEF Control, PodList, MeshRead, IsList
    <3> QED
      BY <2>2, <3>1, <3>2, <3>3, <3>4 DEF Control
  <2> QED
    BY <2>1, <2>2, <2>3, TalliesUnchanged
<1>4. ASSUME UNCHANGED vars PROVE IInv'
  <2>1. NodesInv' /\ DevicesInv'
    BY <1>4, NodesInvUnchanged, DevicesUnchanged DEF vars
  <2>2. nodes' = nodes /\ pods' = pods /\ read' = read /\ at' = at /\ svc' = svc /\ grp' = grp
        /\ counted' = counted /\ stage' = stage /\ summary' = summary
    BY <1>4 DEF vars, nodeVars
  <2>3. Control'
    <3>1. Tallied' = Tallied
      BY <2>2, TalliedUnchanged
    <3>3. NodesDone' = NodesDone
      BY <2>2 DEF NodesDone
    <3>4. PodList(pods)' /\ MeshRead(read)'
      BY <2>2 DEF Control, PodList, MeshRead, IsList
    <3> QED
      BY <2>2, <3>1, <3>3, <3>4 DEF Control
  <2> QED
    BY <2>1, <2>2, <2>3, TalliesUnchanged
<1> QED
  BY <1>1, <1>2, <1>3, <1>4 DEF Next

\* At every moment of both loops each number is the size of the set of nodes
\* or pods, among those that were taken, which it says it counts, and a
\* tally's spokesman is one of its own pods.
THEOREM Invariance == Spec => []IInv
BY InitInv, NextInv, PTL DEF Spec

-----------------------------------------------------------------------------
(* The properties of the node statistics.                                   *)

\* The devices under the resources are those of the nodes, each once, and
\* neither a resource nor a row claims a device of a node whose devices nobody
\* can hand out (BuildNodeStats).
THEOREM DevicesHold == Spec => []DevicesAddUp
<1>1. IInv => DevicesAddUp
  BY DEF IInv, DevicesInv, DevicesAddUp, Advertised, Schedulable
<1> QED
  BY <1>1, Invariance, PTL

\* Where some ready node reports a version, the version and the provider of
\* the cluster come from the first such node, whatever stands before it.
THEOREM VersionHolds == Spec => []VersionIsReady
<1>1. IInv => VersionIsReady
  <2> SUFFICES ASSUME NodesInv, NodesDone,
                      \E k \in DOMAIN nodes : Ready(nodes[k]) /\ nodes[k].version # ""
               PROVE  /\ source # 0 /\ Ready(nodes[source]) /\ nodes[source].version # ""
                      /\ \A k \in 1..(source - 1) : ~Ready(nodes[k]) \/ nodes[k].version = ""
    BY DEF IInv, VersionIsReady
  <2>1. counted \in Nat /\ DOMAIN nodes = 1..counted
    BY DEF NodesInv, NodesDone, NodeList, IsList
  <2>2. source \in Best(counted) /\ \A k \in Best(counted) : source <= k
    BY <2>1 DEF NodesInv, VersionInv, Best
  <2>3. source # 0 /\ \A k \in 1..(source - 1) : k \in 1..counted /\ ~(source <= k)
    <3>1. source \in 1..counted
      BY <2>2 DEF Best
    <3> QED
      BY <2>1, <3>1, Before
  <2>5. ASSUME NEW k \in 1..(source - 1) PROVE ~Ready(nodes[k]) \/ nodes[k].version = ""
    BY <2>2, <2>3 DEF Best
  <2>7. Ready(nodes[source]) /\ nodes[source].version # ""
    BY <2>2 DEF Best
  <2> QED
    BY <2>3, <2>5, <2>7
<1> QED
  BY <1>1, Invariance, PTL
\* When the nodes are counted, every heading is the heading of some node and
\* counts those and no others, each node has a row of its own and is of one
\* kind, and every share of the nodes is a percentage.
THEOREM NodesAddUpHolds == Spec => []NodesAddUp
<1>1. IInv => NodesAddUp
  <2> SUFFICES ASSUME NodesInv, NodesDone
               PROVE  NodesAddUp
    BY DEF IInv, NodesAddUp
  <2>1. counted = Len(nodes) /\ counted \in Nat /\ DOMAIN nodes = 1..counted
    BY DEF NodesInv, NodesDone, NodeList, IsList
  <2>2. KindsInv /\ RowsInv /\ ArchInv /\ ZonesInv
    BY DEF NodesInv
  <2>3. /\ Archs(counted) = {ArchName(nodes[k]) : k \in DOMAIN nodes}
        /\ Zones(counted) = {ZoneName(nodes[k]) : k \in DOMAIN nodes}
    BY <2>1 DEF Archs, Zones
  <2>4. /\ \A h : Cardinality(InArch(h, counted)) = Are(LAMBDA n : ArchName(n) = h)
        /\ \A h : Cardinality(InZone(h, counted)) = Are(LAMBDA n : ZoneName(n) = h)
        /\ \A h : Cardinality(ReadyIn(h, counted)) = Are(LAMBDA n : ZoneName(n) = h /\ Ready(n))
    <3>1. /\ \A h : InArch(h, counted) = {k \in DOMAIN nodes : ArchName(nodes[k]) = h}
          /\ \A h : InZone(h, counted) = {k \in DOMAIN nodes : ZoneName(nodes[k]) = h}
          /\ \A h : ReadyIn(h, counted) =
                      {k \in DOMAIN nodes : ZoneName(nodes[k]) = h /\ Ready(nodes[k])}
      BY <2>1 DEF InArch, InZone, ReadyIn
    <3> QED
      BY <3>1 DEF Are
  <2>5. stats.Total - stats.NotReady = Are(Ready) /\ stats.Total - stats.NotReady \in 0..counted
    <3> DEFINE A == {k \in DOMAIN nodes : Ready(nodes[k])}
               B == NotReadyOnes(counted)
               D == 1..counted
    <3>0. A = {k \in D : Ready(nodes[k])} /\ B = {k \in D : ~Ready(nodes[k])}
      BY <2>1 DEF NotReadyOnes
    <3>1. A \cup B = D /\ A \cap B = {} /\ A \subseteq D /\ B \subseteq D
      <4> HIDE DEF A, B, D
      <4> QED BY <3>0
    <3>2. IsFiniteSet(D) /\ Cardinality(D) = counted
      <4>1. counted \in Nat
        BY <2>1
      <4> QED BY <4>1, FS_Interval
    <3>3. Are(Ready) = Cardinality(A) /\ stats.NotReady = Cardinality(B) /\ stats.Total = counted
      BY <2>2 DEF Are, KindsInv
    <3> HIDE DEF A, B, D
    <3>4. IsFiniteSet(A) /\ IsFiniteSet(B)
      BY <3>1, <3>2, FS_Subset
    <3>5. /\ Cardinality(A) \in Nat /\ Cardinality(B) \in Nat
          /\ counted = Cardinality(A) + Cardinality(B)
      BY <3>1, <3>2, <3>4, Parted
    <3> QED
      BY <2>1, <3>3, <3>5
  <2>6. {ReadyPercent, GPUPercent} \subseteq 0..100
    <3>1. /\ stats.Total = counted /\ stats.GPUNodes \in Nat /\ stats.GPUNodes <= counted
          /\ stats.Total - stats.NotReady \in Nat /\ stats.Total - stats.NotReady <= counted
      BY <2>1, <2>2, <2>5 DEF KindsInv
    <3>2. RoundPercent(stats.Total - stats.NotReady, counted) \in 0..100
      BY <2>1, <3>1, Rounded
    <3>3. RoundPercent(stats.GPUNodes, counted) \in 0..100
      BY <2>1, <3>1, Rounded
    <3> QED
      BY <3>1, <3>2, <3>3 DEF ReadyPercent, GPUPercent
  <2>7. ASSUME NEW a \in DOMAIN stats.arch PROVE ArchPercent(a) \in 0..100
    <3>1. stats.arch[a][1] = Cardinality(InArch(a, counted)) /\ stats.Total = counted
      BY <2>2 DEF ArchInv, KindsInv
    <3>2. Cardinality(InArch(a, counted)) \in 0..counted
      BY <2>1, HeadingsGrow
    <3>3. Cardinality(InArch(a, counted)) \in Nat /\ Cardinality(InArch(a, counted)) <= counted
      BY <2>1, <3>2
    <3>4. RoundPercent(Cardinality(InArch(a, counted)), counted) \in 0..100
      BY <2>1, <3>3, Rounded
    <3> QED
      BY <3>1, <3>4 DEF ArchPercent
  <2>8. {ReadyPercent, GPUPercent} \cup {ArchPercent(a) : a \in DOMAIN stats.arch} \subseteq 0..100
    BY <2>6, <2>7
  <2>9. ASSUME NEW a \in DOMAIN stats.arch
        PROVE  stats.arch[a][1] = Are(LAMBDA n : ArchName(n) = a)
    <3>1. stats.arch[a][1] = Cardinality(InArch(a, counted))
      BY <2>2 DEF ArchInv
    <3> QED BY <2>4, <3>1 DEF Are
  <2>10. ASSUME NEW z \in DOMAIN stats.zones
         PROVE  /\ stats.zones[z][1] = Are(LAMBDA n : ZoneName(n) = z)
                /\ stats.zones[z][2] = Are(LAMBDA n : ZoneName(n) = z /\ Ready(n))
    <3>1. /\ stats.zones[z][1] = Cardinality(InZone(z, counted))
          /\ stats.zones[z][2] = Cardinality(ReadyIn(z, counted))
      BY <2>2 DEF ZonesInv
    <3> QED BY <2>4, <3>1 DEF Are
  <2>11. /\ stats.Total = Len(nodes) /\ Cardinality(stats.rows) = Len(nodes)
         /\ stats.CPUNodes + stats.GPUNodes = stats.Total
         /\ stats.Unschedulable <= stats.GPUNodes
    BY <2>1, <2>2 DEF KindsInv, RowsInv
  <2>12. /\ DOMAIN stats.arch = {ArchName(nodes[k]) : k \in DOMAIN nodes}
         /\ DOMAIN stats.zones = {ZoneName(nodes[k]) : k \in DOMAIN nodes}
    BY <2>2, <2>3 DEF ArchInv, ZonesInv
  <2> QED
    BY <2>5, <2>8, <2>9, <2>10, <2>11, <2>12 DEF NodesAddUp
<1> QED
  BY <1>1, Invariance, PTL

-----------------------------------------------------------------------------
(* The properties of the tallies.                                           *)

LEMMA AtTheEnd ==
  ASSUME IInv, stage = "done"
  PROVE  /\ NodeList(nodes) /\ PodList(pods) /\ MeshRead(read)
         /\ DOMAIN stats.zones = {ZoneName(nodes[k]) : k \in DOMAIN nodes}
         /\ summary = Tallied
         /\ DOMAIN svc = Services /\ DOMAIN grp = Groups
         /\ \A i \in Services : Told(svc[i], OfService(i)) /\ IsFiniteSet(OfService(i))
         /\ \A i \in Groups : Told(grp[i], OfGroup(i)) /\ IsFiniteSet(OfGroup(i))
<1>1. NodeList(nodes) /\ PodList(pods) /\ MeshRead(read) /\ summary = Tallied /\ NodesDone
      /\ at = Len(pods) + 1
  BY DEF IInv, Control, NodesInv
<1>2. DOMAIN stats.zones = {ZoneName(nodes[k]) : k \in DOMAIN nodes}
  BY <1>1 DEF IInv, NodesInv, ZonesInv, Zones, NodesDone, NodeList, IsList
<1>3. \A k \in Runs : k < at /\ k \in 1..Len(pods)
  BY <1>1, RunsAreIndexes
<1>4. \A i : /\ OfService(i) \subseteq Runs /\ UpTo(OfService(i), at) = OfService(i)
             /\ OfGroup(i) \subseteq Runs /\ UpTo(OfGroup(i), at) = OfGroup(i)
  BY <1>3 DEF UpTo, OfService, OfGroup
<1>5. IsFiniteSet(Runs)
  <2>1. IsFiniteSet(1..Len(pods))
    BY <1>1, RunsAreIndexes, FS_Interval
  <2>2. Runs \subseteq 1..Len(pods)
    BY <1>3
  <2> QED BY <2>1, <2>2, FS_Subset
<1>6. \A i : IsFiniteSet(OfService(i)) /\ IsFiniteSet(OfGroup(i))
  BY <1>4, <1>5, FS_Subset
<1> QED
  BY <1>1, <1>2, <1>4, <1>6 DEF IInv, TalliesInv

\* The index of a pod is one of those its names point to, if they do.
LEMMA IndexByName ==
  ASSUME NEW owners, OwnerList(owners), NEW pod, pod.name \in Segments
  PROVE  /\ ByName(owners, pod) # {} => OwnerIndex(owners, pod) \in ByName(owners, pod)
         /\ ByName(owners, pod) = {} => OwnerIndex(owners, pod) = Nobodys
         /\ ByName(owners, pod) \subseteq Indexes(owners) /\ Nobodys \notin ByName(owners, pod)
<1> DEFINE refs == Referenced(owners, pod)
           near == Continued(owners, pod)
           n    == Len(owners)
           L(k) == Len(owners[k].name)
           Longest(k) == \A j \in near : L(j) <= L(k)
           Sooner(k, j) == L(j) < L(k) \/ (L(j) = L(k) /\ k <= j)
           most == {j \in near : Longest(j)}
<1>1. n \in Nat /\ DOMAIN owners = 1..n /\ \A k \in 1..n : L(k) \in Nat /\ owners[k].idx # Nobodys
  BY DEF OwnerList, IsList, Segments
<1>2. refs \subseteq 1..n /\ near \subseteq 1..n
  BY <1>1 DEF Referenced, Continued
<1>3. ByName(owners, pod) = {owners[k].idx : k \in IF refs # {} THEN refs ELSE most}
  BY DEF ByName
<1>4. ExactOwner(owners, pod) = IF refs = {} THEN Nobodys
                                ELSE owners[CHOOSE k \in refs : \A j \in refs : k <= j].idx
  BY DEF ExactOwner
<1>5. PrefixOwner(owners, pod) = IF near = {} THEN Nobodys
                                 ELSE owners[CHOOSE k \in near : \A j \in near : Sooner(k, j)].idx
  BY DEF PrefixOwner
<1>6. \A k \in near : L(k) <= Len(pod.name) /\ Len(pod.name) \in Nat
  BY DEF Continued, IsStrictPrefix, IsPrefix, Segments
<1> HIDE DEF refs, near, n, L
<1>7. ASSUME refs # {}
      PROVE  \E k \in refs : ExactOwner(owners, pod) = owners[k].idx
  <2>1. \E k \in refs : \A j \in refs : k <= j
    BY <1>1, <1>2, <1>7, FirstExists
  <2> QED
    BY <1>4, <1>7, <2>1
<1>8. ASSUME near # {}
      PROVE  \E k \in most : PrefixOwner(owners, pod) = owners[k].idx
  <2> DEFINE lengths == {L(k) + 1 : k \in near}
             top == Len(pod.name) + 1
  <2>1. top \in Nat /\ lengths \subseteq 1..top /\ lengths # {}
    BY <1>1, <1>2, <1>6, <1>8
  <2>2. PICK t \in lengths : \A j \in lengths : j <= t
    <3> HIDE DEF lengths, top
    <3> QED BY <2>1, LastExists
  <2>3. PICK l \in near : t = L(l) + 1
    OBVIOUS
  <2>4. l \in most
    <3> SUFFICES ASSUME NEW j \in near PROVE L(j) <= L(l)
      OBVIOUS
    <3>1. L(j) + 1 \in lengths
      OBVIOUS
    <3>2. L(j) + 1 <= L(l) + 1
      BY <2>2, <2>3, <3>1
    <3> HIDE DEF lengths
    <3> QED BY <1>1, <1>2, <3>2
  <2>5. PICK k \in most : \A j \in most : k <= j
    <3>1. most \subseteq 1..n /\ most # {}
      BY <1>2, <2>4
    <3> HIDE DEF most
    <3> QED BY <1>1, <3>1, FirstExists
  <2>6. \A j \in near : Sooner(k, j)
    <3> SUFFICES ASSUME NEW j \in near PROVE Sooner(k, j)
      OBVIOUS
    <3>1. L(j) \in Nat /\ L(k) \in Nat /\ L(j) <= L(k)
      BY <1>1, <1>2
    <3>2. CASE L(j) = L(k)
      <4>1. j \in most
        BY <3>2
      <4> QED
        BY <2>5, <3>2, <4>1
    <3>3. CASE L(j) < L(k)
      BY <3>3
    <3> QED
      BY <3>1, <3>2, <3>3
  <2> DEFINE c == CHOOSE i \in near : \A j \in near : Sooner(i, j)
  <2>7. c \in near /\ \A j \in near : Sooner(c, j)
    BY <2>6
  <2>8. c \in most
    <3> SUFFICES ASSUME NEW j \in near PROVE L(j) <= L(c)
      BY <2>7
    <3>1. L(j) \in Nat /\ L(c) \in Nat /\ Sooner(c, j)
      BY <1>1, <1>2, <2>7
    <3> HIDE DEF c
    <3> QED
      BY <3>1
  <2> QED
    BY <1>5, <1>8, <2>8
<1>9. near = {} => most = {}
  OBVIOUS
<1>10. \A k \in refs \cup most : owners[k].idx # Nobodys /\ owners[k].idx \in Indexes(owners)
  BY <1>1, <1>2 DEF Indexes
<1> HIDE DEF most
<1>11. CASE refs # {}
  <2>1. PICK k \in refs : ExactOwner(owners, pod) = owners[k].idx
    BY <1>7, <1>11
  <2> QED
    BY <1>3, <1>10, <1>11, <2>1 DEF OwnerIndex
<1>12. CASE refs = {} /\ near # {}
  <2>1. PICK k \in most : PrefixOwner(owners, pod) = owners[k].idx
    BY <1>8, <1>12
  <2>2. ByName(owners, pod) = {owners[j].idx : j \in most}
    BY <1>3, <1>12
  <2> QED
    BY <1>4, <1>10, <1>12, <2>1, <2>2 DEF OwnerIndex
<1>13. CASE refs = {} /\ near = {}
  <2>1. ByName(owners, pod) = {}
    BY <1>3, <1>9, <1>13
  <2> QED
    BY <1>4, <1>5, <1>13, <2>1 DEF OwnerIndex
<1> QED
  BY <1>11, <1>12, <1>13

\* So each running pod is joined to one row its names point to.
LEMMA Joined == PodList(pods) => JoinedByName
<1> SUFFICES ASSUME PodList(pods), NEW k \in Runs
             PROVE  LET own   == ByName(Tracked, pods[k])
                        other == ByName(Untracked, pods[k])
                        s     == {i \in Services : k \in OfService(i)}
                        g     == {i \in Groups : k \in OfGroup(i)}
                    IN  /\ own # {} => g = {} /\ \E i \in own : s = {i}
                        /\ own = {} => s = {} /\ IF other = {} THEN g = {} ELSE \E i \in other : g = {i}
  BY Zenon DEF JoinedByName
<1> DEFINE own   == ByName(Tracked, pods[k])
           other == ByName(Untracked, pods[k])
           s     == OwnerIndex(Tracked, pods[k])
           g     == OwnerIndex(Untracked, pods[k])
<1>1. pods[k].name \in Segments
  BY RunsAreIndexes DEF PodList
<1>2. /\ own # {} => s \in own
      /\ own = {} => s = Nobodys
      /\ own \subseteq Services /\ Nobodys \notin own
  BY <1>1, SpreadAssumption, IndexByName DEF Services
<1>3. /\ other # {} => g \in other
      /\ other = {} => g = Nobodys
      /\ other \subseteq Groups /\ Nobodys \notin other
  BY <1>1, SpreadAssumption, IndexByName DEF Groups
<1>4. Nobodys \notin Services \cup Groups
  BY SpreadAssumption DEF OwnerList, Services, Groups, Indexes
<1>5. \A i : /\ k \in OfService(i) <=> s = i
             /\ k \in OfGroup(i) <=> s = Nobodys /\ g = i
  BY DEF OfService, OfGroup
<1> HIDE DEF own, other, s, g
<1> QED
  BY <1>2, <1>3, <1>4, <1>5 DEF own, other

\* At the end each service and each group is tallied from the running pods its
\* names make its own, all of them and nothing else, and names no zone that no
\* node has; a pod a service's names make its own is in no group.
THEOREM TalliesHold == Spec => []TalliesAgree
<1>1. IInv => TalliesAgree
  <2> SUFFICES ASSUME IInv, stage = "done" PROVE TalliesAgree
    BY DEF TalliesAgree
  <2>1. /\ NodeList(nodes)
        /\ DOMAIN stats.zones = {ZoneName(nodes[k]) : k \in DOMAIN nodes}
        /\ \A i \in Services : Told(svc[i], OfService(i))
        /\ \A i \in Groups : Told(grp[i], OfGroup(i))
    BY AtTheEnd
  <2>2. \A ks : ZonesOf(ks) \subseteq DOMAIN stats.zones
    <3> SUFFICES ASSUME NEW ks, NEW k \in ks, Zone(pods[k]) # Unknown
                 PROVE  Zone(pods[k]) \in DOMAIN stats.zones
      BY DEF ZonesOf, PlacedOf
    <3> QED
      BY <2>1, ZoneIsNodes
  <2>3. /\ \A i \in Services : Amounts(svc[i], OfService(i)) /\ svc[i].zones \subseteq DOMAIN stats.zones
        /\ \A i \in Groups : Amounts(grp[i], OfGroup(i)) /\ grp[i].zones \subseteq DOMAIN stats.zones
    <3>1. \A t, ks : Told(t, ks) => Amounts(t, ks) /\ t.zones = ZonesOf(ks)
      BY AmountsSays DEF Told
    <3> QED
      BY <2>1, <2>2, <3>1
  <2>4. (UNION {svc[i].zones : i \in Services}) \cup (UNION {grp[i].zones : i \in Groups})
          \subseteq DOMAIN stats.zones
    <3>1. UNION {svc[i].zones : i \in Services} \subseteq DOMAIN stats.zones
      BY <2>3, Zenon
    <3>2. UNION {grp[i].zones : i \in Groups} \subseteq DOMAIN stats.zones
      BY <2>3, Zenon
    <3> QED BY <3>1, <3>2
  <2>5. JoinedByName
    BY AtTheEnd, Joined
  <2> QED
    BY <2>3, <2>4, <2>5 DEF TalliesAgree
<1> QED
  BY <1>1, Invariance, PTL

-----------------------------------------------------------------------------
(* The policies.                                                            *)

Judgements == {"strict", "permissive", "disabled"}

LEMMA MeshModeSays ==
  ASSUME NEW mode
  PROVE  MeshMode(mode) \in Judgements
<1>1. CASE mode = "STRICT"
  BY <1>1 DEF MeshMode, Judgements
<1>2. CASE mode = "DISABLE"
  BY <1>2 DEF MeshMode, Judgements
<1>3. CASE mode # "STRICT" /\ mode # "DISABLE"
  BY <1>3 DEF MeshMode, Judgements
<1> QED
  BY <1>1, <1>2, <1>3

\* A mesh that could be asked has an answer for the pods with no mode of their own.
LEMMA SectionSays ==
  ASSUME NEW r, MeshRead(r), Asked(r)
  PROVE  Section(r).effective \in Judgements
<1>1. r.installed /\ r.err \in {"none", "notFound"}
  BY DEF Asked, Section, MeshRead, Errors
<1>2. CASE r.err = "none"
  <2>1. Section(r).effective = MeshMode(r.default.mode)
    BY <1>1, <1>2 DEF Section
  <2> QED
    BY <2>1, MeshModeSays
<1>3. CASE r.err = "notFound"
  <2>1. Section(r).effective = "permissive"
    BY <1>1, <1>3 DEF Section
  <2> QED
    BY <2>1 DEF Judgements
<1> QED
  BY <1>1, <1>2, <1>3

LEMMA Resolves ==
  ASSUME NEW r, NEW pod
  PROVE  LET w == WorkloadScoped(r, pod)
             n == NamespaceScoped(r, pod)
             policy == ResolveServicePolicy(r, pod)
         IN  /\ Narrow(pod) /\ Sets(r, w) =>
                  policy.effective = MeshMode(r.list[FirstOf(w)].mode) /\ policy.scope = "workload"
             /\ Narrow(pod) /\ ~Sets(r, w) /\ Sets(r, n) =>
                  policy.effective = MeshMode(r.list[FirstOf(n)].mode) /\ policy.scope = "namespace"
             /\ ~Narrow(pod) \/ (~Sets(r, w) /\ ~Sets(r, n)) =>
                  policy.effective = Section(r).effective /\ policy.scope = "mesh"
<1> DEFINE w == WorkloadScoped(r, pod)
           n == NamespaceScoped(r, pod)
           policy == ResolveServicePolicy(r, pod)
<1>1. ASSUME Narrow(pod), Sets(r, w)
      PROVE  policy.effective = MeshMode(r.list[FirstOf(w)].mode) /\ policy.scope = "workload"
  BY <1>1 DEF ResolveServicePolicy
<1>2. ASSUME Narrow(pod), ~Sets(r, w), Sets(r, n)
      PROVE  policy.effective = MeshMode(r.list[FirstOf(n)].mode) /\ policy.scope = "namespace"
  BY <1>2 DEF ResolveServicePolicy
<1>3. ASSUME ~Narrow(pod) \/ (~Sets(r, w) /\ ~Sets(r, n))
      PROVE  policy.effective = Section(r).effective /\ policy.scope = "mesh"
  BY <1>3 DEF ResolveServicePolicy
<1> QED
  BY <1>1, <1>2, <1>3

\* Every pod of a mesh that could be asked has a policy.
LEMMA PolicySays ==
  ASSUME NEW r, MeshRead(r), Asked(r), NEW pod
  PROVE  /\ ResolveServicePolicy(r, pod).effective \in Judgements
         /\ ResolveServicePolicy(r, pod).scope # ""
<1>1. \A mode : MeshMode(mode) \in Judgements
  BY MeshModeSays
<1>2. Section(r).effective \in Judgements
  BY SectionSays
<1> DEFINE w == WorkloadScoped(r, pod)
           n == NamespaceScoped(r, pod)
           policy == ResolveServicePolicy(r, pod)
<1>3. /\ policy.effective \in {MeshMode(r.list[FirstOf(w)].mode), MeshMode(r.list[FirstOf(n)].mode),
                               Section(r).effective}
      /\ policy.scope \in {"workload", "namespace", "mesh"}
  <2>1. CASE Narrow(pod) /\ Sets(r, w)
    BY <2>1, Resolves
  <2>2. CASE Narrow(pod) /\ ~Sets(r, w) /\ Sets(r, n)
    BY <2>2, Resolves
  <2>3. CASE ~Narrow(pod) \/ (~Sets(r, w) /\ ~Sets(r, n))
    BY <2>3, Resolves
  <2> QED
    BY <2>1, <2>2, <2>3
<1> HIDE DEF policy
<1>4. policy.effective \in Judgements /\ policy.scope # ""
  BY <1>1, <1>2, <1>3
<1> QED
  BY <1>4 DEF policy

\* A row is judged, and then in one of three ways, or has no policy at all.
LEMMA RowPolicy ==
  ASSUME MeshRead(read), NEW t
  PROVE  /\ Judged(t) <=> Policy(t).effective \in Judgements
         /\ ~Judged(t) => Policy(t) = NoPolicy
         /\ ~Asked(read) => Policy(t) = NoPolicy
<1>1. ASSUME t.first # 0, Asked(read)
      PROVE  Policy(t).effective \in Judgements /\ Policy(t).scope # ""
  BY <1>1, PolicySays DEF Policy
<1>2. ASSUME ~(t.first # 0 /\ Asked(read))
      PROVE  Policy(t) = NoPolicy
  BY <1>2 DEF Policy
<1>3. NoPolicy.scope = "" /\ NoPolicy.effective \notin Judgements
  BY DEF NoPolicy, Judgements
<1> QED
  BY <1>1, <1>2, <1>3 DEF Judged, Judgements

\* A tally of a row's own pods is judged by one of them, and by none only if
\* there is none.
LEMMA OwnSays ==
  ASSUME NEW t, NEW ks, 0 \notin ks, Told(t, ks), Asked(read)
  PROVE  LET theirs == {ResolveServicePolicy(read, pods[k]) : k \in ks}
         IN  IF theirs = {} THEN Policy(t) = NoPolicy ELSE Policy(t) \in theirs
<1>1. IF ks = {} THEN t.first = 0 ELSE t.first \in ks
  BY DEF Told, Spoken
<1>2. CASE ks = {}
  BY <1>1, <1>2 DEF Policy
<1>3. CASE ks # {}
  <2>1. t.first \in ks /\ Policy(t) = ResolveServicePolicy(read, pods[t.first])
    BY <1>1, <1>3 DEF Policy
  <2> QED
    BY <1>3, <2>1
<1> QED
  BY <1>2, <1>3

\* Of one element at most, the first is the only one.
LEMMA AtMostOne ==
  ASSUME NEW S, IsFiniteSet(S), Cardinality(S) <= 1
  PROVE  S = {} \/ \E x \in S : S = {x}
<1>1. CASE S = {}
  BY <1>1
<1>2. CASE S # {}
  <2>1. PICK x \in S : TRUE
    BY <1>2
  <2>2. IsFiniteSet(S \ {x}) /\ Cardinality(S \ {x}) = Cardinality(S) - 1
    BY <2>1, FS_RemoveElement
  <2>3. Cardinality(S) \in Nat /\ Cardinality(S \ {x}) \in Nat
    BY <2>2, FS_CardinalityType
  <2>4. Cardinality(S \ {x}) = 0
    BY <2>2, <2>3
  <2>5. S \ {x} = {}
    BY <2>2, <2>4, FS_EmptySet
  <2> QED
    BY <2>1, <2>5
<1> QED
  BY <1>1, <1>2

\* Where one object applies at most, it sets a mode exactly if it has one.
LEMMA OneSets ==
  ASSUME NEW r, NEW S, S \subseteq Int, IsFiniteSet(S), Cardinality(S) <= 1
  PROVE  /\ Sets(r, S) <=> Modal(r, S) # {}
         /\ Sets(r, S) => r.list[FirstOf(S)].mode = CHOOSE m \in Modal(r, S) : TRUE
<1>1. CASE S = {}
  <2>1. ~Sets(r, S)
    BY <1>1 DEF Sets
  <2>2. Modal(r, S) = {}
    BY <1>1 DEF Modal
  <2> QED
    BY <2>1, <2>2
<1>2. ASSUME NEW x \in S, S = {x}
      PROVE  /\ Sets(r, S) <=> Modal(r, S) # {}
             /\ Sets(r, S) => r.list[FirstOf(S)].mode = CHOOSE m \in Modal(r, S) : TRUE
  <2>1. FirstOf(S) = x
    <3>1. x <= x
      OBVIOUS
    <3> DEFINE First(k) == \A j \in S : k <= j
    <3>2. First(x) /\ \A k \in S : k = x
      BY <1>2, <3>1
    <3>3. FirstOf(S) = CHOOSE k \in S : First(k)
      BY DEF FirstOf
    <3> HIDE DEF First
    <3> QED
      BY <3>2, <3>3
  <2> DEFINE mode == r.list[x].mode
  <2>2. Sets(r, S) <=> mode # "UNSET"
    BY <1>2, <2>1 DEF Sets
  <2>3. Modal(r, S) = {mode} \ {"UNSET"}
    BY <1>2 DEF Modal
  <2> HIDE DEF mode
  <2>4. mode # "UNSET" => Modal(r, S) = {mode} /\ (CHOOSE m \in Modal(r, S) : TRUE) = mode
    BY <2>3
  <2>5. mode = "UNSET" => Modal(r, S) = {}
    BY <2>3
  <2> QED
    BY <2>1, <2>2, <2>4, <2>5 DEF mode
<1> QED
  BY <1>1, <1>2, AtMostOne

\* The precedence of Istio, for one pod.
LEMMA Precedence ==
  ASSUME NEW r, MeshRead(r), NEW pod, Narrow(pod) <=> pod.ns # MeshNS
  PROVE  LET policy == ResolveServicePolicy(r, pod)
             w == WorkloadScoped(r, pod)
             n == NamespaceScoped(r, pod)
             mesh == pod.ns = MeshNS
         IN  /\ Cardinality(w) <= 1 /\ Cardinality(n) <= 1 =>
                  policy.effective =
                    CASE ~mesh /\ Modal(r, w) # {} -> MeshMode(CHOOSE m \in Modal(r, w) : TRUE)
                      [] ~mesh /\ Modal(r, w) = {} /\ Modal(r, n) # {} ->
                           MeshMode(CHOOSE m \in Modal(r, n) : TRUE)
                      [] OTHER -> Section(r).effective
             /\ policy.scope = "workload" => policy.effective = MeshMode(r.list[FirstOf(w)].mode)
             /\ policy.scope = "namespace" => policy.effective = MeshMode(r.list[FirstOf(n)].mode)
<1> DEFINE policy == ResolveServicePolicy(r, pod)
           w == WorkloadScoped(r, pod)
           n == NamespaceScoped(r, pod)
           mesh == pod.ns = MeshNS
           ofW == MeshMode(r.list[FirstOf(w)].mode)
           ofN == MeshMode(r.list[FirstOf(n)].mode)
<1>1. Narrow(pod) <=> ~mesh
  OBVIOUS
<1>2. /\ Narrow(pod) /\ Sets(r, w) => policy.effective = ofW /\ policy.scope = "workload"
      /\ Narrow(pod) /\ ~Sets(r, w) /\ Sets(r, n) => policy.effective = ofN /\ policy.scope = "namespace"
      /\ ~Narrow(pod) \/ (~Sets(r, w) /\ ~Sets(r, n)) =>
           policy.effective = Section(r).effective /\ policy.scope = "mesh"
  BY Resolves
<1>3. w \subseteq Int /\ n \subseteq Int /\ IsFiniteSet(w) /\ IsFiniteSet(n)
  <2>1. Len(r.list) \in Nat /\ DOMAIN r.list = 1..Len(r.list)
    BY DEF MeshRead, IsList
  <2>2. w \subseteq 1..Len(r.list) /\ n \subseteq 1..Len(r.list)
    BY <2>1 DEF WorkloadScoped, NamespaceScoped
  <2>3. IsFiniteSet(1..Len(r.list)) /\ 1..Len(r.list) \subseteq Int
    <3>1. Len(r.list) \in Nat
      BY <2>1
    <3>2. IsFiniteSet(1..Len(r.list))
      BY <3>1, FS_Interval
    <3> QED BY <3>1, <3>2
  <2> HIDE DEF w, n
  <2> QED
    BY <2>2, <2>3, FS_Subset
<1> HIDE DEF policy, w, n, mesh
<1>4. ASSUME Cardinality(w) <= 1, Cardinality(n) <= 1
      PROVE  policy.effective =
               CASE ~mesh /\ Modal(r, w) # {} -> MeshMode(CHOOSE m \in Modal(r, w) : TRUE)
                 [] ~mesh /\ Modal(r, w) = {} /\ Modal(r, n) # {} ->
                      MeshMode(CHOOSE m \in Modal(r, n) : TRUE)
                 [] OTHER -> Section(r).effective
  <2> DEFINE mW == CHOOSE m \in Modal(r, w) : TRUE
             mN == CHOOSE m \in Modal(r, n) : TRUE
  <2>1. (Sets(r, w) <=> Modal(r, w) # {}) /\ (Sets(r, w) => ofW = MeshMode(mW))
    BY <1>3, <1>4, OneSets
  <2>2. (Sets(r, n) <=> Modal(r, n) # {}) /\ (Sets(r, n) => ofN = MeshMode(mN))
    BY <1>3, <1>4, OneSets
  <2> HIDE DEF mW, mN, ofW, ofN
  <2>3. CASE ~mesh /\ Modal(r, w) # {}
    <3>1. policy.effective = MeshMode(mW)
      BY <1>1, <1>2, <2>1, <2>3
    <3> QED BY <2>3, <3>1 DEF mW
  <2>4. CASE ~mesh /\ Modal(r, w) = {} /\ Modal(r, n) # {}
    <3>1. policy.effective = MeshMode(mN)
      BY <1>1, <1>2, <2>1, <2>2, <2>4
    <3> QED BY <2>4, <3>1 DEF mN
  <2>5. CASE mesh \/ (Modal(r, w) = {} /\ Modal(r, n) = {})
    <3>1. policy.effective = Section(r).effective
      BY <1>1, <1>2, <2>1, <2>2, <2>5
    <3> QED BY <2>5, <3>1
  <2> DEFINE answer ==
               CASE ~mesh /\ Modal(r, w) # {} -> MeshMode(CHOOSE m \in Modal(r, w) : TRUE)
                 [] ~mesh /\ Modal(r, w) = {} /\ Modal(r, n) # {} ->
                      MeshMode(CHOOSE m \in Modal(r, n) : TRUE)
                 [] OTHER -> Section(r).effective
  <2> HIDE DEF answer
  <2>6. policy.effective = answer
    BY <2>3, <2>4, <2>5 DEF answer
  <2> QED
    BY <2>6 DEF answer
<1>5. /\ policy.scope = "workload" => policy.effective = ofW
      /\ policy.scope = "namespace" => policy.effective = ofN
  <2> HIDE DEF ofW, ofN
  <2>1. CASE Narrow(pod) /\ Sets(r, w)
    BY <1>2, <2>1
  <2>2. CASE Narrow(pod) /\ ~Sets(r, w) /\ Sets(r, n)
    BY <1>2, <2>2
  <2>3. CASE ~Narrow(pod) \/ (~Sets(r, w) /\ ~Sets(r, n))
    BY <1>2, <2>3
  <2> QED BY <2>1, <2>2, <2>3
<1> QED
  BY <1>4, <1>5 DEF policy, w, n, mesh

\* At the end the policy of a row is that of one of its own running pods, or
\* none if it has none, and the policy of a pod is the one Istio's precedence
\* gives it, whatever objects there are and in whatever order they come.
THEOREM PolicyHolds == Spec => []PolicyIsOwn
<1>1. IInv => PolicyIsOwn
  <2> SUFFICES ASSUME IInv, stage = "done", Asked(read) PROVE OwnPolicy /\ IstiosPrecedence
    BY DEF PolicyIsOwn, OwnPolicy, IstiosPrecedence
  <2>1. /\ PodList(pods) /\ MeshRead(read)
        /\ \A i \in Services : Told(svc[i], OfService(i))
        /\ \A i \in Groups : Told(grp[i], OfGroup(i))
    BY AtTheEnd
  <2>2. \A k \in Runs : k # 0 /\ (Narrow(pods[k]) <=> pods[k].ns # MeshNS)
    <3>1. \A k \in Runs : k # 0 /\ k \in DOMAIN pods
      BY <2>1, RunsAreIndexes
    <3> QED BY <2>1, <3>1, Zenon DEF PodList, Narrow
  <2>3. \A i : 0 \notin OfService(i) /\ 0 \notin OfGroup(i)
    BY <2>2 DEF OfService, OfGroup
  <2>4. OwnPolicy
    BY <2>1, <2>3, OwnSays DEF OwnPolicy
  <2>5. IstiosPrecedence
    BY <2>1, <2>2, Precedence DEF IstiosPrecedence
  <2> QED
    BY <2>4, <2>5
<1> QED
  BY <1>1, Invariance, PTL

\* At the end no row has a policy, at any scope, and none is counted, where the
\* mesh could not be asked: there is none, its mode could not be read, or the
\* objects could not be listed.
THEOREM FailureHolds == Spec => []NothingFromFailure
<1>1. IInv => NothingFromFailure
  <2> SUFFICES ASSUME IInv, stage = "done",
                      ~read.installed \/ read.err \in {"denied", "failed"} \/ ~read.listed
               PROVE  /\ \A i \in Services : Policy(svc[i]) = NoPolicy
                      /\ \A i \in Groups : Policy(grp[i]) = NoPolicy
                      /\ summary["PolicyEligible"] = 0 /\ summary["UnmanagedPolicyEligible"] = 0
                      /\ PolicyHA = 0
    BY DEF NothingFromFailure
  <2>1. MeshRead(read) /\ summary = Tallied
    BY AtTheEnd
  <2>2. ~Asked(read)
    BY DEF Asked, Section
  <2>3. \A t : Policy(t) = NoPolicy /\ ~Judged(t)
    <3>1. \A t : Policy(t) = NoPolicy
      BY <2>1, <2>2, RowPolicy
    <3> QED
      BY <3>1 DEF Judged, NoPolicy
  <2>4. Of(svc, Judged) = 0 /\ Of(grp, Judged) = 0
    <3>1. /\ {i \in DOMAIN svc : Judged(svc[i])} = {}
          /\ {i \in DOMAIN grp : Judged(grp[i])} = {}
      BY <2>3
    <3> QED
      BY <3>1, FS_EmptySet DEF Of
  <2>5. summary["PolicyEligible"] = 0 /\ summary["UnmanagedPolicyEligible"] = 0
    BY <2>1, <2>4 DEF Tallied
  <2>6. PolicyHA = 0
    BY <2>5 DEF PolicyHA, RoundPercent
  <2> QED
    BY <2>3, <2>5, <2>6
<1> QED
  BY <1>1, Invariance, PTL

-----------------------------------------------------------------------------
(* The gauges.                                                              *)

\* What the tally of a row says of the row.
LEMMA RowSpread ==
  ASSUME NodeList(nodes), NEW ks, IsFiniteSet(ks), NEW t, Told(t, ks)
  PROVE  /\ Zoned(t) <=> OneZone(t) \/ ManyZones(t)
         /\ ~(OneZone(t) /\ ManyZones(t))
         /\ Zoned(t) <=> t.pods > t.unplaced
         /\ Zoned(t) => OneNode(t) \/ ManyNodes(t)
         /\ ~(OneNode(t) /\ ManyNodes(t))
         /\ Full(t) => Meshed(t)
         /\ Meshed(t) <=> \E k \in ks : InMesh(pods[k])
<1>1. /\ t.pods = Cardinality(ks) /\ t.unplaced = Cardinality(ks \ PlacedOf(ks))
      /\ t.zones = ZonesOf(ks) /\ t.nodes = NodesOf(ks) /\ t.meshPods = Cardinality(MeshedOf(ks))
      /\ IsFiniteSet(t.zones) /\ IsFiniteSet(t.nodes)
  BY AmountsSays DEF Told, Spoken
<1>2. \A S : IsFiniteSet(S) =>
        /\ Cardinality(S) \in Nat /\ (S # {} <=> Cardinality(S) # 0)
        /\ S # {} <=> Cardinality(S) = 1 \/ Cardinality(S) > 1
        /\ ~(Cardinality(S) = 1 /\ Cardinality(S) > 1)
  <2> SUFFICES ASSUME NEW S, IsFiniteSet(S)
               PROVE  /\ Cardinality(S) \in Nat /\ (S # {} <=> Cardinality(S) # 0)
                      /\ S # {} <=> Cardinality(S) = 1 \/ Cardinality(S) > 1
                      /\ ~(Cardinality(S) = 1 /\ Cardinality(S) > 1)
    OBVIOUS
  <2>1. Cardinality(S) \in Nat /\ (S # {} <=> Cardinality(S) # 0)
    BY FS_CardinalityType, FS_EmptySet
  <2> QED
    BY <2>1
<1>3. /\ Zoned(t) <=> OneZone(t) \/ ManyZones(t)
      /\ ~(OneZone(t) /\ ManyZones(t))
  BY <1>1, <1>2 DEF Zoned, OneZone, ManyZones
<1>4. /\ t.nodes # {} <=> OneNode(t) \/ ManyNodes(t)
      /\ ~(OneNode(t) /\ ManyNodes(t))
  BY <1>1, <1>2 DEF OneNode, ManyNodes
<1>5. Zoned(t) <=> PlacedOf(ks) # {}
  BY <1>1 DEF Zoned, ZonesOf
<1>6. PlacedOf(ks) # {} => t.nodes # {}
  <2> SUFFICES ASSUME NEW k \in ks, Zone(pods[k]) # Unknown PROVE NodesOf(ks) # {}
    BY <1>1 DEF PlacedOf
  <2>1. NodeOf(pods[k]) # {}
    BY ZoneIsNodes
  <2> QED
    BY <2>1 DEF NodesOf
<1>7. Zoned(t) <=> t.pods > t.unplaced
  <2> DEFINE A == PlacedOf(ks)
             B == ks \ PlacedOf(ks)
  <2>1. ks = A \cup B /\ A \cap B = {} /\ A \subseteq ks /\ B \subseteq ks
    BY DEF PlacedOf
  <2> HIDE DEF A, B
  <2>2. IsFiniteSet(A) /\ IsFiniteSet(B)
    BY <2>1, FS_Subset
  <2>3. Cardinality(ks) = Cardinality(A) + Cardinality(B) /\ Cardinality(A) \in Nat /\ Cardinality(B) \in Nat
    BY <2>1, <2>2, Parted
  <2>4. A # {} <=> Cardinality(A) # 0
    BY <1>2, <2>2
  <2>5. Cardinality(A) # 0 <=> Cardinality(ks) > Cardinality(B)
    BY <2>3
  <2> QED
    BY <1>1, <1>5, <2>4, <2>5 DEF A, B
<1>8. Meshed(t) <=> \E k \in ks : InMesh(pods[k])
  <2>1. MeshedOf(ks) # {} <=> \E k \in ks : InMesh(pods[k])
    BY DEF MeshedOf
  <2>2. IsFiniteSet(MeshedOf(ks))
    BY FS_Subset DEF MeshedOf
  <2>3. Cardinality(MeshedOf(ks)) \in Nat /\ (MeshedOf(ks) # {} <=> Cardinality(MeshedOf(ks)) # 0)
    BY <1>2, <2>2
  <2>4. Cardinality(MeshedOf(ks)) > 0 <=> Cardinality(MeshedOf(ks)) # 0
    BY <2>3
  <2> QED
    BY <1>1, <2>1, <2>3, <2>4 DEF Meshed
<1> QED
  BY <1>3, <1>4, <1>5, <1>6, <1>7, <1>8 DEF Full

\* What the counters count, over the services or over the groups.
CountersAgree(tallies, D) ==
  /\ Of(tallies, Zoned) = Of(tallies, OneZone) + Of(tallies, ManyZones)
  /\ Of(tallies, Zoned) = Cardinality({i \in D : tallies[i].pods > tallies[i].unplaced})
  /\ Of(tallies, Zoned) <= Of(tallies, OneNode) + Of(tallies, ManyNodes)
  /\ Of(tallies, Full) <= Of(tallies, Meshed)
  /\ Of(tallies, Judged) - Of(tallies, Permissive) - Of(tallies, Disabled) =
       Cardinality({i \in D : Policy(tallies[i]).effective = "strict"})
  /\ Cardinality({i \in D : Policy(tallies[i]).effective = "strict"}) <= Of(tallies, Judged)
  /\ Cardinality({i \in D : Policy(tallies[i]).effective = "strict"}) \in Nat
  /\ Of(tallies, OneZone) \in Nat /\ Of(tallies, ManyZones) \in Nat
  /\ Of(tallies, OneNode) \in Nat /\ Of(tallies, ManyNodes) \in Nat
  /\ Of(tallies, Full) \in Nat /\ Of(tallies, Meshed) \in Nat /\ Of(tallies, Judged) \in Nat

LEMMA Gauges ==
  ASSUME NodeList(nodes), MeshRead(read),
         NEW D, IsFiniteSet(D), NEW tallies, DOMAIN tallies = D,
         \A i \in D : \E ks : IsFiniteSet(ks) /\ Told(tallies[i], ks)
  PROVE  CountersAgree(tallies, D)
<1> DEFINE Z  == {i \in D : Zoned(tallies[i])}
           Z1 == {i \in D : OneZone(tallies[i])}
           ZN == {i \in D : ManyZones(tallies[i])}
           N1 == {i \in D : OneNode(tallies[i])}
           NN == {i \in D : ManyNodes(tallies[i])}
           F  == {i \in D : Full(tallies[i])}
           M  == {i \in D : Meshed(tallies[i])}
           J  == {i \in D : Judged(tallies[i])}
           P  == {i \in D : Permissive(tallies[i])}
           X  == {i \in D : Disabled(tallies[i])}
           S  == {i \in D : Policy(tallies[i]).effective = "strict"}
           R  == {i \in D : tallies[i].pods > tallies[i].unplaced}
<1>1. /\ Of(tallies, Zoned) = Cardinality(Z)
      /\ Of(tallies, OneZone) = Cardinality(Z1) /\ Of(tallies, ManyZones) = Cardinality(ZN)
      /\ Of(tallies, OneNode) = Cardinality(N1) /\ Of(tallies, ManyNodes) = Cardinality(NN)
      /\ Of(tallies, Full) = Cardinality(F) /\ Of(tallies, Meshed) = Cardinality(M)
      /\ Of(tallies, Judged) = Cardinality(J)
      /\ Of(tallies, Permissive) = Cardinality(P) /\ Of(tallies, Disabled) = Cardinality(X)
  BY DEF Of
<1>2. ASSUME NEW i \in D
      PROVE  /\ Zoned(tallies[i]) <=> OneZone(tallies[i]) \/ ManyZones(tallies[i])
             /\ ~(OneZone(tallies[i]) /\ ManyZones(tallies[i]))
             /\ Zoned(tallies[i]) <=> tallies[i].pods > tallies[i].unplaced
             /\ Zoned(tallies[i]) => OneNode(tallies[i]) \/ ManyNodes(tallies[i])
             /\ ~(OneNode(tallies[i]) /\ ManyNodes(tallies[i]))
             /\ Full(tallies[i]) => Meshed(tallies[i])
  <2>1. PICK ks : IsFiniteSet(ks) /\ Told(tallies[i], ks)
    OBVIOUS
  <2> QED
    BY <2>1, RowSpread
<1>3. ASSUME NEW i \in D
      PROVE  /\ Judged(tallies[i]) <=> \/ Permissive(tallies[i]) \/ Disabled(tallies[i])
                                       \/ Policy(tallies[i]).effective = "strict"
             /\ ~(Permissive(tallies[i]) /\ Disabled(tallies[i]))
             /\ ~(Permissive(tallies[i]) /\ Policy(tallies[i]).effective = "strict")
             /\ ~(Disabled(tallies[i]) /\ Policy(tallies[i]).effective = "strict")
  <2>1. Judged(tallies[i]) <=> Policy(tallies[i]).effective \in Judgements
    BY RowPolicy
  <2> QED
    BY <2>1 DEF Permissive, Disabled, Judgements
<1>4. /\ Z = Z1 \cup ZN /\ Z1 \cap ZN = {} /\ Z = R
      /\ Z \subseteq N1 \cup NN /\ N1 \cap NN = {} /\ F \subseteq M
  BY <1>2
<1>5. /\ J = (P \cup X) \cup S /\ P \cap X = {} /\ (P \cup X) \cap S = {}
  BY <1>3
<1>6. /\ IsFiniteSet(Z1) /\ IsFiniteSet(ZN) /\ IsFiniteSet(N1) /\ IsFiniteSet(NN)
      /\ IsFiniteSet(F) /\ IsFiniteSet(M) /\ IsFiniteSet(P) /\ IsFiniteSet(X) /\ IsFiniteSet(S)
  <2>1. /\ Z1 \subseteq D /\ ZN \subseteq D /\ N1 \subseteq D /\ NN \subseteq D
        /\ F \subseteq D /\ M \subseteq D /\ P \subseteq D /\ X \subseteq D /\ S \subseteq D
    OBVIOUS
  <2> HIDE DEF Z1, ZN, N1, NN, F, M, P, X, S
  <2> QED
    BY <2>1, FS_Subset
<1> HIDE DEF Z, Z1, ZN, N1, NN, F, M, J, P, X, S, R
<1>7. /\ Cardinality(Z) = Cardinality(Z1) + Cardinality(ZN)
      /\ Cardinality(Z1) \in Nat /\ Cardinality(ZN) \in Nat
  BY <1>4, <1>6, Parted
<1>8. /\ Cardinality(Z) <= Cardinality(N1) + Cardinality(NN)
      /\ Cardinality(N1) \in Nat /\ Cardinality(NN) \in Nat
  <2>1. /\ IsFiniteSet(N1 \cup NN) /\ Cardinality(N1) \in Nat /\ Cardinality(NN) \in Nat
        /\ Cardinality(N1 \cup NN) = Cardinality(N1) + Cardinality(NN)
    BY <1>4, <1>6, Parted
  <2>2. Cardinality(Z) <= Cardinality(N1 \cup NN)
    BY <1>4, <2>1, FS_Subset
  <2> QED
    BY <2>1, <2>2
<1>9. Cardinality(F) <= Cardinality(M) /\ Cardinality(F) \in Nat /\ Cardinality(M) \in Nat
  BY <1>4, <1>6, FS_Subset, FS_CardinalityType
<1>10. /\ Cardinality(J) - Cardinality(P) - Cardinality(X) = Cardinality(S)
       /\ Cardinality(S) <= Cardinality(J) /\ Cardinality(J) \in Nat /\ Cardinality(S) \in Nat
  <2>1. /\ IsFiniteSet(P \cup X) /\ Cardinality(P) \in Nat /\ Cardinality(X) \in Nat
        /\ Cardinality(P \cup X) = Cardinality(P) + Cardinality(X)
    BY <1>5, <1>6, Parted
  <2>2. /\ Cardinality(J) = Cardinality(P \cup X) + Cardinality(S) /\ Cardinality(S) \in Nat
    BY <1>5, <1>6, <2>1, Parted
  <2> QED
    BY <2>1, <2>2
<1>11. Cardinality(Z) = Cardinality(R)
  BY <1>4
<1> QED
  BY <1>1, <1>7, <1>8, <1>9, <1>10, <1>11 DEF CountersAgree, S, R

\* The services and the groups are as many as the lists of their owners can name.
LEMMA OwnersAreFinite == IsFiniteSet(Services) /\ IsFiniteSet(Groups)
<1>1. ASSUME NEW owners, IsList(owners) PROVE IsFiniteSet(Indexes(owners))
  <2> DEFINE D == 1..Len(owners)
             f == [k \in D |-> owners[k].idx]
  <2>1. Len(owners) \in Nat /\ DOMAIN owners = D
    BY <1>1 DEF IsList
  <2>2. IsFiniteSet(D)
    BY <2>1, FS_Interval
  <2>3. Indexes(owners) = {f[k] : k \in D}
    BY <2>1 DEF Indexes
  <2>4. f \in Surjection(D, Indexes(owners))
    BY <2>3 DEF Surjection
  <2> HIDE DEF D, f
  <2> QED
    BY <2>2, <2>4, FS_Surjection
<1> QED
  BY <1>1, SpreadAssumption DEF Services, Groups, OwnerList

\* At the end the spread gauges are parted without remainder over services and
\* groups, a row counts if and only if it has a placed pod, the Istio gauges
\* are about the services and no one else, and each is a percentage.
THEOREM GaugesHold == Spec => []GaugesPart
<1>1. IInv => GaugesPart
  <2> SUFFICES ASSUME IInv, stage = "done" PROVE GaugesPart
    BY DEF GaugesPart
  <2>1. /\ NodeList(nodes) /\ MeshRead(read) /\ summary = Tallied
        /\ DOMAIN svc = Services /\ DOMAIN grp = Groups
        /\ \A i \in Services : Told(svc[i], OfService(i)) /\ IsFiniteSet(OfService(i))
        /\ \A i \in Groups : Told(grp[i], OfGroup(i)) /\ IsFiniteSet(OfGroup(i))
    BY AtTheEnd
  <2> DEFINE strict == Cardinality({i \in Services : Policy(svc[i]).effective = "strict"})
             placedS == Cardinality({i \in Services : svc[i].pods > svc[i].unplaced})
             placedG == Cardinality({i \in Groups : grp[i].pods > grp[i].unplaced})
             meshed == Cardinality({i \in Services : \E k \in OfService(i) : InMesh(pods[k])})
  <2>2. /\ Of(svc, Zoned) = Of(svc, OneZone) + Of(svc, ManyZones) /\ Of(svc, Zoned) = placedS
        /\ Of(svc, Zoned) <= Of(svc, OneNode) + Of(svc, ManyNodes)
        /\ Of(svc, Full) <= Of(svc, Meshed)
        /\ Of(svc, Judged) - Of(svc, Permissive) - Of(svc, Disabled) = strict
        /\ strict <= Of(svc, Judged) /\ strict \in Nat
        /\ Of(svc, OneZone) \in Nat /\ Of(svc, ManyZones) \in Nat
        /\ Of(svc, OneNode) \in Nat /\ Of(svc, ManyNodes) \in Nat
        /\ Of(svc, Full) \in Nat /\ Of(svc, Meshed) \in Nat /\ Of(svc, Judged) \in Nat
    <3>1. \A i \in Services : \E ks : IsFiniteSet(ks) /\ Told(svc[i], ks)
      BY <2>1
    <3>2. IsFiniteSet(Services) /\ DOMAIN svc = Services /\ NodeList(nodes) /\ MeshRead(read)
      BY <2>1, OwnersAreFinite
    <3>3. CountersAgree(svc, Services)
      BY <3>1, <3>2, Gauges
    <3> QED
      BY <3>3 DEF CountersAgree
  <2>3. /\ Of(grp, Zoned) = Of(grp, OneZone) + Of(grp, ManyZones) /\ Of(grp, Zoned) = placedG
        /\ Of(grp, Zoned) <= Of(grp, OneNode) + Of(grp, ManyNodes)
        /\ Of(grp, OneZone) \in Nat /\ Of(grp, ManyZones) \in Nat
        /\ Of(grp, OneNode) \in Nat /\ Of(grp, ManyNodes) \in Nat
    <3>1. \A i \in Groups : \E ks : IsFiniteSet(ks) /\ Told(grp[i], ks)
      BY <2>1
    <3>2. IsFiniteSet(Groups) /\ DOMAIN grp = Groups /\ NodeList(nodes) /\ MeshRead(read)
      BY <2>1, OwnersAreFinite
    <3>3. CountersAgree(grp, Groups)
      BY <3>1, <3>2, Gauges
    <3> QED
      BY <3>3 DEF CountersAgree
  <2>4. Of(svc, Meshed) = meshed
    <3>1. \A i \in Services : Meshed(svc[i]) <=> \E k \in OfService(i) : InMesh(pods[k])
      BY <2>1, RowSpread
    <3>2. {i \in DOMAIN svc : Meshed(svc[i])} =
            {i \in Services : \E k \in OfService(i) : InMesh(pods[k])}
      BY <2>1, <3>1
    <3> QED
      BY <3>2 DEF Of
  <2>5. /\ summary["Zoned"] = Of(svc, Zoned) + Of(grp, Zoned)
        /\ summary["SingleZone"] = Of(svc, OneZone) + Of(grp, OneZone)
        /\ summary["MultiZone"] = Of(svc, ManyZones) + Of(grp, ManyZones)
        /\ summary["SingleNode"] = Of(svc, OneNode) + Of(grp, OneNode)
        /\ summary["MultiNode"] = Of(svc, ManyNodes) + Of(grp, ManyNodes)
        /\ summary["MeshEligible"] = Of(svc, Meshed) /\ summary["MeshInjected"] = Of(svc, Full)
        /\ summary["PolicyEligible"] = Of(svc, Judged)
        /\ summary["PolicyPermissive"] = Of(svc, Permissive)
        /\ summary["PolicyDisabled"] = Of(svc, Disabled)
    BY <2>1 DEF Tallied
  <2> HIDE DEF strict, placedS, placedG, meshed
  <2>6. {HA, NodeHA, MeshHA, PolicyHA} \subseteq 0..100
    <3>1. HA \in 0..100
      <4>1. /\ summary["MultiZone"] \in Nat /\ summary["Zoned"] \in Nat
            /\ summary["MultiZone"] <= summary["Zoned"]
        BY <2>2, <2>3, <2>5
      <4> QED BY <4>1, Rounded DEF HA
    <3>2. NodeHA \in 0..100
      <4>1. /\ summary["MultiNode"] \in Nat /\ summary["SingleNode"] + summary["MultiNode"] \in Nat
            /\ summary["MultiNode"] <= summary["SingleNode"] + summary["MultiNode"]
        BY <2>2, <2>3, <2>5
      <4> QED BY <4>1, Rounded DEF NodeHA
    <3>3. MeshHA \in 0..100
      <4>1. /\ summary["MeshInjected"] \in Nat /\ summary["MeshEligible"] \in Nat
            /\ summary["MeshInjected"] <= summary["MeshEligible"]
        BY <2>2, <2>5
      <4>2. RoundPercent(summary["MeshInjected"], summary["MeshEligible"]) \in 0..100
        BY <4>1, Rounded
      <4> QED BY <4>2 DEF MeshHA
    <3>4. PolicyHA \in 0..100
      <4>1. /\ summary["PolicyEligible"] - summary["PolicyPermissive"] - summary["PolicyDisabled"] \in Nat
            /\ summary["PolicyEligible"] \in Nat
            /\ summary["PolicyEligible"] - summary["PolicyPermissive"] - summary["PolicyDisabled"]
                 <= summary["PolicyEligible"]
        BY <2>2, <2>5
      <4> QED BY <4>1, Rounded DEF PolicyHA
    <3> QED
      BY <3>1, <3>2, <3>3, <3>4
  <2>7. /\ summary["Zoned"] = summary["SingleZone"] + summary["MultiZone"]
        /\ summary["Zoned"] = placedS + placedG
        /\ summary["SingleZone"] + summary["MultiZone"] <= summary["SingleNode"] + summary["MultiNode"]
        /\ summary["MeshInjected"] <= summary["MeshEligible"]
        /\ summary["MeshEligible"] = meshed
        /\ summary["PolicyEligible"] - summary["PolicyPermissive"] - summary["PolicyDisabled"] = strict
    BY <2>2, <2>3, <2>4, <2>5
  <2> QED
    BY <2>6, <2>7 DEF GaugesPart, strict, placedS, placedG, meshed
<1> QED
  BY <1>1, Invariance, PTL
=============================================================================

----------------------------- MODULE Induction ------------------------------
(***************************************************************************)
(* Induction for the proofs of this project: over sets of naturals, over   *)
(* functions defined by recursion on 0..N, and over chains of growing      *)
(* sets, which settle after as many steps as there are elements.  All are  *)
(* stated of sets and functions, and rest on the fact that inclusion is    *)
(* well founded on finite sets.                                            *)
(***************************************************************************)
EXTENDS Integers, FiniteSets, FiniteSetTheorems, TLAPS

(* A set of naturals has a least element.                                  *)
LEMMA LeastNatural ==
  ASSUME NEW S \in SUBSET Nat, S # {}
  PROVE  \E n \in S : \A m \in S : n <= m
<1> DEFINE R == StrictSubsetOrdering(Nat)
           F == FiniteSubsetsOf(Nat)
           T == {0..n : n \in S}
<1>1. IsWellFoundedOn(R, F)
  BY FS_StrictSubsetOrderingWellFounded
<1>2. T \subseteq F
  <2> SUFFICES ASSUME NEW n \in S PROVE 0..n \in F
    OBVIOUS
  <2>1. n \in Nat /\ 0..n \subseteq Nat
    OBVIOUS
  <2>2. IsFiniteSet(0..n)
    BY <2>1, FS_Interval
  <2> QED
    BY <2>1, <2>2 DEF FiniteSubsetsOf
<1>3. T # {}
  OBVIOUS
<1> HIDE DEF R, F
<1>4. PICK x \in T : \A y \in T : <<y, x>> \notin R
  BY <1>1, <1>2, <1>3, WFMin
<1>5. PICK n \in S : x = 0..n
  OBVIOUS
<1>6. ASSUME NEW m \in S, m < n PROVE FALSE
  <2>1. 0..m \subseteq 0..n /\ 0..m # 0..n /\ 0..m \subseteq Nat /\ 0..n \subseteq Nat
    BY <1>6
  <2>2. <<0..m, 0..n>> \in R
    BY <2>1 DEF R, StrictSubsetOrdering
  <2> QED
    BY <1>4, <1>5, <2>2
<1> QED
  BY <1>6

(* Induction, for a property given as the set of the numbers that have it. *)
LEMMA UpTo ==
  ASSUME NEW N \in Nat, NEW S, 0 \in S, \A k \in 0..(N - 1) : k \in S => k + 1 \in S
  PROVE  \A k \in 0..N : k \in S
<1> SUFFICES ASSUME NEW j \in 0..N, j \notin S PROVE FALSE
  OBVIOUS
<1> DEFINE B == {k \in 0..N : k \notin S}
<1>1. B \in SUBSET Nat /\ B # {}
  OBVIOUS
<1>2. PICK k \in B : \A m \in B : k <= m
  BY <1>1, LeastNatural
<1>3. k # 0 /\ k \in 1..N
  BY <1>2
<1>4. k - 1 \in 0..(N - 1) /\ k - 1 \notin B
  BY <1>2, <1>3
<1>5. k - 1 \in S /\ (k - 1) + 1 = k
  BY <1>3, <1>4
<1> QED
  BY <1>2, <1>4, <1>5

(* g starts at b and goes on by step.                                      *)
Iterating(g, N, T, b, step) ==
  g \in [0..N -> T] /\ g[0] = b /\ \A k \in 1..N : g[k] = step[g[k - 1]]

(* A function is defined by its first value and a step.                    *)
LEMMA Iterates ==
  ASSUME NEW N \in Nat, NEW T, NEW b \in T, NEW step \in [T -> T]
  PROVE  \E g : Iterating(g, N, T, b, step)
<1> DEFINE Has(n) == \E g \in [0..n -> T] : g[0] = b /\ \A k \in 1..n : g[k] = step[g[k - 1]]
           S == {n \in Nat : Has(n)}
<1>1. 0 \in S
  <2>1. [k \in 0..0 |-> b] \in [0..0 -> T]
    OBVIOUS
  <2>2. [k \in 0..0 |-> b][0] = b /\ \A k \in 1..0 : FALSE
    OBVIOUS
  <2> QED
    BY <2>1, <2>2
<1>2. ASSUME NEW n \in Nat, Has(n) PROVE Has(n + 1)
  <2>1. PICK g \in [0..n -> T] : g[0] = b /\ \A k \in 1..n : g[k] = step[g[k - 1]]
    BY <1>2
  <2> DEFINE h == [k \in 0..(n + 1) |-> IF k = n + 1 THEN step[g[n]] ELSE g[k]]
  <2>2. h \in [0..(n + 1) -> T]
    OBVIOUS
  <2>3. h[0] = b
    BY <2>1
  <2>4. ASSUME NEW k \in 1..(n + 1) PROVE h[k] = step[h[k - 1]]
    <3>1. h[k - 1] = g[k - 1]
      OBVIOUS
    <3>2. CASE k = n + 1
      BY <3>1, <3>2
    <3>3. CASE k # n + 1
      BY <2>1, <3>1, <3>3
    <3> QED
      BY <3>2, <3>3
  <2> HIDE DEF h
  <2> QED
    BY <2>2, <2>3, <2>4
<1> HIDE DEF Has
<1>3. \A k \in 0..N : k \in S
  <2>1. \A k \in 0..(N - 1) : k \in S => k + 1 \in S
    BY <1>2
  <2> QED
    BY <1>1, <2>1, UpTo
<1> QED
  BY <1>3 DEF Has, Iterating

(* The same when the step looks at how far it is.                          *)
Recurring(g, N, T, b, step) ==
  g \in [0..N -> T] /\ g[0] = b /\ \A k \in 1..N : g[k] = step[<<k, g[k - 1]>>]

LEMMA Recursion ==
  ASSUME NEW N \in Nat, NEW T, NEW b \in T, NEW step \in [(1..N) \X T -> T]
  PROVE  \E g : Recurring(g, N, T, b, step)
<1> DEFINE P == (0..N) \X T
           next == [x \in P |-> IF x[1] < N THEN <<x[1] + 1, step[<<x[1] + 1, x[2]>>]>> ELSE x]
<1>1. next \in [P -> P]
  <2> SUFFICES ASSUME NEW x \in P
               PROVE  (IF x[1] < N THEN <<x[1] + 1, step[<<x[1] + 1, x[2]>>]>> ELSE x) \in P
    OBVIOUS
  <2>1. CASE x[1] < N
    <3>1. x[1] + 1 \in 1..N /\ x[1] + 1 \in 0..N /\ x[2] \in T
      BY <2>1
    <3>2. <<x[1] + 1, x[2]>> \in (1..N) \X T
      BY <3>1
    <3>3. step[<<x[1] + 1, x[2]>>] \in T
      BY <3>2
    <3> QED
      BY <2>1, <3>1, <3>3
  <2> QED
    BY <2>1
<1>2. \A x \in P : next[x] = IF x[1] < N THEN <<x[1] + 1, step[<<x[1] + 1, x[2]>>]>> ELSE x
  OBVIOUS
<1>3. <<0, b>> \in P
  OBVIOUS
<1> HIDE DEF next
<1>4. PICK h : Iterating(h, N, P, <<0, b>>, next)
  <2> HIDE DEF P
  <2> QED
    BY <1>1, <1>3, Iterates
<1>5. h \in [0..N -> P] /\ h[0] = <<0, b>> /\ \A k \in 1..N : h[k] = next[h[k - 1]]
  BY <1>4 DEF Iterating
<1> DEFINE S == {k \in 0..N : h[k][1] = k}
<1>6. \A k \in 0..N : k \in S
  <2>1. 0 \in S
    BY <1>5
  <2>2. ASSUME NEW k \in 0..(N - 1), k \in S PROVE k + 1 \in S
    <3>1. k \in 0..N /\ k < N /\ k + 1 \in 1..N /\ k + 1 \in 0..N /\ (k + 1) - 1 = k
      OBVIOUS
    <3>2. h[k] \in P /\ h[k][1] = k
      BY <1>5, <2>2, <3>1
    <3>3. h[k + 1] = next[h[k]]
      <4> HIDE DEF P, S
      <4> QED
        BY <1>5, <3>1
    <3>4. h[k + 1] = <<k + 1, step[<<k + 1, h[k][2]>>]>>
      BY <1>2, <3>1, <3>2, <3>3
    <3> QED
      BY <3>1, <3>4
  <2> HIDE DEF S
  <2> QED
    BY <2>1, <2>2, UpTo
<1> DEFINE g == [k \in 0..N |-> h[k][2]]
<1>7. g \in [0..N -> T] /\ g[0] = b
  BY <1>5
<1>8. ASSUME NEW k \in 1..N PROVE g[k] = step[<<k, g[k - 1]>>]
  <2>1. k - 1 \in 0..N /\ k \in 0..N /\ k - 1 < N /\ (k - 1) + 1 = k
    OBVIOUS
  <2>2. h[k - 1] \in P /\ h[k - 1][1] = k - 1 /\ h[k] = next[h[k - 1]]
    BY <1>5, <1>6, <2>1
  <2>3. h[k] = <<k, step[<<k, h[k - 1][2]>>]>>
    BY <1>2, <2>1, <2>2
  <2> QED
    BY <2>1, <2>3
<1> QED
  BY <1>7, <1>8 DEF Recurring

(* The steps of a growing chain of subsets of V come to rest.              *)
LEMMA ChainSettles ==
  ASSUME NEW V, IsFiniteSet(V),
         NEW step \in [SUBSET V -> SUBSET V], \A X \in SUBSET V : X \subseteq step[X],
         NEW g \in [0..Cardinality(V) -> SUBSET V],
         \A k \in 1..Cardinality(V) : g[k] = step[g[k - 1]]
  PROVE  step[g[Cardinality(V)]] = g[Cardinality(V)]
<1> DEFINE N == Cardinality(V)
           S == {k \in 0..N : step[g[k]] = g[k] \/ Cardinality(g[k]) >= k}
<1>1. N \in Nat
  BY FS_CardinalityType
<1>2. \A X \in SUBSET V : IsFiniteSet(X) /\ Cardinality(X) \in Nat
  BY FS_Subset, FS_CardinalityType
<1> HIDE DEF N
<1>3. 0 \in S
  BY <1>1, <1>2 DEF N
<1>4. ASSUME NEW k \in 0..(N - 1), k \in S PROVE k + 1 \in S
  <2>1. k + 1 \in 1..N /\ k \in 0..N /\ (k + 1) - 1 = k
    BY <1>1
  <2>2. g[k + 1] = step[g[k]] /\ g[k] \in SUBSET V /\ g[k + 1] \in SUBSET V
    BY <2>1 DEF N
  <2>3. CASE step[g[k]] = g[k]
    BY <2>1, <2>2, <2>3
  <2>4. CASE step[g[k]] # g[k] /\ Cardinality(g[k]) >= k
    <3>1. g[k] \subseteq g[k + 1] /\ g[k] # g[k + 1]
      BY <2>2, <2>4
    <3>2. Cardinality(g[k]) <= Cardinality(g[k + 1]) /\ Cardinality(g[k]) # Cardinality(g[k + 1])
      BY <1>2, <2>2, <3>1, FS_Subset
    <3> QED
      BY <1>2, <2>1, <2>2, <2>4, <3>2
  <2> QED
    BY <1>4, <2>3, <2>4
<1>5. \A k \in 0..N : k \in S
  BY <1>1, <1>3, <1>4, UpTo
<1>6. N \in S /\ g[N] \in SUBSET V /\ step[g[N]] \in SUBSET V
  BY <1>1, <1>5 DEF N
<1>7. CASE Cardinality(g[N]) >= N
  <2>1. g[N] = V
    BY <1>1, <1>2, <1>6, <1>7, FS_Subset DEF N
  <2> QED
    BY <1>6, <2>1 DEF N
<1> QED
  BY <1>6, <1>7 DEF N

(* A family of subsets of a finite set has one that no other contains.     *)
LEMMA GreatestSet ==
  ASSUME NEW V, IsFiniteSet(V), NEW F \in SUBSET (SUBSET V), F # {}
  PROVE  \E X \in F : \A Y \in F : X \subseteq Y => Y = X
<1> DEFINE R == StrictSubsetOrdering(V)
           Fin == FiniteSubsetsOf(V)
           T == {V \ X : X \in F}
<1>1. IsWellFoundedOn(R, Fin)
  BY FS_StrictSubsetOrderingWellFounded
<1>2. T \subseteq Fin
  <2> SUFFICES ASSUME NEW X \in F PROVE V \ X \in Fin
    OBVIOUS
  <2>1. V \ X \subseteq V
    OBVIOUS
  <2> QED
    BY <2>1, FS_Subset DEF FiniteSubsetsOf
<1>3. T # {}
  <2>1. PICK X : X \in F
    OBVIOUS
  <2>2. V \ X \in T
    BY <2>1
  <2> QED
    BY <2>2
<1> HIDE DEF R, Fin
<1>4. PICK x \in T : \A y \in T : <<y, x>> \notin R
  <2> HIDE DEF T
  <2> QED
    BY <1>1, <1>2, <1>3, WFMin
<1>5. PICK X \in F : x = V \ X
  OBVIOUS
<1>6. ASSUME NEW Y \in F, X \subseteq Y, Y # X PROVE FALSE
  <2>1. V \ Y \subseteq V \ X /\ V \ Y # V \ X
    BY <1>6
  <2>2. <<V \ Y, V \ X>> \in R
    BY <2>1 DEF R, StrictSubsetOrdering
  <2> QED
    BY <1>4, <1>5, <2>2
<1> QED
  BY <1>6

(* E is the least set that holds S and that step does not extend.          *)
LeastFixpoint(E, V, S, step) ==
  /\ E \in SUBSET V /\ S \subseteq E /\ step[E] = E
  /\ \A T \in SUBSET V :
       S \subseteq T /\ (\A X \in SUBSET T : step[X] \subseteq T) => E \subseteq T

(* A chain of sets that grows from S by step settles on it.                *)
LEMMA ChainEnds ==
  ASSUME NEW V, IsFiniteSet(V), NEW S \in SUBSET V,
         NEW step \in [SUBSET V -> SUBSET V], \A X \in SUBSET V : X \subseteq step[X],
         NEW f, f[0] = S,
         \A k \in 1..Cardinality(V) : f[k - 1] \in SUBSET V => f[k] = step[f[k - 1]]
  PROVE  LeastFixpoint(f[Cardinality(V)], V, S, step)
<1> DEFINE N == Cardinality(V)
<1>1. N \in Nat
  BY FS_CardinalityType
<1>2. ASSUME NEW k \in 0..(N - 1) PROVE k + 1 \in 1..N /\ (k + 1) - 1 = k
  BY <1>1
<1>3. \A k \in 0..N : f[k] \in SUBSET V /\ S \subseteq f[k]
  <2> DEFINE typed == {k \in 0..N : f[k] \in SUBSET V /\ S \subseteq f[k]}
  <2>1. 0 \in typed
    BY <1>1
  <2>2. ASSUME NEW k \in 0..(N - 1), k \in typed PROVE k + 1 \in typed
    <3>1. f[k] \in SUBSET V /\ S \subseteq f[k] /\ k + 1 \in 1..N /\ k + 1 \in 0..N /\ (k + 1) - 1 = k
      BY <2>2, <1>1
    <3>2. f[k + 1] = step[f[k]]
      BY <3>1
    <3>3. f[k] \subseteq step[f[k]] /\ step[f[k]] \in SUBSET V
      BY <3>1
    <3> QED
      BY <3>1, <3>2, <3>3
  <2> HIDE DEF typed, N
  <2>3. \A k \in 0..N : k \in typed
    BY <1>1, <2>1, <2>2, UpTo
  <2> QED
    BY <2>3 DEF typed
<1>4. \A k \in 1..N : f[k - 1] \in SUBSET V /\ f[k] = step[f[k - 1]]
  <2> SUFFICES ASSUME NEW k \in 1..N PROVE f[k - 1] \in SUBSET V /\ f[k] = step[f[k - 1]]
    OBVIOUS
  <2>1. k - 1 \in 0..N
    BY <1>1
  <2> QED
    BY <1>3, <2>1
<1>5. step[f[N]] = f[N]
  <2> DEFINE g == [k \in 0..N |-> f[k]]
  <2>1. g \in [0..N -> SUBSET V]
    BY <1>3
  <2>2. \A k \in 1..N : g[k] = step[g[k - 1]]
    BY <1>1, <1>4
  <2>3. g[N] = f[N]
    BY <1>1
  <2> HIDE DEF g
  <2>4. step[g[N]] = g[N]
    BY <2>1, <2>2, ChainSettles
  <2> QED
    BY <2>3, <2>4
<1>6. ASSUME NEW T \in SUBSET V, S \subseteq T, \A X \in SUBSET T : step[X] \subseteq T
      PROVE  f[N] \subseteq T
  <2> DEFINE inside == {k \in 0..N : f[k] \subseteq T}
  <2>1. 0 \in inside
    BY <1>1, <1>6
  <2>2. ASSUME NEW k \in 0..(N - 1), k \in inside PROVE k + 1 \in inside
    <3>1. k + 1 \in 1..N /\ k + 1 \in 0..N /\ (k + 1) - 1 = k
      BY <1>1
    <3>2. f[k + 1] = step[f[k]] /\ f[k] \in SUBSET T
      BY <1>4, <2>2, <3>1
    <3> QED
      BY <1>6, <3>1, <3>2
  <2> HIDE DEF inside, N
  <2>3. \A k \in 0..N : k \in inside
    BY <1>1, <2>1, <2>2, UpTo
  <2> QED
    BY <1>1, <2>3 DEF inside
<1>7. N \in 0..N
  BY <1>1
<1> QED
  BY <1>3, <1>5, <1>6, <1>7 DEF LeastFixpoint
=============================================================================

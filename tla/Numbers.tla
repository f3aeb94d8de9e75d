------------------------------ MODULE Numbers ------------------------------
(* The numbers are well ordered: what recursive functions and bounded searches need. *)
EXTENDS Integers, FiniteSets, TLAPS, FiniteSetTheorems, WellFoundedInduction

(* The least of a set of numbers, by the well-founded order of finite sets. *)
LEMMA LeastNumber ==
    ASSUME NEW T \in SUBSET Nat, T # {}
    PROVE  \E m \in T : \A k \in T : m <= k
<1> DEFINE Below(n) == 0..(n - 1)
           U == {Below(n) : n \in T}
<1>1. \A n \in Nat : IsFiniteSet(Below(n))
  BY FS_Interval
<1>2. U \subseteq FiniteSubsetsOf(Nat) /\ U # {}
  <2>1. ASSUME NEW n \in T PROVE Below(n) \in FiniteSubsetsOf(Nat)
    BY <1>1 DEF FiniteSubsetsOf
  <2> QED BY <2>1
<1>3. IsWellFoundedOn(StrictSubsetOrdering(Nat), FiniteSubsetsOf(Nat))
  BY FS_StrictSubsetOrderingWellFounded
<1>4. \E x \in U : \A y \in U : ~ (<<y, x>> \in StrictSubsetOrdering(Nat))
  <2> HIDE DEF U
  <2> QED BY <1>2, <1>3, WFMin
<1>5. PICK m \in T : \A y \in U : ~ (<<y, Below(m)>> \in StrictSubsetOrdering(Nat))
  BY <1>4
<1>6. ASSUME NEW k \in T, k < m PROVE FALSE
  <2>1. Below(k) \subseteq Below(m) /\ Below(k) # Below(m)
    <3>1. k \in Below(m) /\ k \notin Below(k)
      BY <1>6
    <3> QED BY <1>6, <3>1
  <2>2. <<Below(k), Below(m)>> \in StrictSubsetOrdering(Nat)
    BY <2>1, <1>6 DEF StrictSubsetOrdering
  <2> QED BY <1>5, <2>2
<1> QED BY <1>6

(* The greatest of a bounded one. *)
LEMMA GreatestNumber ==
    ASSUME NEW T \in SUBSET Nat, T # {}, NEW b \in Nat, \A k \in T : k <= b
    PROVE  \E m \in T : \A k \in T : k <= m
<1> DEFINE Down == {b - k : k \in T}
<1>1. Down \in SUBSET Nat /\ Down # {}
  <2>1. ASSUME NEW k \in T PROVE b - k \in Nat
    OBVIOUS
  <2> QED BY <2>1
<1>2. PICK d \in Down : \A e \in Down : d <= e
  <2> HIDE DEF Down
  <2> QED BY <1>1, LeastNumber
<1>3. PICK m \in T : d = b - m
  OBVIOUS
<1>4. \A k \in T : k <= m
  <2> SUFFICES ASSUME NEW k \in T PROVE k <= m
    OBVIOUS
  <2>1. b - k \in Down
    OBVIOUS
  <2> QED BY <1>2, <1>3, <2>1
<1> QED BY <1>4

(* Induction, for a set of numbers. *)
LEMMA NumberInduction ==
    ASSUME NEW S, 0 \in S, \A n \in Nat : n \in S => n + 1 \in S
    PROVE  \A n \in Nat : n \in S
<1> DEFINE T == Nat \ S
<1> SUFFICES ASSUME T # {} PROVE FALSE
  OBVIOUS
<1>1. PICK m \in T : \A k \in T : m <= k
  BY LeastNumber
<1>2. m \in Nat /\ m \notin S /\ m # 0
  OBVIOUS
<1>3. m - 1 \in Nat /\ m - 1 \notin T
  BY <1>1, <1>2
<1> QED BY <1>2, <1>3

(* A function that goes on from its last value exists, as long as the values stay in V. *)
GoesOn(f, n, b, step) == \A k \in 0..n : f[k] = IF k = 0 THEN b ELSE step[<<k, f[k - 1]>>]

LEMMA Recursion ==
    ASSUME NEW n \in Nat, NEW V, NEW b \in V, NEW step \in [(1..n) \X V -> V]
    PROVE  \E f \in [0..n -> V] : GoesOn(f, n, b, step)
<1> DEFINE Eq(f, m) == \A k \in 0..m : f[k] = IF k = 0 THEN b ELSE step[<<k, f[k - 1]>>]
           S == {m \in Nat : m <= n => \E f \in [0..m -> V] : Eq(f, m)}
<1>1. 0 \in S
  <2> DEFINE f == [k \in 0..0 |-> b]
  <2>1. f \in [0..0 -> V] /\ Eq(f, 0)
    OBVIOUS
  <2> HIDE DEF Eq
  <2> QED BY <2>1
<1>2. ASSUME NEW m \in Nat, m \in S PROVE m + 1 \in S
  <2> SUFFICES ASSUME m + 1 <= n PROVE \E f \in [0..m + 1 -> V] : Eq(f, m + 1)
    OBVIOUS
  <2>1. PICK f \in [0..m -> V] : Eq(f, m)
    BY <1>2
  <2>2. <<m + 1, f[m]>> \in (1..n) \X V
    OBVIOUS
  <2> DEFINE g == [k \in 0..m + 1 |-> IF k <= m THEN f[k] ELSE step[<<m + 1, f[m]>>]]
  <2>3. g \in [0..m + 1 -> V]
    <3> SUFFICES ASSUME NEW k \in 0..m + 1 PROVE g[k] \in V
      OBVIOUS
    <3>1. CASE k <= m
      <4>1. k \in 0..m
        BY <3>1
      <4> QED BY <3>1, <4>1
    <3>2. CASE k = m + 1
      BY <2>2, <3>2
    <3> QED BY <3>1, <3>2
  <2>4. Eq(g, m + 1)
    <3> SUFFICES ASSUME NEW k \in 0..m + 1
                 PROVE  g[k] = IF k = 0 THEN b ELSE step[<<k, g[k - 1]>>]
      OBVIOUS
    <3>1. CASE k <= m
      <4>1. g[k] = f[k] /\ k \in 0..m /\ (k # 0 => k - 1 \in 0..m /\ g[k - 1] = f[k - 1])
        BY <3>1
      <4>2. f[k] = IF k = 0 THEN b ELSE step[<<k, f[k - 1]>>]
        BY <2>1, <4>1
      <4> HIDE DEF g
      <4> QED BY <4>1, <4>2
    <3>2. CASE k = m + 1
      <4>1. g[k] = step[<<k, f[m]>>] /\ g[k - 1] = f[m] /\ k # 0
        BY <3>2
      <4> HIDE DEF g
      <4> QED BY <4>1
    <3> QED BY <3>1, <3>2
  <2> HIDE DEF g, Eq
  <2> QED BY <2>3, <2>4
<1>3. n \in S
  <2> HIDE DEF S
  <2> QED BY <1>1, <1>2, NumberInduction
<1> QED BY <1>3 DEF GoesOn

(* A set that grows by steps among n numbers, and stops growing for good when it does not    *)
(* grow once, does not grow after n steps.                                                     *)
LEMMA Saturates ==
    ASSUME NEW n \in Nat, NEW step \in [SUBSET (1..n) -> SUBSET (1..n)],
           \A S \in SUBSET (1..n) : S \subseteq step[S],
           NEW g \in [0..n -> SUBSET (1..n)], g[0] # {},
           \A k \in 1..n : g[k] = step[g[k - 1]]
    PROVE  step[g[n]] = g[n]
<1> DEFINE Done(k) == step[g[k]] = g[k] \/ Cardinality(g[k]) >= k + 1
           S == {k \in Nat : k <= n => Done(k)}
<1>1. \A T \in SUBSET (1..n) : IsFiniteSet(T) /\ Cardinality(T) \in Nat /\ Cardinality(T) <= n
  <2>1. IsFiniteSet(1..n) /\ Cardinality(1..n) = n
    BY FS_Interval
  <2>2. ASSUME NEW T \in SUBSET (1..n)
        PROVE  IsFiniteSet(T) /\ Cardinality(T) \in Nat /\ Cardinality(T) <= n
    <3> DEFINE U == 1..n
    <3>1. IsFiniteSet(U) /\ Cardinality(U) = n /\ T \in SUBSET U
      BY <2>1
    <3>2. IsFiniteSet(T) /\ Cardinality(T) <= Cardinality(U)
      <4> HIDE DEF U
      <4> QED BY <3>1, FS_Subset
    <3> QED BY <3>1, <3>2, FS_CardinalityType
  <2> QED BY <2>2
<1>2. 0 \in S
  <2>1. g[0] \in SUBSET (1..n)
    OBVIOUS
  <2>2. Cardinality(g[0]) # 0
    BY <1>1, <2>1, FS_EmptySet
  <2> QED BY <1>1, <2>1, <2>2
<1>3. ASSUME NEW k \in Nat, k \in S PROVE k + 1 \in S
  <2> SUFFICES ASSUME k + 1 <= n PROVE Done(k + 1)
    OBVIOUS
  <2>1. /\ g[k] \in SUBSET (1..n) /\ g[k + 1] \in SUBSET (1..n)
        /\ g[k + 1] = step[g[k]] /\ g[k] \subseteq g[k + 1]
    <3>1. k \in 0..n /\ k + 1 \in 1..n /\ (k + 1) - 1 = k /\ k + 1 \in 0..n
      OBVIOUS
    <3> QED BY <3>1
  <2>2. CASE step[g[k]] = g[k]
    BY <2>1, <2>2
  <2>3. CASE step[g[k]] # g[k]
    <3>1. Cardinality(g[k]) >= k + 1
      BY <1>3, <2>3
    <3>2. Cardinality(g[k]) <= Cardinality(g[k + 1]) /\ Cardinality(g[k + 1]) # Cardinality(g[k])
      <4> HIDE DEF S, Done
      <4>1. IsFiniteSet(g[k + 1])
        BY <1>1, <2>1
      <4> QED BY <2>1, <2>3, <4>1, FS_Subset
    <3>3. Cardinality(g[k]) \in Nat /\ Cardinality(g[k + 1]) \in Nat
      BY <1>1, <2>1
    <3> QED BY <3>1, <3>2, <3>3
  <2> QED BY <2>2, <2>3
<1>4. n \in S
  <2> HIDE DEF S
  <2> QED BY <1>2, <1>3, NumberInduction
<1>5. CASE Cardinality(g[n]) >= n + 1
  <2>1. g[n] \in SUBSET (1..n)
    OBVIOUS
  <2>2. Cardinality(g[n]) \in Nat /\ Cardinality(g[n]) <= n
    BY <1>1, <2>1
  <2> QED BY <1>5, <2>2
<1> QED BY <1>4, <1>5

=============================================================================

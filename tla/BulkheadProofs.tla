--------------------------- MODULE BulkheadProofs ---------------------------
(***************************************************************************)
(* Proofs about Bulkhead.tla, for every set of callers with their weights,  *)
(* every capacity, queue bound and number of partitions created for the     *)
(* resource.  Progress, a liveness property, stays with TLC.                *)
(***************************************************************************)
EXTENDS Bulkhead, FiniteSetTheorems, WellFoundedInduction, TLAPS

-----------------------------------------------------------------------------
(* Sums.  A summand n stands for n units; the sum over a set is the number   *)
(* of its units, and cardinalities are easy to reason about.                *)
Units(f, S, m) == {p \in S \X (1..m) : p[2] <= f[p[1]]}

(* A set has finitely many units, f[x] of them for an element x, and those   *)
(* of disjoint sets add up.                                                 *)
LEMMA UnitsFacts ==
  ASSUME NEW C, IsFiniteSet(C), NEW m \in Nat, NEW f \in [C -> 0..m]
  PROVE  /\ \A S \in SUBSET C : /\ IsFiniteSet(Units(f, S, m))
                                /\ Cardinality(Units(f, S, m)) \in Nat
         /\ \A S \in SUBSET C :
              (\A x \in S : f[x] = 0) => Cardinality(Units(f, S, m)) = 0
         /\ \A x \in C : Cardinality(Units(f, {x}, m)) = f[x]
         /\ \A S, T \in SUBSET C : S \cap T = {} =>
              Cardinality(Units(f, S \cup T, m))
                = Cardinality(Units(f, S, m)) + Cardinality(Units(f, T, m))
<1> DEFINE U(S) == Units(f, S, m)
<1>1. ASSUME NEW S \in SUBSET C PROVE IsFiniteSet(U(S)) /\ Cardinality(U(S)) \in Nat
  <2>1. IsFiniteSet(S) /\ IsFiniteSet(1..m)
    BY FS_Subset, FS_Interval
  <2>2. IsFiniteSet(S \X (1..m))
    BY <2>1, FS_Product, Zenon
  <2>3. U(S) \in SUBSET (S \X (1..m))
    BY DEF Units
  <2>4. IsFiniteSet(U(S))
    BY <2>2, <2>3, FS_Subset
  <2> QED
    BY <2>4, FS_CardinalityType
<1>2. ASSUME NEW S \in SUBSET C, \A x \in S : f[x] = 0 PROVE Cardinality(U(S)) = 0
  <2>1. U(S) = {}
    BY <1>2 DEF Units
  <2> QED
    BY <2>1, FS_EmptySet
<1>3. ASSUME NEW x \in C PROVE Cardinality(U({x})) = f[x]
  <2> DEFINE V == {x} \X (1..f[x])
  <2>1. f[x] \in Nat /\ IsFiniteSet(1..f[x]) /\ Cardinality(1..f[x]) = f[x]
    BY FS_Interval
  <2>2. IsFiniteSet({x}) /\ Cardinality({x}) = 1
    BY FS_Singleton, Zenon
  <2>3. Cardinality(V) = Cardinality({x}) * Cardinality(1..f[x])
    BY <2>1, <2>2, FS_Product, Zenon
  <2>4. U({x}) = V
    BY DEF Units
  <2> HIDE DEF U, V
  <2> QED
    BY <2>1, <2>2, <2>3, <2>4
<1>4. ASSUME NEW S \in SUBSET C, NEW T \in SUBSET C, S \cap T = {}
      PROVE  Cardinality(U(S \cup T)) = Cardinality(U(S)) + Cardinality(U(T))
  <2>1. U(S \cup T) = U(S) \cup U(T)
    BY DEF Units
  <2>2. U(S) \cap U(T) = {}
    BY <1>4 DEF Units
  <2> HIDE DEF U
  <2>3. Cardinality(U(S) \cap U(T)) = 0
    BY <2>2, FS_EmptySet
  <2>4. Cardinality(U(S) \cup U(T))
          = Cardinality(U(S)) + Cardinality(U(T)) - Cardinality(U(S) \cap U(T))
    BY <1>1, FS_Union
  <2>5. \A a, b \in Nat : a + b - 0 = a + b
    OBVIOUS
  <2>6. Cardinality(U(S)) + Cardinality(U(T)) - 0 = Cardinality(U(S)) + Cardinality(U(T))
    BY ONLY <1>1, <2>5
  <2> QED
    BY <2>1, <2>3, <2>4, <2>6, Zenon
<1> QED
  BY <1>1, <1>2, <1>3, <1>4, Zenon

(* The recursion of MapThenSumSet has a solution, the number of units, and,  *)
(* by induction along strict inclusion, no other.                           *)
LEMMA TotalIsUnits ==
  ASSUME NEW C, IsFiniteSet(C), NEW m \in Nat, NEW f \in [C -> 0..m], NEW S \in SUBSET C
  PROVE  Total(f, S) = Cardinality(Units(f, S, m))
<1> DEFINE pick(s) == CHOOSE x \in s : TRUE
           Body(h) == [s \in SUBSET S |-> IF s = {} THEN 0
                                          ELSE LET x == CHOOSE x \in s : TRUE
                                               IN f[x] + h[s \ {x}]]
           g == [s \in SUBSET S |-> Cardinality(Units(f, s, m))]
           sum == CHOOSE h : h = Body(h)
<1>1. ASSUME NEW s \in SUBSET S, s # {}
      PROVE  /\ pick(s) \in s /\ s \ {pick(s)} \in SUBSET S
             /\ g[s] = f[pick(s)] + g[s \ {pick(s)}]
  <2>1. pick(s) \in s
    BY <1>1
  <2> HIDE DEF pick
  <2>2. /\ s \ {pick(s)} \in SUBSET S /\ s \ {pick(s)} \in SUBSET C
        /\ {pick(s)} \in SUBSET C /\ pick(s) \in C
        /\ {pick(s)} \cap (s \ {pick(s)}) = {}
        /\ {pick(s)} \cup (s \ {pick(s)}) = s
    BY <2>1
  <2>3. Cardinality(Units(f, s, m)) = Cardinality(Units(f, {pick(s)}, m))
                                        + Cardinality(Units(f, s \ {pick(s)}, m))
    BY <2>2, UnitsFacts
  <2>4. Cardinality(Units(f, {pick(s)}, m)) = f[pick(s)]
    BY <2>2, UnitsFacts
  <2> QED
    BY <2>1, <2>2, <2>3, <2>4
<1>2. g[{}] = 0
  BY UnitsFacts
<1>3. g = Body(g)
  <2>1. ASSUME NEW s \in SUBSET S PROVE g[s] = Body(g)[s]
    <3> HIDE DEF g
    <3> QED
      BY <1>1, <1>2, Zenon
  <2> QED
    BY <2>1, Zenon
<1>4. sum = Body(sum)
  BY <1>3, Zenon
<1>5. Total(f, S) = sum[S]
  BY DEF Total, MapThenSumSet, MapThenFoldSet
<1> HIDE DEF g, sum
<1>6. ASSUME NEW s \in SUBSET S
      PROVE  sum[s] = IF s = {} THEN 0 ELSE f[pick(s)] + sum[s \ {pick(s)}]
  BY <1>4
<1> HIDE DEF pick, Body
<1>7. sum[S] = g[S]
  <2> DEFINE bad == {s \in SUBSET S : sum[s] # g[s]}
  <2> SUFFICES ASSUME bad # {} PROVE FALSE
    OBVIOUS
  <2>1. bad \subseteq SUBSET S /\ IsFiniteSet(S)
    BY FS_Subset
  <2>2. /\ IsWellFoundedOn(StrictSubsetOrdering(S), FiniteSubsetsOf(S))
        /\ FiniteSubsetsOf(S) = SUBSET S
    BY <2>1, FS_StrictSubsetOrderingWellFounded, FS_FiniteSubsetsOfFinite
  <2>3. PICK s \in bad : \A r \in bad : ~(<<r, s>> \in StrictSubsetOrdering(S))
    <3> HIDE DEF bad
    <3> QED
      BY <2>1, <2>2, WFMin
  <2>4. s # {}
    BY <1>2, <1>6, <2>3, Zenon
  <2>5. pick(s) \in s /\ s \ {pick(s)} \in SUBSET S
    BY <1>1, <2>3, <2>4
  <2>6. <<s \ {pick(s)}, s>> \in StrictSubsetOrdering(S)
    BY <2>3, <2>5 DEF StrictSubsetOrdering
  <2>7. sum[s \ {pick(s)}] = g[s \ {pick(s)}]
    BY <2>3, <2>5, <2>6
  <2> QED
    BY <1>1, <1>6, <2>3, <2>4, <2>7
<1>8. g[S] = Cardinality(Units(f, S, m))
  BY DEF g
<1> QED
  BY <1>5, <1>7, <1>8

(* Sums over the callers and over the partitions. *)
LEMMA TotalFacts ==
  ASSUME NEW C, IsFiniteSet(C), NEW m \in Nat, NEW f \in [C -> 0..m]
  PROVE  /\ \A S \in SUBSET C : Total(f, S) \in Nat
         /\ \A S \in SUBSET C : (\A x \in S : f[x] = 0) => Total(f, S) = 0
         /\ \A x \in C : Total(f, {x}) = f[x]
         /\ \A S, T \in SUBSET C : S \cap T = {} =>
              Total(f, S \cup T) = Total(f, S) + Total(f, T)
<1>1. \A S \in SUBSET C : Total(f, S) = Cardinality(Units(f, S, m))
  BY TotalIsUnits
<1>2. \A x \in C : {x} \in SUBSET C
  OBVIOUS
<1>3. \A S, T \in SUBSET C : S \cup T \in SUBSET C
  OBVIOUS
<1>4. \A S \in SUBSET C : Total(f, S) \in Nat
  BY <1>1, UnitsFacts
<1>5. \A S \in SUBSET C : (\A x \in S : f[x] = 0) => Total(f, S) = 0
  BY <1>1, UnitsFacts
<1>6. ASSUME NEW x \in C PROVE Total(f, {x}) = f[x]
  <2>1. Total(f, {x}) = Cardinality(Units(f, {x}, m))
    BY <1>1, <1>2
  <2>2. Cardinality(Units(f, {x}, m)) = f[x]
    BY UnitsFacts
  <2> QED
    BY <2>1, <2>2
<1>7. ASSUME NEW S \in SUBSET C, NEW T \in SUBSET C, S \cap T = {}
      PROVE  Total(f, S \cup T) = Total(f, S) + Total(f, T)
  <2>1. Cardinality(Units(f, S \cup T, m))
          = Cardinality(Units(f, S, m)) + Cardinality(Units(f, T, m))
    BY <1>7, UnitsFacts
  <2> QED
    BY <1>1, <1>3, <2>1
<1> QED
  BY <1>4, <1>5, <1>6, <1>7

LEMMA LoadFacts ==
  /\ \A S \in SUBSET Callers : Total(Weight, S) \in Nat
  /\ Total(Weight, {}) = 0
  /\ \A x \in Callers : Total(Weight, {x}) = Weight[x] /\ Weight[x] \in 1..Capacity
  /\ \A S, T \in SUBSET Callers : S \cap T = {} =>
       Total(Weight, S \cup T) = Total(Weight, S) + Total(Weight, T)
<1>1. IsFiniteSet(Callers) /\ Capacity \in Nat /\ Weight \in [Callers -> 0..Capacity]
      /\ Weight \in [Callers -> 1..Capacity]
  BY ConfigAssumption, WeightAssumption
<1> QED
  BY <1>1, TotalFacts

(* One caller more, and a part of a set. *)
LEMMA LoadAdd ==
  ASSUME NEW S \in SUBSET Callers, NEW x \in Callers, x \notin S
  PROVE  /\ Total(Weight, S) \in Nat /\ Total(Weight, S \cup {x}) \in Nat
         /\ Weight[x] \in 1..Capacity
         /\ Total(Weight, S \cup {x}) = Total(Weight, S) + Weight[x]
<1>1. {x} \in SUBSET Callers /\ S \cap {x} = {} /\ S \cup {x} \in SUBSET Callers
  OBVIOUS
<1> QED
  BY <1>1, LoadFacts, Zenon

LEMMA LoadPart ==
  ASSUME NEW S \in SUBSET Callers, NEW T \in SUBSET S
  PROVE  /\ Total(Weight, S) \in Nat /\ Total(Weight, T) \in Nat
         /\ Total(Weight, T) <= Total(Weight, S)
<1>1. /\ T \in SUBSET Callers /\ S \ T \in SUBSET Callers
      /\ T \cap (S \ T) = {} /\ T \cup (S \ T) = S
  OBVIOUS
<1>2. Total(Weight, S) = Total(Weight, T) + Total(Weight, S \ T)
  BY <1>1, LoadFacts
<1>3. Total(Weight, T) \in Nat /\ Total(Weight, S \ T) \in Nat
  BY <1>1, LoadFacts
<1> QED
  BY <1>2, <1>3

-----------------------------------------------------------------------------
(* Taking members out of a list.  The place of an index among the kept ones  *)
(* numbers them in their order, without a gap.                              *)
LEMMA PlaceFacts ==
  ASSUME NEW n \in Nat, NEW K \in SUBSET (1..n)
  PROVE  /\ Cardinality(K) \in 0..n
         /\ K # 1..n => Cardinality(K) < n
         /\ \A i \in K : Place(K, i) \in 1..Cardinality(K)
         /\ \A i, j \in K : i < j => Place(K, i) < Place(K, j)
         /\ \A k \in 1..Cardinality(K) : \E i \in K : Place(K, i) = k
<1> DEFINE Low(i) == {h \in K : h <= i}
<1>1. /\ IsFiniteSet(1..n) /\ Cardinality(1..n) = n /\ IsFiniteSet(K)
      /\ Cardinality(K) <= n /\ Cardinality(K) \in Nat
      /\ Cardinality(1..n) = Cardinality(K) => 1..n = K
  <2>1. IsFiniteSet(1..n) /\ Cardinality(1..n) = n
    BY FS_Interval
  <2>2. /\ IsFiniteSet(K) /\ Cardinality(K) <= Cardinality(1..n)
        /\ Cardinality(1..n) = Cardinality(K) => 1..n = K
    BY <2>1, FS_Subset, Zenon
  <2>3. Cardinality(K) \in Nat
    BY <2>2, FS_CardinalityType
  <2> QED
    BY <2>1, <2>2, <2>3
<1>2. ASSUME NEW i \in K
      PROVE  IsFiniteSet(Low(i)) /\ Cardinality(Low(i)) \in 1..Cardinality(K)
  <2>1. Low(i) \in SUBSET K /\ i \in Low(i)
    OBVIOUS
  <2> HIDE DEF Low
  <2>2. IsFiniteSet(Low(i)) /\ Cardinality(Low(i)) <= Cardinality(K)
    BY <1>1, <2>1, FS_Subset
  <2>3. Cardinality(Low(i)) \in Nat /\ Cardinality(Low(i)) # 0
    BY <2>1, <2>2, FS_CardinalityType, FS_EmptySet
  <2> QED
    BY <1>1, <2>2, <2>3
<1>3. ASSUME NEW i \in K, NEW j \in K, i < j
      PROVE  Cardinality(Low(i)) < Cardinality(Low(j))
  <2>1. Low(i) \in SUBSET Low(j) /\ j \in Low(j) /\ j \notin Low(i)
    <3>1. i \in Nat /\ j \in Nat /\ \A h \in K : h \in Nat
      OBVIOUS
    <3>2. ASSUME NEW h \in K, h <= i PROVE h <= j
      BY <1>3, <3>1, <3>2
    <3>3. j <= j /\ ~(j <= i)
      BY <1>3, <3>1
    <3> QED
      BY <3>2, <3>3, Zenon
  <2> HIDE DEF Low
  <2>2. /\ Cardinality(Low(i)) <= Cardinality(Low(j))
        /\ Cardinality(Low(j)) = Cardinality(Low(i)) => Low(j) = Low(i)
    BY <1>2, <2>1, FS_Subset
  <2> QED
    BY <1>1, <1>2, <2>1, <2>2
<1>4. ASSUME NEW k \in 1..Cardinality(K) PROVE \E i \in K : Cardinality(Low(i)) = k
  <2> DEFINE f == [i \in K |-> Cardinality(Low(i))]
             N == 1..Cardinality(K)
  <2>1. f \in [K -> N]
    BY <1>2
  <2>2. \A i, j \in K : f[i] = f[j] => i = j
    <3> SUFFICES ASSUME NEW i \in K, NEW j \in K, i # j PROVE f[i] # f[j]
      OBVIOUS
    <3>1. i < j \/ j < i
      OBVIOUS
    <3>2. f[i] = Cardinality(Low(i)) /\ f[j] = Cardinality(Low(j))
      OBVIOUS
    <3>3. f[i] \in Nat /\ f[j] \in Nat
      BY <2>1
    <3> HIDE DEF f, Low
    <3>4. f[i] < f[j] \/ f[j] < f[i]
      BY <1>3, <3>1, <3>2
    <3> QED
      BY <3>3, <3>4
  <2>3. f \in Injection(K, N)
    BY <2>1, <2>2, Zenon DEF Injection, IsInjective
  <2>4. IsFiniteSet(N) /\ Cardinality(N) = Cardinality(K)
    BY <1>1, FS_Interval
  <2> HIDE DEF f, N
  <2>5. f \in Surjection(K, N)
    BY <2>3, <2>4, FS_Injection
  <2>6. PICK i \in K : f[i] = k
    BY <2>5 DEF Surjection, N
  <2> QED
    BY <2>6 DEF f
<1>5. \A i : Place(K, i) = Cardinality(Low(i))
  BY DEF Place
<1> HIDE DEF Low
<1>6. Cardinality(K) \in 0..n /\ (K # 1..n => Cardinality(K) < n)
  BY <1>1
<1> QED
  BY <1>2, <1>3, <1>4, <1>5, <1>6

(* What is left of a list: the members that were not taken out, each as      *)
(* often as before and in the same order.                                   *)
LEMMA WithoutFacts ==
  ASSUME NEW q \in Seq(Callers), NEW S, NEW r, r = Without(q, S)
  PROVE  /\ r \in Seq(Callers) /\ Len(r) <= Len(q)
         /\ \A k \in DOMAIN r : r[k] \notin S /\ \E i \in DOMAIN q : r[k] = q[i]
         /\ \A i, j \in DOMAIN q : i < j /\ q[i] \notin S /\ q[j] \notin S =>
              \E h, k \in DOMAIN r : h < k /\ r[h] = q[i] /\ r[k] = q[j]
         /\ \A i \in DOMAIN q : q[i] \notin S => \E k \in DOMAIN r : r[k] = q[i]
         /\ (\A i, j \in DOMAIN q : q[i] = q[j] => i = j) =>
              \A h, k \in DOMAIN r : r[h] = r[k] => h = k
         /\ r # <<>> => \E i \in DOMAIN q :
              r[1] = q[i] /\ \A h \in 1..i : h # i => q[h] \in S
<1> DEFINE n == Len(q)
           K == {i \in DOMAIN q : q[i] \notin S}
           N == Cardinality(K)
           pos(k) == CHOOSE i \in K : Place(K, i) = k
<1>1. n \in Nat /\ DOMAIN q = 1..n /\ K \in SUBSET (1..n) /\ \A i \in 1..n : q[i] \in Callers
  OBVIOUS
<1>2. r = [k \in 1..N |-> q[pos(k)]]
  BY DEF Without
<1>3. \A i \in 1..n : i \in K <=> q[i] \notin S
  BY <1>1
<1> HIDE DEF K, n
<1>4. /\ N \in 0..n
      /\ \A i \in K : Place(K, i) \in 1..N
      /\ \A i, j \in K : i < j => Place(K, i) < Place(K, j)
      /\ \A k \in 1..N : \E i \in K : Place(K, i) = k
  BY <1>1, PlaceFacts
<1> HIDE DEF N
<1>5. ASSUME NEW k \in 1..N PROVE pos(k) \in K /\ Place(K, pos(k)) = k
  BY <1>4
<1> HIDE DEF pos
<1>6. ASSUME NEW i \in K PROVE Place(K, i) \in 1..N /\ pos(Place(K, i)) = i
  <2> DEFINE j == pos(Place(K, i))
  <2>1. Place(K, i) \in 1..N /\ j \in K /\ Place(K, j) = Place(K, i)
    BY <1>4, <1>5
  <2> HIDE DEF j
  <2>2. i \in Nat /\ j \in Nat
    BY <1>1, <2>1
  <2>3. ~(i < j) /\ ~(j < i)
    BY <1>4, <2>1
  <2>4. j = i
    BY <2>2, <2>3
  <2> QED
    BY <2>1, <2>4 DEF j
<1>7. /\ N \in Nat /\ N <= n /\ DOMAIN r = 1..N
      /\ \A k \in 1..N : pos(k) \in 1..n /\ r[k] = q[pos(k)]
  <2>1. N \in Nat /\ N <= n
    BY <1>1, <1>4
  <2>2. \A k \in 1..N : pos(k) \in 1..n
    BY <1>1, <1>5, Zenon
  <2>3. DOMAIN r = 1..N /\ \A k \in 1..N : r[k] = q[pos(k)]
    BY <1>2, Zenon
  <2> QED
    BY <2>1, <2>2, <2>3
<1>8. r \in Seq(Callers) /\ Len(r) = N
  <2>1. \A k \in 1..N : r[k] \in Callers
    BY <1>1, <1>7
  <2> QED
    BY <1>2, <1>7, <2>1
<1>9. Len(r) <= Len(q)
  BY <1>7, <1>8 DEF n
<1>10. \A k \in DOMAIN r : r[k] \notin S /\ \E i \in DOMAIN q : r[k] = q[i]
  BY <1>1, <1>3, <1>5, <1>7
<1>11. ASSUME NEW i \in DOMAIN q, q[i] \notin S
       PROVE  Place(K, i) \in DOMAIN r /\ r[Place(K, i)] = q[i]
  BY <1>1, <1>3, <1>6, <1>7, <1>11
<1>12. ASSUME NEW i \in DOMAIN q, NEW j \in DOMAIN q, i < j, q[i] \notin S, q[j] \notin S
       PROVE  \E h, k \in DOMAIN r : h < k /\ r[h] = q[i] /\ r[k] = q[j]
  <2>1. Place(K, i) < Place(K, j)
    BY <1>1, <1>3, <1>4, <1>12
  <2> QED
    BY <1>11, <1>12, <2>1
<1>13. ASSUME \A i, j \in DOMAIN q : q[i] = q[j] => i = j,
              NEW h \in DOMAIN r, NEW k \in DOMAIN r, r[h] = r[k]
       PROVE  h = k
  <2>1. pos(h) = pos(k)
    BY <1>1, <1>7, <1>13
  <2> QED
    BY <1>5, <1>7, <2>1
<1>14. ASSUME r # <<>>
       PROVE  \E i \in DOMAIN q : r[1] = q[i] /\ \A h \in 1..i : h # i => q[h] \in S
  <2>1. 1 \in 1..N
    BY <1>7, <1>8, <1>14
  <2>2. pos(1) \in K /\ Place(K, pos(1)) = 1 /\ pos(1) \in 1..n /\ r[1] = q[pos(1)]
    BY <1>5, <1>7, <2>1
  <2>3. ASSUME NEW h \in 1..pos(1), h # pos(1) PROVE q[h] \in S
    <3>1. h \in 1..n /\ h < pos(1)
      BY <1>1, <2>2, <2>3
    <3>2. h \notin K
      BY <1>4, <1>7, <2>2, <3>1
    <3> QED
      BY <1>3, <3>1, <3>2
  <2> QED
    BY <1>1, <2>2, <2>3
<1> QED
  BY <1>8, <1>9, <1>10, <1>11, <1>12, <1>13, <1>14

LEMMA Largest ==
  ASSUME NEW n \in Nat, NEW G \in SUBSET (1..n), G # {}
  PROVE  \E k \in G : \A i \in G : i <= k
<1>1. /\ \A i \in G : Place(G, i) \in 1..Cardinality(G)
      /\ \A i, j \in G : i < j => Place(G, i) < Place(G, j)
      /\ \A k \in 1..Cardinality(G) : \E i \in G : Place(G, i) = k
      /\ Cardinality(G) \in 0..n
  BY PlaceFacts
<1>2. Cardinality(G) \in 1..Cardinality(G)
  <2>1. PICK i \in G : TRUE
    BY Zenon
  <2>2. Place(G, i) \in 1..Cardinality(G) /\ Cardinality(G) \in Nat
    BY <1>1
  <2> QED
    BY <2>2
<1>3. PICK k \in G : Place(G, k) = Cardinality(G)
  BY <1>1, <1>2
<1>4. ASSUME NEW i \in G PROVE i <= k
  <2>1. ~(k < i)
    BY <1>1, <1>3
  <2> QED
    BY <2>1
<1> QED
  BY <1>4

-----------------------------------------------------------------------------
(* What grantWaitersLocked grants on a list of distinct waiters: some of     *)
(* those that are neither done nor overdue, none behind one that it leaves   *)
(* waiting, never more than fits, and no fewer: a head left behind does not  *)
(* fit any more.                                                            *)
LEMMA GrantFacts ==
  ASSUME NEW q \in Seq(Callers), \A i, j \in DOMAIN q : q[i] = q[j] => i = j,
         NEW a \in 0..Capacity, NEW overdue,
         NEW granted, granted = Granted(q, a, overdue)
  PROVE  /\ granted \in SUBSET Live(overdue) /\ granted \in SUBSET Callers
         /\ \A x \in granted : \E i \in DOMAIN q : q[i] = x
         /\ \A i, j \in DOMAIN q :
              i < j /\ q[j] \in granted /\ q[i] \in Live(overdue) => q[i] \in granted
         /\ a + Total(Weight, granted) \in 0..Capacity
         /\ \A i \in DOMAIN q :
              /\ q[i] \in Live(overdue) \ granted
              /\ \A h \in 1..i : h # i => q[h] \in granted
              => ~TryAcquire(a + Total(Weight, granted), Weight[q[i]])
<1> DEFINE n == Len(q)
           live == Live(overdue)
           L(i) == UpTo(q, i) \cap live
<1>1. /\ n \in Nat /\ DOMAIN q = 1..n /\ \A i \in 1..n : q[i] \in Callers
      /\ live \in SUBSET Callers /\ Capacity \in Nat /\ a \in Nat
  BY ConfigAssumption DEF Live
<1>2. \A i, j \in 1..n : q[i] = q[j] => i = j
  BY <1>1
<1>3. granted = {x \in live : \E i \in 1..n : q[i] = x /\ TryAcquire(a, Total(Weight, L(i)))}
  BY <1>1 DEF Granted
<1>4. \A i, x : x \in L(i) <=> x \in live /\ \E h \in 1..i : q[h] = x
  BY DEF UpTo
<1> HIDE DEF n, live, L
<1>5. granted \in SUBSET live /\ granted \in SUBSET Callers
  BY <1>1, <1>3
<1>6. \A x \in granted : \E i \in 1..n : q[i] = x
  BY <1>3
<1>7. ASSUME NEW i \in 1..n
      PROVE  /\ Total(Weight, L(i)) \in Nat /\ L(i) \in SUBSET Callers
             /\ q[i] \in granted <=> q[i] \in live /\ a + Total(Weight, L(i)) <= Capacity
  <2>1. L(i) \in SUBSET Callers
    BY <1>1, <1>4
  <2>2. q[i] \in granted <=> q[i] \in live /\ TryAcquire(a, Total(Weight, L(i)))
    BY <1>2, <1>3
  <2> QED
    BY <2>1, <2>2, LoadFacts DEF TryAcquire
<1>8. ASSUME NEW i \in 1..n, NEW j \in 1..n, i < j, q[j] \in granted, q[i] \in live
      PROVE  q[i] \in granted
  <2>1. L(i) \in SUBSET L(j)
    <3>1. \A h \in 1..i : h \in 1..j
      BY <1>1, <1>8
    <3> QED
      BY <1>4, <3>1
  <2>2. /\ Total(Weight, L(i)) \in Nat /\ Total(Weight, L(j)) \in Nat
        /\ Total(Weight, L(i)) <= Total(Weight, L(j))
    BY <1>7, <2>1, LoadPart
  <2>3. a + Total(Weight, L(j)) <= Capacity
    BY <1>7, <1>8
  <2>4. a + Total(Weight, L(i)) <= Capacity
    BY ONLY <1>1, <2>2, <2>3
  <2> QED
    BY <1>7, <1>8, <2>4
<1>9. Total(Weight, granted) \in Nat /\ a + Total(Weight, granted) <= Capacity
  <2>1. CASE granted = {}
    BY <1>1, <2>1, LoadFacts
  <2>2. CASE granted # {}
    <3> DEFINE G == {i \in 1..n : q[i] \in granted}
    <3>1. G \in SUBSET (1..n) /\ G # {}
      BY <1>6, <2>2
    <3>2. PICK k \in G : \A i \in G : i <= k
      <4> HIDE DEF G
      <4> QED
        BY <1>1, <3>1, Largest, Zenon
    <3>3. k \in 1..n /\ q[k] \in granted
      BY <3>2
    <3>4. granted = L(k)
      <4>1. ASSUME NEW x \in granted PROVE x \in L(k)
        <5>1. PICK i \in 1..n : q[i] = x
          BY <1>6, <4>1
        <5>2. i \in 1..k
          BY <1>1, <3>2, <3>3, <5>1
        <5> QED
          BY <1>4, <1>5, <5>1, <5>2
      <4>2. ASSUME NEW x \in L(k) PROVE x \in granted
        <5>1. PICK h \in 1..k : q[h] = x
          BY <1>4
        <5>2. h \in 1..n /\ (h = k \/ h < k) /\ x \in live
          BY <1>1, <1>4, <3>3, <5>1
        <5> QED
          BY <1>8, <3>3, <5>1, <5>2
      <4> QED
        BY <4>1, <4>2
    <3> QED
      BY <1>7, <3>3, <3>4
  <2> QED
    BY <2>1, <2>2
<1>10. ASSUME NEW i \in 1..n, q[i] \in live \ granted,
              \A h \in 1..i : h # i => q[h] \in granted
       PROVE  ~TryAcquire(a + Total(Weight, granted), Weight[q[i]])
  <2>1. L(i) = granted \cup {q[i]}
    <3>1. ASSUME NEW x \in L(i) PROVE x \in granted \cup {q[i]}
      BY <1>4, <1>10, <3>1
    <3>2. ASSUME NEW x \in granted PROVE x \in L(i)
      <4>1. PICK j \in 1..n : q[j] = x
        BY <1>6
      <4>2. ~(i < j)
        BY <1>8, <1>10, <4>1
      <4>3. j \in 1..i
        BY <1>1, <4>2
      <4> QED
        BY <1>4, <1>5, <4>1, <4>3
    <3>3. q[i] \in L(i)
      BY <1>1, <1>4, <1>10
    <3> QED
      BY <3>1, <3>2, <3>3
  <2>2. /\ Total(Weight, L(i)) = Total(Weight, granted) + Weight[q[i]]
        /\ Weight[q[i]] \in Nat
    BY <1>1, <1>5, <1>10, <2>1, LoadAdd
  <2>3. ~(a + Total(Weight, L(i)) <= Capacity)
    BY <1>7, <1>10
  <2>4. ~((a + Total(Weight, granted)) + Weight[q[i]] <= Capacity)
    BY <1>1, <1>9, <2>2, <2>3
  <2> QED
    BY <2>4 DEF TryAcquire
<1>11. a + Total(Weight, granted) \in 0..Capacity
  BY <1>1, <1>9
<1> QED
  BY <1>1, <1>5, <1>6, <1>8, <1>10, <1>11 DEF live

(* What a section under the mutex does to the waiters of its partition: it   *)
(* grants g and times out l.                                                *)
Decides(q, a, g, l) ==
  /\ \A x \in g \cup l : verdict[x] = "none" /\ \E i \in DOMAIN q : q[i] = x
  /\ g \cap l = {}
  /\ a + Total(Weight, g) \in 0..Capacity
  /\ \A i \in DOMAIN q :
       /\ q[i] \notin g \cup l /\ verdict[q[i]] = "none"
       /\ \A h \in 1..i : h # i => q[h] \in g
       => ~TryAcquire(a + Total(Weight, g), Weight[q[i]])
  /\ \A i, j \in DOMAIN q :
       i < j /\ q[j] \in g => q[i] \in g \cup l \/ verdict[q[i]] # "none"

Writes(b, c, q, a, g, l) ==
  /\ queue' = [queue EXCEPT ![b] = Without(q, g)]
  /\ active' = [active EXCEPT ![b] = a + Total(Weight, g)]
  /\ verdict' = [x \in Callers |-> IF x \in g THEN "granted"
                                   ELSE IF x \in l THEN "timeout"
                                   ELSE IF x = c THEN "none" ELSE verdict[x]]
  /\ drained' = [drained EXCEPT ![b] =
                    @ \/ (draining[b] /\ active'[b] = 0 /\ queue'[b] = <<>>)]
  /\ UNCHANGED draining

LEMMA SectionFacts ==
  ASSUME NEW b \in Partitions, NEW c \in Callers, NEW q \in Seq(Callers),
         \A i, j \in DOMAIN q : q[i] = q[j] => i = j,
         NEW a \in 0..Capacity, NEW overdue \in SUBSET Callers,
         GrantWaiters(b, c, q, a, overdue),
         draining[b] => \A i \in DOMAIN q : verdict[q[i]] # "none"
  PROVE  \E g, l \in SUBSET Callers : Decides(q, a, g, l) /\ Writes(b, c, q, a, g, l)
<1> DEFINE g == IF draining[b] THEN {} ELSE Granted(q, a, overdue)
           l == IF draining[b] THEN {} ELSE TimedOut(q, overdue, g)
<1>1. Writes(b, c, q, a, g, l)
  <2>1. PICK granted \in {g} :
             \E late \in {IF draining[b] THEN {} ELSE TimedOut(q, overdue, granted)} :
                Writes(b, c, q, a, granted, late)
    BY Zenon DEF GrantWaiters, Writes
  <2>2. granted = g
    BY <2>1, Zenon
  <2> QED
    BY <2>1, <2>2, Zenon
<1>2. Len(q) \in Nat /\ DOMAIN q = 1..Len(q) /\ \A i \in 1..Len(q) : q[i] \in Callers
  OBVIOUS
<1>3. CASE draining[b]
  <2>1. g = {} /\ l = {}
    BY <1>3
  <2> HIDE DEF g, l
  <2>2. a + Total(Weight, g) \in 0..Capacity
    BY <2>1, LoadFacts
  <2>3. Decides(q, a, g, l) /\ g \in SUBSET Callers /\ l \in SUBSET Callers
    BY <1>3, <2>1, <2>2 DEF Decides
  <2> QED
    BY <1>1, <2>3, Zenon
<1>4. CASE ~draining[b]
  <2>1. g = Granted(q, a, overdue) /\ l = TimedOut(q, overdue, g)
    BY <1>4
  <2> HIDE DEF g, l
  <2>2. /\ g \in SUBSET Live(overdue) /\ g \in SUBSET Callers
        /\ \A x \in g : \E i \in DOMAIN q : q[i] = x
        /\ \A i, j \in DOMAIN q :
             i < j /\ q[j] \in g /\ q[i] \in Live(overdue) => q[i] \in g
        /\ a + Total(Weight, g) \in 0..Capacity
        /\ \A i \in DOMAIN q :
             /\ q[i] \in Live(overdue) \ g
             /\ \A h \in 1..i : h # i => q[h] \in g
             => ~TryAcquire(a + Total(Weight, g), Weight[q[i]])
    BY <2>1, GrantFacts
  <2>3. \A x \in Callers : x \in Live(overdue) <=> verdict[x] = "none" /\ x \notin overdue
    BY DEF Live
  <2>4. ASSUME NEW i \in DOMAIN q, q[i] \in overdue, verdict[q[i]] = "none",
               \A h \in 1..i : q[h] \in overdue \cup g \/ verdict[q[h]] # "none"
        PROVE  q[i] \in l
    BY <2>1, <2>4 DEF TimedOut, UpTo
  <2>5. \A x \in l : x \in overdue /\ verdict[x] = "none" /\ \E i \in DOMAIN q : q[i] = x
    BY <2>1 DEF TimedOut
  <2>6. l \in SUBSET Callers /\ g \cap l = {}
    BY <2>2, <2>3, <2>5
  <2>7. \A x \in g \cup l : verdict[x] = "none" /\ \E i \in DOMAIN q : q[i] = x
    BY <2>2, <2>3, <2>5
  <2>8. ASSUME NEW i \in DOMAIN q, q[i] \notin g \cup l, verdict[q[i]] = "none",
               \A h \in 1..i : h # i => q[h] \in g
        PROVE  ~TryAcquire(a + Total(Weight, g), Weight[q[i]])
    <3>1. q[i] \notin overdue
      <4> SUFFICES ASSUME q[i] \in overdue PROVE FALSE
        OBVIOUS
      <4>1. \A h \in 1..i : q[h] \in overdue \cup g
        BY <2>8
      <4> QED
        BY <2>4, <2>8, <4>1
    <3>2. q[i] \in Live(overdue) \ g
      BY <1>2, <2>3, <2>8, <3>1
    <3> QED
      BY <2>2, <2>8, <3>2
  <2>9. ASSUME NEW i \in DOMAIN q, NEW j \in DOMAIN q, i < j, q[j] \in g
        PROVE  q[i] \in g \cup l \/ verdict[q[i]] # "none"
    <3>1. ASSUME NEW h \in 1..i
          PROVE  q[h] \in overdue \cup g \/ verdict[q[h]] # "none"
      <4>1. h \in DOMAIN q /\ h < j /\ q[h] \in Callers
        BY <1>2, <2>9
      <4> QED
        BY <2>2, <2>3, <2>9, <4>1
    <3>2. i \in 1..i
      BY <1>2
    <3> QED
      BY <2>4, <3>1, <3>2
  <2>10. Decides(q, a, g, l)
    BY <2>2, <2>6, <2>7, <2>8, <2>9 DEF Decides
  <2> QED
    BY <1>1, <2>2, <2>6, <2>10, Zenon
<1> QED
  BY <1>3, <1>4

(* Whoever waits or holds a permit does so at the registered partition. *)
LEMMA Registered ==
  ASSUME BulkheadInv, NEW c \in Callers, pc[c] # "idle"
  PROVE  at[c] = registry /\ at[c] \in Partitions
<1>1. /\ at[c] \in Partitions /\ pc[c] \in {"idle", "waiting", "holding"}
      /\ WaiterInv(c) /\ PartitionInv(at[c])
  BY DEF BulkheadInv, TypeOK
<1>2. CASE pc[c] = "waiting" /\ verdict[c] # "granted"
  <2>1. queue[at[c]] # <<>>
    BY <1>1, <1>2 DEF WaiterInv
  <2> QED
    BY <1>1, <2>1 DEF PartitionInv
<1>3. CASE pc[c] = "holding" \/ verdict[c] = "granted"
  <2>1. c \in Permits(at[c]) /\ Permits(at[c]) \in SUBSET Callers
    BY <1>3 DEF Permits
  <2>2. {c} \in SUBSET Permits(at[c])
    BY <2>1
  <2>3. /\ Total(Weight, {c}) \in Nat /\ Total(Weight, Permits(at[c])) \in Nat
        /\ Total(Weight, {c}) <= Total(Weight, Permits(at[c]))
    BY <2>1, <2>2, LoadPart
  <2>4. Total(Weight, {c}) = Weight[c] /\ Weight[c] \in 1..Capacity
    BY LoadFacts
  <2>5. Total(Weight, Permits(at[c])) # 0
    BY <2>3, <2>4, ConfigAssumption
  <2> QED
    BY <1>1, <2>5 DEF PartitionInv
<1> QED
  BY <1>1, <1>2, <1>3

(* The list a section works on: the one of the partition, without c. *)
Rest(q, p, c) ==
  /\ q \in Seq(Callers) /\ Len(q) <= MaxQueued
  /\ \A i, j \in DOMAIN q : q[i] = q[j] => i = j
  /\ \A i \in DOMAIN q : q[i] # c /\ \E j \in DOMAIN p : p[j] = q[i]
  /\ \A j \in DOMAIN p : p[j] # c => \E i \in DOMAIN q : q[i] = p[j]
  /\ \A i, j \in DOMAIN p : i < j /\ p[i] # c /\ p[j] # c =>
       \E h, k \in DOMAIN q : h < k /\ q[h] = p[i] /\ q[k] = p[j]

(* NoLostGrant, for one partition: its list q, the verdicts v, the weight a. *)
NothingOwed(q, v, a, closed) ==
  /\ q # <<>> /\ (\A i \in DOMAIN q : v[q[i]] = "none") => ~TryAcquire(a, Weight[Head(q)])
  /\ closed => \A i \in DOMAIN q : v[q[i]] # "none"

LEMMA NothingOwedFacts ==
  /\ NoLostGrant <=>
       \A d \in Partitions : NothingOwed(queue[d], verdict, active[d], draining[d])
  /\ NoLostGrant' <=>
       \A d \in Partitions : NothingOwed(queue'[d], verdict', active'[d], draining'[d])
<1>1. ASSUME NEW q, NEW v
      PROVE  LET undecided == {i \in DOMAIN q : v[q[i]] = "none"}
             IN /\ undecided = DOMAIN q <=> \A i \in DOMAIN q : v[q[i]] = "none"
                /\ undecided = {} <=> \A i \in DOMAIN q : v[q[i]] # "none"
  BY Zenon
<1>2. ASSUME NEW q, NEW v, NEW a, NEW closed
      PROVE  NothingOwed(q, v, a, closed) <=>
               LET undecided == {i \in DOMAIN q : v[q[i]] = "none"}
               IN /\ q # <<>> /\ undecided = DOMAIN q => ~TryAcquire(a, Weight[Head(q)])
                  /\ closed => undecided = {}
  BY <1>1, Zenon DEF NothingOwed
<1> QED
  BY <1>2, Zenon DEF NoLostGrant, TryAcquire

(* A partition whose list, weight and verdicts stay. *)
LEMMA NothingOwedKept ==
  ASSUME NEW d \in Partitions, NothingOwed(queue[d], verdict, active[d], draining[d]),
         queue'[d] = queue[d], active'[d] = active[d], draining'[d] = draining[d],
         \A i \in DOMAIN queue[d] : verdict'[queue[d][i]] = verdict[queue[d][i]]
  PROVE  NothingOwed(queue'[d], verdict', active'[d], draining'[d])
  BY Zenon DEF NothingOwed

(* A partition nobody joins or leaves, with nobody granted or told. *)
LEMMA PartitionKept ==
  ASSUME NEW d \in Partitions, PartitionInv(d),
         queue'[d] = queue[d], active'[d] = active[d], Permits(d)' = Permits(d),
         registry' = registry, created' = created, draining[d] => draining'[d],
         \A i \in DOMAIN queue[d] : /\ pc'[queue[d][i]] = "waiting" /\ at'[queue[d][i]] = d
                                    /\ verdict'[queue[d][i]] # "granted"
  PROVE  PartitionInv(d)'
<1>1. /\ \A i, j \in DOMAIN queue[d] : queue[d][i] = queue[d][j] => i = j
      /\ active[d] = Total(Weight, Permits(d))
      /\ d # registry => active[d] = 0 /\ queue[d] = <<>>
      /\ d # registry /\ d <= created => draining[d]
  BY Zenon DEF PartitionInv
<1>2. /\ \A i, j \in DOMAIN queue'[d] : queue'[d][i] = queue'[d][j] => i = j
      /\ \A i \in DOMAIN queue'[d] : /\ pc'[queue'[d][i]] = "waiting" /\ at'[queue'[d][i]] = d
                                     /\ verdict'[queue'[d][i]] # "granted"
  BY <1>1
<1>3. /\ active'[d] = Total(Weight, Permits(d)')
      /\ d # registry' => active'[d] = 0 /\ queue'[d] = <<>>
      /\ d # registry' /\ d <= created' => draining'[d]
  BY <1>1
<1> QED
  BY <1>2, <1>3, Zenon DEF PartitionInv

(* The sections of finishWait and Release preserve the invariant and the     *)
(* order of the queue.                                                      *)
LEMMA SectionStep ==
  ASSUME BulkheadInv, NEW c \in Callers, NEW b \in Partitions, at[c] = b, pc[c] # "idle",
         NEW q, NEW a \in 0..Capacity, NEW overdue \in SUBSET Callers,
         Rest(q, queue[b], c), a = Total(Weight, Permits(b) \ {c}),
         GrantWaiters(b, c, q, a, overdue),
         pc' = [pc EXCEPT ![c] = "idle"], past' \in [Callers -> BOOLEAN],
         UNCHANGED <<registry, created, at>>
  PROVE  BulkheadInv' /\ \A x \in Callers, d \in Partitions : FifoStep(x, d)
<1> DEFINE p == queue[b]
<1>1. /\ TypeOK /\ NoLostGrant /\ b = registry
      /\ \A x \in Callers : WaiterInv(x)
      /\ \A d \in Partitions : PartitionInv(d)
  BY Registered DEF BulkheadInv
<1>2. /\ p \in Seq(Callers) /\ q \in Seq(Callers) /\ Len(q) \in Nat /\ DOMAIN q = 1..Len(q)
      /\ \A i \in DOMAIN p : p[i] \in Callers
      /\ \A i \in DOMAIN q : q[i] \in Callers
  BY <1>1 DEF TypeOK, Rest
<1>3. \A i \in DOMAIN p : pc[p[i]] = "waiting" /\ at[p[i]] = b /\ verdict[p[i]] # "granted"
  BY <1>1 DEF PartitionInv
<1>4. \A i \in DOMAIN q : /\ q[i] # c /\ pc[q[i]] = "waiting" /\ at[q[i]] = b
                          /\ verdict[q[i]] # "granted"
  BY <1>3 DEF Rest
<1>5. draining[b] => \A i \in DOMAIN p : verdict[p[i]] # "none"
  BY <1>1, NothingOwedFacts, Zenon DEF NothingOwed
<1>6. draining[b] => \A i \in DOMAIN q : verdict[q[i]] # "none"
  BY <1>5 DEF Rest
<1>7. PICK g \in SUBSET Callers, l \in SUBSET Callers :
        Decides(q, a, g, l) /\ Writes(b, c, q, a, g, l)
  <2>1. \A i, j \in DOMAIN q : q[i] = q[j] => i = j
    BY DEF Rest
  <2> QED
    BY <1>2, <1>6, <2>1, SectionFacts, Zenon
<1> DEFINE r == Without(q, g)
<1>8. /\ r \in Seq(Callers) /\ Len(r) <= Len(q)
      /\ \A k \in DOMAIN r : r[k] \notin g /\ \E i \in DOMAIN q : r[k] = q[i]
      /\ \A i \in DOMAIN q : q[i] \notin g => \E k \in DOMAIN r : r[k] = q[i]
      /\ (\A i, j \in DOMAIN q : q[i] = q[j] => i = j) =>
           \A h, k \in DOMAIN r : r[h] = r[k] => h = k
      /\ r # <<>> => \E i \in DOMAIN q :
           r[1] = q[i] /\ \A h \in 1..i : h # i => q[h] \in g
  <2>1. r = Without(q, g)
    OBVIOUS
  <2>2. q \in Seq(Callers)
    BY <1>2
  <2> HIDE DEF r
  <2> QED
    BY ONLY <2>1, <2>2, WithoutFacts
<1> HIDE DEF r
<1>9. r \in Seq(Callers) /\ Len(r) <= Len(q)
  BY <1>8, Zenon
<1>10. \A k \in DOMAIN r : r[k] \notin g /\ \E i \in DOMAIN q : r[k] = q[i]
  BY <1>8, Zenon
<1>11. /\ queue \in [Partitions -> Seq(Callers)] /\ active \in [Partitions -> 0..Capacity]
       /\ verdict \in [Callers -> {"none", "granted", "timeout", "closed"}]
       /\ pc \in [Callers -> {"idle", "waiting", "holding"}]
  BY <1>1 DEF TypeOK
<1>12. /\ queue' = [queue EXCEPT ![b] = r]
       /\ active' = [active EXCEPT ![b] = a + Total(Weight, g)]
       /\ UNCHANGED draining
  BY <1>7 DEF Writes, r
<1>13. \A x \in Callers : verdict'[x] = IF x \in g THEN "granted"
                                        ELSE IF x \in l THEN "timeout"
                                        ELSE IF x = c THEN "none" ELSE verdict[x]
  BY <1>7, Zenon DEF Writes
<1>14. /\ queue'[b] = r /\ active'[b] = a + Total(Weight, g)
       /\ \A d \in Partitions : d # b => queue'[d] = queue[d] /\ active'[d] = active[d]
  BY <1>11, <1>12
<1>15. pc'[c] = "idle" /\ \A x \in Callers : x # c => pc'[x] = pc[x]
  BY <1>11
<1>16. ASSUME NEW x \in g \cup l
       PROVE  /\ x \in Callers /\ x # c /\ pc[x] = "waiting" /\ at[x] = b
              /\ verdict[x] = "none" /\ \E i \in DOMAIN q : q[i] = x
  BY <1>4, <1>7 DEF Decides
<1>17. /\ verdict'[c] = "none" /\ \A x \in g : verdict'[x] = "granted"
       /\ \A x \in Callers : x \notin g /\ verdict'[x] = "granted" => verdict[x] = "granted"
       /\ \A x \in Callers : x \notin g /\ verdict'[x] = "none" => x \notin l
       /\ \A x \in g \cup l : verdict'[x] # "none"
  BY <1>13, <1>16
<1>18. \A x \in Callers : x \notin g \cup l /\ x # c => verdict'[x] = verdict[x]
  BY <1>13
<1>19. \A x \in Callers : at[x] # b => pc'[x] = pc[x] /\ verdict'[x] = verdict[x]
  BY <1>18, <1>15, <1>16
<1>20. TypeOK'
  <2>1. a + Total(Weight, g) \in 0..Capacity
    BY <1>7 DEF Decides
  <2>2. active' \in [Partitions -> 0..Capacity] /\ queue' \in [Partitions -> Seq(Callers)]
    BY <1>9, <1>11, <1>12, <2>1
  <2>3. \A d \in Partitions : Len(queue'[d]) <= MaxQueued
    <3>1. Len(r) <= MaxQueued
      BY <1>2, <1>9, ConfigAssumption DEF Rest
    <3> QED
      BY <1>1, <1>14, <3>1 DEF TypeOK
  <2>4. pc' \in [Callers -> {"idle", "waiting", "holding"}]
    BY <1>11
  <2>5. verdict' \in [Callers -> {"none", "granted", "timeout", "closed"}]
    <3>1. \A x \in Callers : verdict'[x] \in {"none", "granted", "timeout", "closed"}
      BY <1>11, <1>13
    <3>2. verdict' = [x \in Callers |-> verdict'[x]]
      BY <1>7 DEF Writes
    <3> QED
      BY <3>1, <3>2
  <2>6. drained' \in [Partitions -> BOOLEAN]
    BY <1>1, <1>7 DEF TypeOK, Writes
  <2> QED
    BY <1>1, <1>12, <2>2, <2>3, <2>4, <2>5, <2>6 DEF TypeOK
<1>21. ASSUME NEW x \in Callers PROVE WaiterInv(x)'
  <2>1. ASSUME verdict'[x] # "none" PROVE pc'[x] = "waiting"
    <3>1. CASE x \in g \cup l
      BY <1>15, <1>16, <3>1
    <3>2. CASE x \notin g \cup l
      <4>1. x # c /\ verdict[x] # "none"
        BY <1>17, <1>18, <2>1, <3>2
      <4>2. pc[x] = "waiting"
        BY <1>1, <4>1 DEF WaiterInv
      <4> QED
        BY <1>15, <4>1, <4>2
    <3> QED
      BY <3>1, <3>2
  <2>2. ASSUME pc'[x] = "waiting", verdict'[x] # "granted"
        PROVE  \E i \in DOMAIN queue'[at[x]] : queue'[at[x]][i] = x
    <3>1. x # c /\ x \notin g /\ pc[x] = "waiting"
      BY <1>17, <1>15, <2>2
    <3>2. verdict[x] # "granted"
      BY <1>18, <1>16, <2>2, <3>1
    <3>3. PICK i \in DOMAIN queue[at[x]] : queue[at[x]][i] = x
      BY <1>1, <3>1, <3>2 DEF WaiterInv
    <3>4. CASE at[x] = b
      <4>1. \E j \in DOMAIN q : q[j] = x
        BY <3>1, <3>3, <3>4 DEF Rest
      <4>2. \E k \in DOMAIN r : r[k] = x
        BY <1>8, <3>1, <4>1
      <4> QED
        BY <1>14, <3>4, <4>2
    <3>5. CASE at[x] # b
      <4>1. at[x] \in Partitions
        BY <1>1 DEF TypeOK
      <4> QED
        BY <1>14, <3>3, <3>5, <4>1
    <3> QED
      BY <3>4, <3>5
  <2> QED
    BY <2>1, <2>2 DEF WaiterInv
<1>22. ASSUME NEW d \in Partitions PROVE PartitionInv(d)'
  <2>1. CASE d = b
    <3>1. ASSUME NEW k \in DOMAIN r
          PROVE  pc'[r[k]] = "waiting" /\ at[r[k]] = b /\ verdict'[r[k]] # "granted"
      <4>1. PICK i \in DOMAIN q : r[k] = q[i] /\ r[k] \notin g
        BY <1>10, Zenon
      <4>2. /\ q[i] \in Callers /\ q[i] # c /\ pc[q[i]] = "waiting" /\ at[q[i]] = b
            /\ verdict[q[i]] # "granted"
        BY <1>2, <1>4, Zenon
      <4> QED
        BY <1>17, <1>15, <4>1, <4>2, Zenon
    <3>2. \A h, k \in DOMAIN r : r[h] = r[k] => h = k
      BY <1>8 DEF Rest
    <3>3. Permits(b)' = (Permits(b) \ {c}) \cup g
      <4>1. ASSUME NEW x \in Callers
            PROVE  x \in Permits(b)' <=> x \in (Permits(b) \ {c}) \cup g
        <5>1. CASE x \in g
          BY <1>17, <1>16, <5>1 DEF Permits
        <5>2. CASE x = c
          BY <1>17, <1>15, <1>16, <5>2 DEF Permits
        <5>3. CASE x \notin g /\ x # c
          BY <1>17, <1>18, <1>15, <1>16, <5>3 DEF Permits
        <5> QED
          BY <5>1, <5>2, <5>3
      <4> QED
        BY <4>1 DEF Permits
    <3>4. /\ Permits(b) \ {c} \in SUBSET Callers
          /\ (Permits(b) \ {c}) \cap g = {}
      BY <1>16 DEF Permits
    <3>5. active'[b] = Total(Weight, Permits(b)')
      <4>1. Total(Weight, (Permits(b) \ {c}) \cup g)
              = Total(Weight, Permits(b) \ {c}) + Total(Weight, g)
        BY <3>4, LoadFacts
      <4> QED
        BY <1>14, <3>3, <4>1, Zenon
    <3> QED
      BY <1>1, <1>14, <2>1, <3>1, <3>2, <3>5 DEF PartitionInv
  <2>2. CASE d # b
    <3>1. queue'[d] = queue[d] /\ active'[d] = active[d] /\ PartitionInv(d)
      BY <1>1, <1>14, <2>2
    <3>2. \A x \in Callers : at[x] = d => pc'[x] = pc[x] /\ verdict'[x] = verdict[x]
      BY <1>19, <2>2, Zenon
    <3>3. Permits(d)' = Permits(d)
      BY <3>2 DEF Permits
    <3>4. \A i \in DOMAIN queue[d] : /\ pc'[queue[d][i]] = "waiting" /\ at'[queue[d][i]] = d
                                     /\ verdict'[queue[d][i]] # "granted"
      <4>1. \A i \in DOMAIN queue[d] : queue[d][i] \in Callers
        BY <1>11
      <4> QED
        BY <3>1, <3>2, <4>1 DEF PartitionInv
    <3>5. registry' = registry /\ created' = created /\ draining'[d] = draining[d]
      BY <1>12, Zenon
    <3> QED
      BY <3>1, <3>3, <3>4, <3>5, PartitionKept, Zenon
  <2> QED
    BY <2>1, <2>2
<1>23. NoLostGrant'
  <2> SUFFICES ASSUME NEW d \in Partitions
               PROVE  NothingOwed(queue'[d], verdict', active'[d], draining'[d])
    BY NothingOwedFacts, Zenon
  <2>1. CASE d = b
    <3>1. ASSUME r # <<>>, \A i \in DOMAIN r : verdict'[r[i]] = "none"
          PROVE  ~TryAcquire(a + Total(Weight, g), Weight[Head(r)])
      <4>1. PICK i \in DOMAIN q : r[1] = q[i] /\ \A h \in 1..i : h # i => q[h] \in g
        BY <1>8, <3>1, Zenon
      <4>2. 1 \in DOMAIN r /\ Head(r) = r[1]
        BY <1>9, <3>1
      <4>3. r[1] \notin g /\ verdict'[r[1]] = "none" /\ q[i] \in Callers /\ q[i] # c
        BY <1>2, <1>4, <1>10, <3>1, <4>1, <4>2, Zenon
      <4>4. q[i] \notin g \cup l /\ verdict[q[i]] = "none"
        BY <1>17, <1>18, <4>1, <4>3
      <4>5. ~TryAcquire(a + Total(Weight, g), Weight[q[i]])
        BY <1>7, <4>1, <4>4, Zenon DEF Decides
      <4> QED
        BY <4>1, <4>2, <4>5
    <3>2. ASSUME draining[b], NEW k \in DOMAIN r PROVE verdict'[r[k]] # "none"
      <4>1. PICK i \in DOMAIN q : r[k] = q[i]
        BY <1>10, Zenon
      <4>2. q[i] \in Callers /\ q[i] # c /\ verdict[q[i]] # "none"
        BY <1>2, <1>4, <1>6, <3>2, Zenon
      <4> QED
        BY <1>17, <1>18, <4>1, <4>2
    <3>3. /\ queue'[d] = r /\ active'[d] = a + Total(Weight, g)
          /\ draining'[d] = draining[b]
      BY <1>12, <1>14, <2>1, Zenon
    <3> QED
      BY <3>1, <3>2, <3>3, Zenon DEF NothingOwed
  <2>2. CASE d # b
    <3>1. queue'[d] = queue[d] /\ active'[d] = active[d]
      BY <1>14, <2>2
    <3>2. ASSUME NEW i \in DOMAIN queue[d]
          PROVE  verdict'[queue[d][i]] = verdict[queue[d][i]]
      <4>1. queue[d][i] \in Callers /\ at[queue[d][i]] = d
        BY <1>1, <1>11 DEF PartitionInv
      <4> QED
        BY <1>19, <2>2, <4>1
    <3>3. NothingOwed(queue[d], verdict, active[d], draining[d]) /\ draining' = draining
      BY <1>1, <1>12, NothingOwedFacts, Zenon
    <3> QED
      BY <3>1, <3>2, <3>3, NothingOwedKept, Zenon
  <2> QED
    BY <2>1, <2>2
<1>24. \A h, i \in DOMAIN p : h < i /\ p[h] # c /\ p[i] # c =>
          \E m, k \in DOMAIN q : m < k /\ q[m] = p[h] /\ q[k] = p[i]
  BY Zenon DEF Rest
<1>25. \A m, k \in DOMAIN q :
          m < k /\ q[k] \in g => q[m] \in g \cup l \/ verdict[q[m]] # "none"
  BY <1>7, Zenon DEF Decides
<1>26. ASSUME NEW x \in Callers, NEW d \in Partitions PROVE FifoStep(x, d)
  <2>1. ASSUME verdict[x] # "granted", verdict'[x] = "granted", at[x] = d
        PROVE  \E i \in DOMAIN queue[d] :
                 /\ queue[d][i] = x
                 /\ \A h \in 1..i : \/ verdict[queue[d][h]] # "none"
                                    \/ verdict'[queue[d][h]] # "none"
                                    \/ pc'[queue[d][h]] = "idle"
    <3>1. x \in g
      BY <1>17, <2>1
    <3>2. d = b /\ x # c /\ \E j \in DOMAIN q : q[j] = x
      BY <1>16, <2>1, <3>1
    <3>3. PICK i \in DOMAIN p : p[i] = x
      BY <3>2 DEF Rest
    <3>4. ASSUME NEW h \in 1..i
          PROVE  verdict[p[h]] # "none" \/ verdict'[p[h]] # "none" \/ pc'[p[h]] = "idle"
      <4>1. h \in DOMAIN p /\ p[h] \in Callers /\ (h = i \/ h < i)
        BY <1>2, <3>3
      <4>2. CASE h = i \/ p[h] = c
        BY <1>15, <2>1, <3>3, <4>2
      <4>3. CASE h < i /\ p[h] # c
        <5>1. PICK m, k \in DOMAIN q : m < k /\ q[m] = p[h] /\ q[k] = x
          <6>1. h \in DOMAIN p /\ i \in DOMAIN p /\ h < i /\ p[h] # c /\ p[i] # c /\ p[i] = x
            BY <3>2, <3>3, <4>1, <4>3, Zenon
          <6> QED
            BY <1>24, <6>1
        <5>2. p[h] \in g \cup l \/ verdict[p[h]] # "none"
          BY <1>25, <3>1, <5>1, Zenon
        <5> QED
          BY <1>17, <1>18, <4>1, <4>3, <5>2, Zenon
      <4> QED
        BY <4>1, <4>2, <4>3
    <3> QED
      BY <3>2, <3>3, <3>4
  <2>2. ~(pc[x] = "idle" /\ pc'[x] = "holding")
    BY <1>15
  <2> QED
    BY <2>1, <2>2 DEF FifoStep
<1> QED
  BY <1>20, <1>21, <1>22, <1>23, <1>26 DEF BulkheadInv

(* finishWait of a waiter that was not granted. *)
LEMMA LeaveStep ==
  ASSUME BulkheadInv, NEW c \in Callers, NEW overdue \in SUBSET Callers, Leave(c, overdue)
  PROVE  BulkheadInv' /\ \A x \in Callers, d \in Partitions : FifoStep(x, d)
<1> DEFINE b == at[c]
           p == queue[b]
           q == Without(p, {c})
<1>1. /\ pc[c] = "waiting" /\ verdict[c] # "granted"
      /\ GrantWaiters(b, c, q, active[b], overdue)
      /\ pc' = [pc EXCEPT ![c] = "idle"] /\ past' = [past EXCEPT ![c] = FALSE]
      /\ UNCHANGED <<registry, created, at>>
  BY DEF Leave
<1>2. /\ TypeOK /\ b \in Partitions /\ PartitionInv(b) /\ p \in Seq(Callers)
      /\ active[b] \in 0..Capacity /\ Len(p) <= MaxQueued /\ Len(p) \in Nat
  BY DEF BulkheadInv, TypeOK
<1>3. \A i, j \in DOMAIN p : p[i] = p[j] => i = j
  BY <1>2 DEF PartitionInv
<1>4. Rest(q, p, c)
  <2> DEFINE S == {c}
  <2>1. q = Without(p, S) /\ p \in Seq(Callers) /\ \A x : x \in S <=> x = c
    BY <1>2
  <2> HIDE DEF p, q, S
  <2>2. /\ q \in Seq(Callers) /\ Len(q) <= Len(p)
        /\ \A k \in DOMAIN q : q[k] \notin S /\ \E i \in DOMAIN p : q[k] = p[i]
        /\ \A i, j \in DOMAIN p : i < j /\ p[i] \notin S /\ p[j] \notin S =>
             \E h, k \in DOMAIN q : h < k /\ q[h] = p[i] /\ q[k] = p[j]
        /\ \A i \in DOMAIN p : p[i] \notin S => \E k \in DOMAIN q : q[k] = p[i]
        /\ (\A i, j \in DOMAIN p : p[i] = p[j] => i = j) =>
             \A h, k \in DOMAIN q : q[h] = q[k] => h = k
    BY ONLY <2>1, WithoutFacts
  <2>3. Len(q) <= MaxQueued
    BY <1>2, <2>2, ConfigAssumption
  <2> QED
    BY <1>3, <2>1, <2>2, <2>3 DEF Rest
<1>5. active[b] = Total(Weight, Permits(b) \ {c})
  <2>1. Permits(b) \ {c} = Permits(b)
    BY <1>1 DEF Permits
  <2> QED
    BY <1>2, <2>1, Zenon DEF PartitionInv
<1>6. past' \in [Callers -> BOOLEAN]
  BY <1>1, <1>2 DEF TypeOK
<1> HIDE DEF b, p, q
<1>7. Rest(q, queue[b], c) /\ at[c] = b
  BY <1>4 DEF p, b
<1> QED
  BY <1>1, <1>2, <1>5, <1>6, <1>7, SectionStep, Zenon

(* Permit.Release. *)
LEMMA ReleaseStep ==
  ASSUME BulkheadInv, NEW c \in Callers, Release(c)
  PROVE  BulkheadInv' /\ \A x \in Callers, d \in Partitions : FifoStep(x, d)
<1> DEFINE b == at[c]
           p == queue[b]
           a == active[b] - Weight[c]
<1>1. /\ pc[c] = "holding"
      /\ \E overdue \in Overdue : GrantWaiters(b, c, p, a, overdue)
      /\ pc' = [pc EXCEPT ![c] = "idle"] /\ UNCHANGED <<registry, created, at, past>>
  BY DEF Release
<1>2. PICK overdue \in SUBSET Callers : GrantWaiters(b, c, p, a, overdue)
  BY <1>1 DEF Overdue
<1>3. /\ TypeOK /\ b \in Partitions /\ PartitionInv(b) /\ p \in Seq(Callers)
      /\ active[b] \in 0..Capacity /\ Len(p) <= MaxQueued /\ Capacity \in Nat
  BY ConfigAssumption DEF BulkheadInv, TypeOK
<1>4. Rest(p, p, c)
  <2>1. \A i \in DOMAIN p : p[i] # c
    BY <1>1, <1>3 DEF PartitionInv
  <2>2. \A i, j \in DOMAIN p : p[i] = p[j] => i = j
    BY <1>3 DEF PartitionInv
  <2> HIDE DEF p
  <2> QED
    BY <1>3, <2>1, <2>2 DEF Rest
<1>5. a = Total(Weight, Permits(b) \ {c}) /\ a \in 0..Capacity
  <2> DEFINE P == Permits(b) \ {c}
  <2>1. P \in SUBSET Callers /\ c \notin P /\ P \cup {c} = Permits(b)
    BY <1>1 DEF Permits
  <2>2. active[b] = Total(Weight, P \cup {c})
    BY <1>3, <2>1, Zenon DEF PartitionInv
  <2> HIDE DEF P
  <2>3. /\ Total(Weight, P) \in Nat /\ Weight[c] \in 1..Capacity
        /\ Total(Weight, P \cup {c}) = Total(Weight, P) + Weight[c]
    BY <2>1, LoadAdd, Zenon
  <2>4. a = Total(Weight, P) /\ a \in 0..Capacity
    BY <1>3, <2>2, <2>3
  <2> QED
    BY <2>4 DEF P
<1>6. past' \in [Callers -> BOOLEAN]
  BY <1>1, <1>3 DEF TypeOK
<1> HIDE DEF b, p, a
<1>7. Rest(p, queue[b], c) /\ at[c] = b
  BY <1>4 DEF p, b
<1>8. pc[c] # "idle" /\ UNCHANGED <<registry, created, at>>
  BY <1>1
<1> QED
  BY <1>1, <1>2, <1>3, <1>5, <1>6, <1>7, <1>8, SectionStep, Zenon

(* A caller that is idle is in no list, has no verdict and no permit, and a  *)
(* partition that takes callers is the registered one.                      *)
LEMMA IdleFacts ==
  ASSUME BulkheadInv, NEW c \in Callers, pc[c] = "idle",
         NEW b \in Partitions, b <= created, ~draining[b]
  PROVE  /\ verdict[c] = "none" /\ b = registry
         /\ \A d \in Partitions : c \notin Permits(d)
         /\ \A d \in Partitions : \A i \in DOMAIN queue[d] :
              /\ queue[d][i] # c /\ queue[d][i] \in Callers
              /\ pc[queue[d][i]] = "waiting" /\ at[queue[d][i]] = d
              /\ verdict[queue[d][i]] # "granted"
<1>1. WaiterInv(c) /\ PartitionInv(b) /\ queue \in [Partitions -> Seq(Callers)]
      /\ \A d \in Partitions : PartitionInv(d)
  BY DEF BulkheadInv, TypeOK
<1>2. verdict[c] = "none" /\ b = registry
  BY <1>1 DEF WaiterInv, PartitionInv
<1>3. \A d \in Partitions : c \notin Permits(d)
  BY <1>2 DEF Permits
<1>4. \A d \in Partitions : \A i \in DOMAIN queue[d] :
        /\ queue[d][i] # c /\ queue[d][i] \in Callers
        /\ pc[queue[d][i]] = "waiting" /\ at[queue[d][i]] = d
        /\ verdict[queue[d][i]] # "granted"
  BY <1>1 DEF PartitionInv
<1> QED
  BY <1>2, <1>3, <1>4

(* Acquire with room and nobody queued. *)
LEMMA AdmitStep ==
  ASSUME BulkheadInv, NEW c \in Callers, NEW b \in Partitions, Admit(c, b)
  PROVE  BulkheadInv' /\ \A x \in Callers, d \in Partitions : FifoStep(x, d)
<1>1. /\ pc[c] = "idle" /\ b <= created /\ ~draining[b] /\ queue[b] = <<>>
      /\ active[b] + Weight[c] <= Capacity
      /\ active' = [active EXCEPT ![b] = @ + Weight[c]]
      /\ pc' = [pc EXCEPT ![c] = "holding"] /\ at' = [at EXCEPT ![c] = b]
      /\ UNCHANGED <<registry, created, queue, draining, drained, verdict, past>>
  BY DEF Admit, Admissible, TryAcquire
<1>2. /\ TypeOK /\ NoLostGrant
      /\ \A x \in Callers : WaiterInv(x)
      /\ \A d \in Partitions : PartitionInv(d)
  BY DEF BulkheadInv
<1>3. /\ verdict[c] = "none" /\ b = registry
      /\ \A d \in Partitions : c \notin Permits(d)
      /\ \A d \in Partitions : \A i \in DOMAIN queue[d] :
           /\ queue[d][i] # c /\ queue[d][i] \in Callers
           /\ pc[queue[d][i]] = "waiting" /\ at[queue[d][i]] = d
           /\ verdict[queue[d][i]] # "granted"
  BY <1>1, IdleFacts
<1>4. /\ pc'[c] = "holding" /\ at'[c] = b
      /\ \A x \in Callers : x # c => pc'[x] = pc[x] /\ at'[x] = at[x]
      /\ active'[b] = active[b] + Weight[c]
      /\ \A d \in Partitions : d # b => active'[d] = active[d]
  BY <1>1, <1>2 DEF TypeOK
<1>5. TypeOK'
  <2>1. active[b] + Weight[c] \in 0..Capacity
    <3>1. active[b] \in 0..Capacity /\ Weight[c] \in 1..Capacity /\ Capacity \in Nat
      BY <1>2, WeightAssumption, ConfigAssumption DEF TypeOK
    <3> QED
      BY <1>1, <3>1
  <2>2. active' \in [Partitions -> 0..Capacity]
    BY <1>1, <1>2, <2>1 DEF TypeOK
  <2>3. /\ pc' \in [Callers -> {"idle", "waiting", "holding"}]
        /\ at' \in [Callers -> Partitions]
    BY <1>1, <1>2 DEF TypeOK
  <2> QED
    BY <1>1, <1>2, <2>2, <2>3, Zenon DEF TypeOK
<1>6. ASSUME NEW x \in Callers PROVE WaiterInv(x)'
  <2>1. CASE x = c
    <3>1. verdict'[x] = "none" /\ pc'[x] = "holding"
      BY <1>1, <1>3, <1>4, <2>1, Zenon
    <3> QED
      BY <3>1 DEF WaiterInv
  <2>2. CASE x # c
    BY <1>1, <1>2, <1>4, <2>2 DEF WaiterInv
  <2> QED
    BY <2>1, <2>2
<1>7. ASSUME NEW d \in Partitions PROVE PartitionInv(d)'
  <2>1. \A i \in DOMAIN queue'[d] : /\ pc'[queue'[d][i]] = "waiting" /\ at'[queue'[d][i]] = d
                                    /\ verdict'[queue'[d][i]] # "granted"
    BY <1>1, <1>3, <1>4
  <2>2. active'[d] = Total(Weight, Permits(d)')
    <3>1. active[d] = Total(Weight, Permits(d)) /\ Permits(d) \in SUBSET Callers
      BY <1>2, Zenon DEF PartitionInv, Permits
    <3>2. CASE d = b
      <4>1. Permits(b)' = Permits(b) \cup {c}
        BY <1>1, <1>4, Zenon DEF Permits
      <4>2. Total(Weight, Permits(b) \cup {c}) = Total(Weight, Permits(b)) + Weight[c]
        BY <1>3, <3>1, <3>2, LoadAdd
      <4> QED
        BY <1>4, <3>1, <3>2, <4>1, <4>2, Zenon
    <3>3. CASE d # b
      <4>1. Permits(d)' = Permits(d)
        BY <1>1, <1>3, <1>4, <3>3 DEF Permits
      <4> QED
        BY <1>4, <3>1, <3>3, <4>1
    <3> QED
      BY <3>2, <3>3
  <2>3. /\ \A i, j \in DOMAIN queue[d] : queue[d][i] = queue[d][j] => i = j
        /\ d # registry => active[d] = 0 /\ queue[d] = <<>>
        /\ d # registry /\ d <= created => draining[d]
    BY <1>2, Zenon DEF PartitionInv
  <2>4. /\ queue' = queue /\ draining' = draining /\ registry' = registry /\ created' = created
        /\ d # registry => active'[d] = active[d]
    BY <1>1, <1>3, <1>4, Zenon
  <2>5. /\ \A i, j \in DOMAIN queue'[d] : queue'[d][i] = queue'[d][j] => i = j
        /\ d # registry' => active'[d] = 0 /\ queue'[d] = <<>>
        /\ d # registry' /\ d <= created' => draining'[d]
    BY <2>3, <2>4
  <2> QED
    BY <2>1, <2>2, <2>5, Zenon DEF PartitionInv
<1>8. NoLostGrant'
  <2>1. ASSUME NEW d \in Partitions
        PROVE  NothingOwed(queue'[d], verdict', active'[d], draining'[d])
    <3>1. /\ NothingOwed(queue[d], verdict, active[d], draining[d])
          /\ queue' = queue /\ verdict' = verdict /\ draining' = draining
      BY <1>1, <1>2, NothingOwedFacts, Zenon
    <3>2. CASE d = b
      <4>1. queue[d] = <<>> /\ ~draining[d]
        BY <1>1, <3>2, Zenon
      <4> QED
        BY <3>1, <4>1, Zenon DEF NothingOwed
    <3>3. CASE d # b
      <4>1. active'[d] = active[d]
        BY <1>4, <3>3, Zenon
      <4> QED
        BY <3>1, <4>1, NothingOwedKept, Zenon
    <3> QED
      BY <3>2, <3>3
  <2> QED
    BY <2>1, NothingOwedFacts, Zenon
<1>9. ASSUME NEW x \in Callers, NEW d \in Partitions PROVE FifoStep(x, d)
  BY <1>1, <1>4 DEF FifoStep
<1> QED
  BY <1>5, <1>6, <1>7, <1>8, <1>9, Zenon DEF BulkheadInv

(* A queue with one more waiter at its end. *)
LEMMA AppendFacts ==
  ASSUME NEW p \in Seq(Callers), NEW c \in Callers, NEW r, r = Append(p, c)
  PROVE  /\ r \in Seq(Callers) /\ r # <<>> /\ Len(r) = Len(p) + 1
         /\ \A i \in DOMAIN p : i \in DOMAIN r /\ r[i] = p[i]
         /\ \A i \in DOMAIN r : (i \in DOMAIN p /\ r[i] = p[i]) \/ (i = Len(r) /\ r[i] = c)
         /\ \E i \in DOMAIN r : r[i] = c
         /\ Head(r) = IF p = <<>> THEN c ELSE Head(p)
<1>1. /\ Len(p) \in Nat /\ DOMAIN p = 1..Len(p) /\ r \in Seq(Callers) /\ Len(r) = Len(p) + 1
      /\ DOMAIN r = 1..(Len(p) + 1) /\ r[Len(p) + 1] = c /\ \A i \in 1..Len(p) : r[i] = p[i]
  OBVIOUS
<1>2. Head(r) = IF p = <<>> THEN c ELSE Head(p)
  OBVIOUS
<1>3. r # <<>>
  BY <1>1
<1>4. \A i \in DOMAIN p : i \in DOMAIN r /\ r[i] = p[i]
  BY <1>1
<1>5. ASSUME NEW i \in DOMAIN r
      PROVE  (i \in DOMAIN p /\ r[i] = p[i]) \/ (i = Len(r) /\ r[i] = c)
  <2>1. i \in 1..Len(p) \/ i = Len(p) + 1
    BY ONLY <1>1, <1>5
  <2> QED
    BY <1>1, <2>1, Zenon
<1>6. Len(p) + 1 \in DOMAIN r
  BY <1>1
<1> QED
  BY <1>1, <1>2, <1>3, <1>4, <1>5, <1>6, Zenon

(* A caller whose own state stays, in a queue that keeps its places. *)
LEMMA WaiterKept ==
  ASSUME NEW x \in Callers, WaiterInv(x),
         pc'[x] = pc[x], at'[x] = at[x], verdict'[x] = verdict[x],
         \A i \in DOMAIN queue[at[x]] : /\ i \in DOMAIN queue'[at[x]]
                                        /\ queue'[at[x]][i] = queue[at[x]][i]
  PROVE  WaiterInv(x)'
<1>1. /\ verdict'[x] # "none" => pc'[x] = "waiting"
      /\ pc'[x] = "waiting" /\ verdict'[x] # "granted" =>
           \E i \in DOMAIN queue'[at'[x]] : queue'[at'[x]][i] = x
  BY DEF WaiterInv
<1> QED
  BY <1>1, Zenon DEF WaiterInv

(* Acquire with a place in the queue. *)
LEMMA EnqueueStep ==
  ASSUME BulkheadInv, NEW c \in Callers, NEW b \in Partitions, Enqueue(c, b)
  PROVE  BulkheadInv' /\ \A x \in Callers, d \in Partitions : FifoStep(x, d)
<1> DEFINE p == queue[b]
           r == Append(p, c)
<1>1. /\ pc[c] = "idle" /\ b <= created /\ ~draining[b] /\ Len(p) < MaxQueued
      /\ p = <<>> => ~TryAcquire(active[b], Weight[c])
      /\ queue' = [queue EXCEPT ![b] = r]
      /\ pc' = [pc EXCEPT ![c] = "waiting"] /\ at' = [at EXCEPT ![c] = b]
      /\ UNCHANGED <<registry, created, active, draining, drained, verdict, past>>
  BY DEF Enqueue, Admissible
<1> HIDE DEF r
<1>2. /\ TypeOK /\ \A x \in Callers : WaiterInv(x)
      /\ \A d \in Partitions : PartitionInv(d)
  BY DEF BulkheadInv
<1>3. \A d \in Partitions : NothingOwed(queue[d], verdict, active[d], draining[d])
  BY NothingOwedFacts, Zenon DEF BulkheadInv
<1>4. /\ verdict[c] = "none" /\ b = registry
      /\ \A d \in Partitions : c \notin Permits(d)
      /\ \A d \in Partitions : \A i \in DOMAIN queue[d] :
           /\ queue[d][i] # c /\ queue[d][i] \in Callers
           /\ pc[queue[d][i]] = "waiting" /\ at[queue[d][i]] = d
           /\ verdict[queue[d][i]] # "granted"
  BY <1>1, IdleFacts
<1>5. /\ registry' = registry /\ created' = created /\ active' = active
      /\ draining' = draining /\ verdict' = verdict
  BY <1>1, Zenon
<1>6. /\ pc'[c] = "waiting" /\ at'[c] = b
      /\ \A x \in Callers : x # c => pc'[x] = pc[x] /\ at'[x] = at[x]
  BY <1>1, <1>2 DEF TypeOK
<1>7. queue'[b] = r /\ \A d \in Partitions : d # b => queue'[d] = queue[d]
  BY <1>1, <1>2 DEF TypeOK
<1>8. p \in Seq(Callers)
  BY <1>2 DEF TypeOK
<1>9. /\ r \in Seq(Callers) /\ r # <<>> /\ Len(r) = Len(p) + 1
      /\ \A i \in DOMAIN p : i \in DOMAIN r /\ r[i] = p[i]
      /\ \A i \in DOMAIN r : (i \in DOMAIN p /\ r[i] = p[i]) \/ (i = Len(r) /\ r[i] = c)
      /\ \E i \in DOMAIN r : r[i] = c
      /\ Head(r) = IF p = <<>> THEN c ELSE Head(p)
  <2>1. r = Append(p, c) /\ c \in Callers
    BY DEF r
  <2> HIDE DEF p
  <2> QED
    BY ONLY <1>8, <2>1, AppendFacts
<1>10. TypeOK'
  <2>1. queue' \in [Partitions -> Seq(Callers)]
    <3>1. queue \in [Partitions -> Seq(Callers)]
      BY <1>2 DEF TypeOK
    <3> QED
      BY <1>1, <1>9, <3>1
  <2>2. \A d \in Partitions : Len(queue'[d]) <= MaxQueued
    <3>1. Len(r) <= MaxQueued
      BY <1>1, <1>8, <1>9, ConfigAssumption
    <3> QED
      BY <1>2, <1>7, <3>1, Zenon DEF TypeOK
  <2>3. /\ pc' \in [Callers -> {"idle", "waiting", "holding"}]
        /\ at' \in [Callers -> Partitions]
    BY <1>1, <1>2 DEF TypeOK
  <2> QED
    BY <1>1, <1>2, <2>1, <2>2, <2>3, Zenon DEF TypeOK
<1>11. ASSUME NEW x \in Callers PROVE WaiterInv(x)'
  <2>1. CASE x = c
    <3>1. verdict'[x] = "none" /\ queue'[at'[x]] = r
      BY <1>4, <1>5, <1>6, <1>7, <2>1, Zenon
    <3>2. \E i \in DOMAIN queue'[at'[x]] : queue'[at'[x]][i] = x
      BY <1>9, <2>1, <3>1, Zenon
    <3> QED
      BY <3>1, <3>2, Zenon DEF WaiterInv
  <2>2. CASE x # c
    <3>1. pc'[x] = pc[x] /\ at'[x] = at[x] /\ verdict'[x] = verdict[x] /\ WaiterInv(x)
      BY <1>2, <1>5, <1>6, <2>2, Zenon
    <3>2. at[x] \in Partitions
      BY <1>2 DEF TypeOK
    <3>3. \A i \in DOMAIN queue[at[x]] : /\ i \in DOMAIN queue'[at[x]]
                                         /\ queue'[at[x]][i] = queue[at[x]][i]
      <4>1. CASE at[x] = b
        BY <1>7, <1>9, <4>1, Zenon
      <4>2. CASE at[x] # b
        <5>1. queue'[at[x]] = queue[at[x]]
          BY <1>7, <3>2, <4>2, Zenon
        <5> QED
          BY <5>1, Zenon
      <4> QED
        BY <4>1, <4>2, Zenon
    <3> QED
      BY <3>1, <3>3, WaiterKept, Zenon
  <2> QED
    BY <2>1, <2>2, Zenon
<1>12. ASSUME NEW d \in Partitions PROVE PartitionInv(d)'
  <2>1. Permits(d)' = Permits(d)
    BY <1>4, <1>5, <1>6 DEF Permits
  <2>2. CASE d # b
    <3>1. \A i \in DOMAIN queue[d] : /\ pc'[queue[d][i]] = "waiting" /\ at'[queue[d][i]] = d
                                     /\ verdict'[queue[d][i]] # "granted"
      BY <1>4, <1>5, <1>6
    <3>2. queue'[d] = queue[d] /\ PartitionInv(d)
      BY <1>2, <1>7, <2>2, Zenon
    <3> QED
      BY <1>5, <2>1, <3>1, <3>2, PartitionKept, Zenon
  <2>3. CASE d = b
    <3>1. ASSUME NEW i \in DOMAIN r
          PROVE  pc'[r[i]] = "waiting" /\ at'[r[i]] = b /\ verdict'[r[i]] # "granted"
      <4>1. CASE r[i] = c
        BY <1>4, <1>5, <1>6, <4>1
      <4>2. CASE i \in DOMAIN p /\ r[i] = p[i]
        BY <1>4, <1>5, <1>6, <4>2
      <4> QED
        BY <1>9, <4>1, <4>2, Zenon
    <3>2. PartitionInv(b)
      BY <1>2
    <3>3. ASSUME NEW i \in DOMAIN r, NEW j \in DOMAIN r, r[i] = r[j] PROVE i = j
      <4>1. /\ \A h, k \in DOMAIN p : p[h] = p[k] => h = k
            /\ \A h \in DOMAIN p : p[h] # c
        BY <1>4, <3>2, Zenon DEF PartitionInv
      <4>2. (i \in DOMAIN p /\ r[i] = p[i]) \/ (i = Len(r) /\ r[i] = c)
        BY <1>9, Zenon
      <4>3. (j \in DOMAIN p /\ r[j] = p[j]) \/ (j = Len(r) /\ r[j] = c)
        BY <1>9, Zenon
      <4> QED
        BY <3>3, <4>1, <4>2, <4>3, Zenon
    <3>4. active[b] = Total(Weight, Permits(b))
      BY <3>2, Zenon DEF PartitionInv
    <3>5. /\ active'[b] = Total(Weight, Permits(b)')
          /\ registry' = b /\ queue'[b] = r
      BY <1>4, <1>5, <1>7, <2>1, <2>3, <3>4, Zenon
    <3> QED
      BY <2>3, <3>1, <3>3, <3>5, Zenon DEF PartitionInv
  <2> QED
    BY <2>2, <2>3, Zenon
<1>13. NoLostGrant'
  <2>1. NothingOwed(r, verdict, active[b], FALSE)
    <3>1. ASSUME \A i \in DOMAIN r : verdict[r[i]] = "none"
          PROVE  ~TryAcquire(active[b], Weight[Head(r)])
      <4>1. CASE p = <<>>
        BY <1>1, <1>9, <4>1, Zenon
      <4>2. CASE p # <<>>
        <5>1. Head(r) = Head(p) /\ \A i \in DOMAIN p : verdict[p[i]] = "none"
          BY <1>9, <3>1, <4>2, Zenon
        <5> QED
          BY <1>3, <4>2, <5>1, Zenon DEF NothingOwed
      <4> QED
        BY <4>1, <4>2, Zenon
    <3> QED
      BY <3>1, Zenon DEF NothingOwed
  <2>2. ASSUME NEW d \in Partitions
        PROVE  NothingOwed(queue'[d], verdict', active'[d], draining'[d])
    <3>1. CASE d = b
      <4>1. ~draining'[d]
        BY <1>1, <1>5, <3>1, Zenon
      <4> QED
        BY <1>5, <1>7, <2>1, <3>1, <4>1, Zenon DEF NothingOwed
    <3>2. CASE d # b
      BY <1>3, <1>5, <1>7, <3>2, NothingOwedKept, Zenon
    <3> QED
      BY <3>1, <3>2, Zenon
  <2> QED
    BY <2>2, NothingOwedFacts, Zenon
<1>14. ASSUME NEW x \in Callers, NEW d \in Partitions PROVE FifoStep(x, d)
  <2>1. ~(verdict[x] # "granted" /\ verdict'[x] = "granted")
    BY <1>5, Zenon
  <2>2. ~(pc[x] = "idle" /\ pc'[x] = "holding")
    BY <1>6
  <2> QED
    BY <2>1, <2>2, Zenon DEF FifoStep
<1> QED
  BY <1>10, <1>11, <1>12, <1>13, <1>14, Zenon DEF BulkheadInv

(* finishWait of a waiter that was granted. *)
LEMMA PermittedStep ==
  ASSUME BulkheadInv, NEW c \in Callers, Permitted(c)
  PROVE  BulkheadInv' /\ \A x \in Callers, d \in Partitions : FifoStep(x, d)
<1>1. /\ pc[c] = "waiting" /\ verdict[c] = "granted"
      /\ pc' = [pc EXCEPT ![c] = "holding"] /\ verdict' = [verdict EXCEPT ![c] = "none"]
      /\ past' = [past EXCEPT ![c] = FALSE]
      /\ UNCHANGED <<registry, created, active, queue, draining, drained, at>>
  BY DEF Permitted, partition
<1>2. /\ TypeOK /\ NoLostGrant
      /\ \A x \in Callers : WaiterInv(x)
      /\ \A d \in Partitions : PartitionInv(d)
  BY DEF BulkheadInv
<1>3. /\ pc'[c] = "holding" /\ verdict'[c] = "none"
      /\ \A x \in Callers : x # c => pc'[x] = pc[x] /\ verdict'[x] = verdict[x]
  BY <1>1, <1>2 DEF TypeOK
<1>4. ASSUME NEW d \in Partitions, NEW i \in DOMAIN queue[d]
      PROVE  queue[d][i] # c /\ queue[d][i] \in Callers
  BY <1>1, <1>2 DEF TypeOK, PartitionInv
<1>5. TypeOK'
  BY <1>1, <1>2 DEF TypeOK
<1>6. ASSUME NEW x \in Callers PROVE WaiterInv(x)'
  <2>1. CASE x = c
    BY <1>3, <2>1 DEF WaiterInv
  <2>2. CASE x # c
    <3>1. /\ pc'[x] = pc[x] /\ verdict'[x] = verdict[x] /\ at' = at /\ queue' = queue
          /\ WaiterInv(x)
      BY <1>1, <1>2, <1>3, <2>2, Zenon
    <3> QED
      BY <3>1, Zenon DEF WaiterInv
  <2> QED
    BY <2>1, <2>2
<1>7. ASSUME NEW d \in Partitions PROVE PartitionInv(d)'
  <2>1. Permits(d)' = Permits(d)
    BY <1>1, <1>3 DEF Permits
  <2>2. /\ queue'[d] = queue[d] /\ active'[d] = active[d] /\ draining'[d] = draining[d]
        /\ registry' = registry /\ created' = created /\ at' = at /\ PartitionInv(d)
    BY <1>1, <1>2, Zenon
  <2>3. ASSUME NEW i \in DOMAIN queue[d]
        PROVE  /\ pc'[queue[d][i]] = "waiting" /\ at'[queue[d][i]] = d
               /\ verdict'[queue[d][i]] # "granted"
    <3>1. pc[queue[d][i]] = "waiting" /\ at[queue[d][i]] = d /\ verdict[queue[d][i]] # "granted"
      BY <2>2, Zenon DEF PartitionInv
    <3> QED
      BY <1>3, <1>4, <2>2, <3>1, Zenon
  <2> QED
    BY <2>1, <2>2, <2>3, PartitionKept, Zenon
<1>8. NoLostGrant'
  <2>1. ASSUME NEW d \in Partitions
        PROVE  NothingOwed(queue'[d], verdict', active'[d], draining'[d])
    <3>1. /\ queue' = queue /\ active' = active /\ draining' = draining
          /\ NothingOwed(queue[d], verdict, active[d], draining[d])
      BY <1>1, <1>2, NothingOwedFacts, Zenon
    <3>2. \A i \in DOMAIN queue[d] : verdict'[queue[d][i]] = verdict[queue[d][i]]
      BY <1>3, <1>4, Zenon
    <3> QED
      BY <3>1, <3>2, NothingOwedKept, Zenon
  <2> QED
    BY <2>1, NothingOwedFacts, Zenon
<1>9. ASSUME NEW x \in Callers, NEW d \in Partitions PROVE FifoStep(x, d)
  <2>1. /\ verdict'[x] = "granted" => verdict[x] = "granted"
        /\ pc[x] = "idle" => pc'[x] # "holding"
    BY <1>1, <1>3
  <2> QED
    BY <2>1, Zenon DEF FifoStep
<1> QED
  BY <1>5, <1>6, <1>7, <1>8, <1>9 DEF BulkheadInv

(* Close tells every waiter of the partition. *)
LEMMA CloseStep ==
  ASSUME BulkheadInv, NEW b \in Partitions, Close(b)
  PROVE  BulkheadInv' /\ \A x \in Callers, d \in Partitions : FifoStep(x, d)
<1>1. /\ draining' = [draining EXCEPT ![b] = TRUE]
      /\ verdict' = [x \in Callers |->
            IF pc[x] = "waiting" /\ at[x] = b /\ verdict[x] = "none" THEN "closed"
            ELSE verdict[x]]
      /\ drained' = [drained EXCEPT ![b] = active[b] = 0 /\ queue[b] = <<>>]
      /\ UNCHANGED <<registry, created, active, queue, pc, at, past>>
  BY DEF Close
<1>2. /\ TypeOK /\ NoLostGrant
      /\ \A x \in Callers : WaiterInv(x)
      /\ \A d \in Partitions : PartitionInv(d)
  BY DEF BulkheadInv
<1>3. \A x \in Callers : verdict'[x] = IF pc[x] = "waiting" /\ at[x] = b /\ verdict[x] = "none"
                                       THEN "closed" ELSE verdict[x]
  BY <1>1, Zenon
<1>4. ASSUME NEW d \in Partitions, NEW i \in DOMAIN queue[d]
      PROVE  /\ queue[d][i] \in Callers /\ pc[queue[d][i]] = "waiting"
             /\ at[queue[d][i]] = d /\ verdict[queue[d][i]] # "granted"
  BY <1>2 DEF TypeOK, PartitionInv
<1>5. \A x \in Callers : verdict'[x] = "granted" <=> verdict[x] = "granted"
  BY <1>3
<1>6. TypeOK'
  <2>1. verdict' \in [Callers -> {"none", "granted", "timeout", "closed"}]
    <3>1. \A x \in Callers : verdict'[x] \in {"none", "granted", "timeout", "closed"}
      BY <1>2, <1>3 DEF TypeOK
    <3> QED
      BY <1>1, <3>1, Zenon
  <2>2. draining' \in [Partitions -> BOOLEAN] /\ drained' \in [Partitions -> BOOLEAN]
    BY <1>1, <1>2 DEF TypeOK
  <2> QED
    BY <1>1, <1>2, <2>1, <2>2 DEF TypeOK
<1>7. ASSUME NEW x \in Callers PROVE WaiterInv(x)'
  BY <1>1, <1>2, <1>3 DEF WaiterInv
<1>8. ASSUME NEW d \in Partitions PROVE PartitionInv(d)'
  <2>1. Permits(d)' = Permits(d)
    BY <1>1, <1>5 DEF Permits
  <2>2. draining'[d] \/ draining'[d] = draining[d]
    BY <1>1, <1>2 DEF TypeOK
  <2>3. /\ queue'[d] = queue[d] /\ active'[d] = active[d] /\ pc' = pc /\ at' = at
        /\ registry' = registry /\ created' = created /\ PartitionInv(d)
    BY <1>1, <1>2, Zenon
  <2>4. ASSUME NEW i \in DOMAIN queue[d]
        PROVE  /\ pc'[queue[d][i]] = "waiting" /\ at'[queue[d][i]] = d
               /\ verdict'[queue[d][i]] # "granted"
    BY <1>4, <1>5, <2>3, Zenon
  <2>5. draining[d] => draining'[d]
    BY <2>2, Zenon
  <2> QED
    BY <2>1, <2>3, <2>4, <2>5, PartitionKept, Zenon
<1>9. NoLostGrant'
  <2>1. ASSUME NEW d \in Partitions
        PROVE  NothingOwed(queue'[d], verdict', active'[d], draining'[d])
    <3>1. /\ queue' = queue /\ active' = active
          /\ NothingOwed(queue[d], verdict, active[d], draining[d])
      BY <1>1, <1>2, NothingOwedFacts, Zenon
    <3>2. CASE d = b
      <4>1. \A i \in DOMAIN queue[d] : verdict'[queue[d][i]] # "none"
        BY <1>3, <1>4, <3>2
      <4>2. queue[d] # <<>> => 1 \in DOMAIN queue[d]
        BY <1>2 DEF TypeOK
      <4> QED
        BY <3>1, <4>1, <4>2, Zenon DEF NothingOwed
    <3>3. CASE d # b
      <4>1. draining'[d] = draining[d]
        BY <1>1, <1>2, <3>3 DEF TypeOK
      <4>2. \A i \in DOMAIN queue[d] : verdict'[queue[d][i]] = verdict[queue[d][i]]
        BY <1>3, <1>4, <3>3
      <4> QED
        BY <3>1, <4>1, <4>2, NothingOwedKept, Zenon
    <3> QED
      BY <3>2, <3>3
  <2> QED
    BY <2>1, NothingOwedFacts, Zenon
<1>10. ASSUME NEW x \in Callers, NEW d \in Partitions PROVE FifoStep(x, d)
  BY <1>1, <1>5 DEF FifoStep
<1> QED
  BY <1>6, <1>7, <1>8, <1>9, <1>10 DEF BulkheadInv

(* The registry, the clock, and nothing at all. *)
LEMMA OtherStep ==
  ASSUME BulkheadInv,
         Create \/ Remove \/ (\E c \in Callers : Expire(c)) \/ UNCHANGED vars
  PROVE  BulkheadInv' /\ \A x \in Callers, d \in Partitions : FifoStep(x, d)
<1>1. UNCHANGED <<active, queue, draining, drained, pc, at, verdict>>
  BY DEF Create, Remove, Expire, vars, partition, waiter
<1>2. /\ TypeOK /\ NoLostGrant
      /\ \A x \in Callers : WaiterInv(x)
      /\ \A d \in Partitions : PartitionInv(d)
  BY DEF BulkheadInv
<1>3. TypeOK'
  <2>1. past' \in [Callers -> BOOLEAN]
    BY <1>2, Zenon DEF TypeOK, Create, Remove, Expire, vars, waiter
  <2>2. registry' \in 0..created' /\ created' \in 0..MaxCreated
    <3>1. /\ registry \in 0..created /\ created \in 0..MaxCreated /\ MaxCreated \in Nat
      BY <1>2, ConfigAssumption DEF TypeOK
    <3>2. \/ registry' = registry /\ created' = created
          \/ registry' = created + 1 /\ created' = created + 1 /\ created < MaxCreated
          \/ registry' = 0 /\ created' = created
      BY DEF Create, Remove, Expire, vars
    <3> QED
      BY <3>1, <3>2
  <2> QED
    BY <1>1, <1>2, <2>1, <2>2 DEF TypeOK
<1>4. ASSUME NEW x \in Callers PROVE WaiterInv(x)'
  <2>1. queue' = queue /\ pc' = pc /\ at' = at /\ verdict' = verdict /\ WaiterInv(x)
    BY <1>1, <1>2, Zenon
  <2> QED
    BY <2>1, Zenon DEF WaiterInv
<1>5. ASSUME NEW d \in Partitions PROVE PartitionInv(d)'
  <2>1. d # registry' => active[d] = 0 /\ queue[d] = <<>>
    <3>1. registry' = registry \/ registry = 0 \/ (registry' = 0 /\ Removable(registry))
      BY DEF Create, Remove, Expire, vars
    <3>2. d # 0
      BY ConfigAssumption DEF Partitions
    <3> QED
      BY <1>2, <3>1, <3>2 DEF PartitionInv, Removable
  <2>2. d # registry' /\ d <= created' => draining[d]
    <3>1. \/ registry' = registry /\ created' = created
          \/ registry = 0 /\ registry' = created + 1 /\ created' = created + 1
          \/ registry' = 0 /\ Removable(registry) /\ created' = created
      BY DEF Create, Remove, Expire, vars
    <3>2. d # 0 /\ d \in Nat /\ created \in Nat
      BY <1>2, ConfigAssumption DEF Partitions, TypeOK
    <3> QED
      BY <1>2, <3>1, <3>2 DEF PartitionInv, Removable
  <2>3. Permits(d)' = Permits(d)
    BY <1>1, Zenon DEF Permits
  <2>4. /\ active' = active /\ queue' = queue /\ draining' = draining
        /\ pc' = pc /\ at' = at /\ verdict' = verdict
    BY <1>1, Zenon
  <2>5. PartitionInv(d)
    BY <1>2, Zenon
  <2> QED
    BY <2>1, <2>2, <2>3, <2>4, <2>5, Zenon DEF PartitionInv
<1>6. NoLostGrant'
  <2>1. queue' = queue /\ active' = active /\ draining' = draining /\ verdict' = verdict
    BY <1>1, Zenon
  <2> QED
    BY <1>2, <2>1, NothingOwedFacts, Zenon
<1>7. ASSUME NEW x \in Callers, NEW d \in Partitions PROVE FifoStep(x, d)
  BY <1>1 DEF FifoStep
<1> QED
  BY <1>3, <1>4, <1>5, <1>6, <1>7 DEF BulkheadInv

-----------------------------------------------------------------------------
(* The theorems *)

(* Every step of the program keeps the invariant and the order. *)
LEMMA BulkheadNext ==
  ASSUME BulkheadInv, [Next]_vars
  PROVE  BulkheadInv' /\ \A x \in Callers, d \in Partitions : FifoStep(x, d)
<1>1. ASSUME NEW c \in Callers, Woken(c) \/ Cancelled(c)
      PROVE  BulkheadInv' /\ \A x \in Callers, d \in Partitions : FifoStep(x, d)
  <2>1. PICK overdue \in Overdue : Leave(c, overdue)
    BY <1>1, Zenon DEF Woken, Cancelled
  <2>2. overdue \in SUBSET Callers
    BY <2>1 DEF Overdue
  <2> QED
    BY <2>1, <2>2, LeaveStep
<1>2. ASSUME NEW c \in Callers,
             \/ \E b \in Partitions : Admit(c, b) \/ Enqueue(c, b)
             \/ Permitted(c) \/ Release(c)
      PROVE  BulkheadInv' /\ \A x \in Callers, d \in Partitions : FifoStep(x, d)
  BY <1>2, AdmitStep, EnqueueStep, PermittedStep, ReleaseStep, Zenon
<1>3. ASSUME NEW b \in Partitions, Close(b)
      PROVE  BulkheadInv' /\ \A x \in Callers, d \in Partitions : FifoStep(x, d)
  BY <1>3, CloseStep, Zenon
<1>4. CASE Create \/ Remove \/ (\E c \in Callers : Expire(c)) \/ UNCHANGED vars
  BY <1>4, OtherStep, Zenon
<1> QED
  BY <1>1, <1>2, <1>3, <1>4, Zenon DEF Next

(* Nothing is there at first. *)
LEMMA BulkheadInit == Init => BulkheadInv
<1> SUFFICES ASSUME Init PROVE BulkheadInv
  OBVIOUS
<1>1. TypeOK
  BY ConfigAssumption DEF Init, TypeOK, Partitions
<1>2. NoLostGrant
  BY DEF Init, NoLostGrant
<1>3. ASSUME NEW c \in Callers PROVE WaiterInv(c)
  BY DEF Init, WaiterInv
<1>4. ASSUME NEW b \in Partitions PROVE PartitionInv(b)
  <2>1. Permits(b) = {}
    BY DEF Init, Permits
  <2>2. active[b] = 0 /\ queue[b] = <<>> /\ created = 0 /\ b \in Nat \ {0}
    BY ConfigAssumption DEF Init, Partitions
  <2>3. Total(Weight, Permits(b)) = 0
    BY <2>1, LoadFacts, Zenon
  <2> QED
    BY <2>2, <2>3 DEF PartitionInv
<1> QED
  BY <1>1, <1>2, <1>3, <1>4 DEF BulkheadInv

(* Whatever the callers, their weights, the capacity and the queue: an        *)
(* undecided or told waiter is in the list of its partition once, the counter *)
(* of a partition is the weight of its permits, and a partition that has been *)
(* replaced in the registry is empty and closed.                             *)
THEOREM BulkheadInvariant == Spec => []BulkheadInv
<1>1. BulkheadInv /\ [Next]_vars => BulkheadInv'
  BY BulkheadNext
<1> QED
  BY BulkheadInit, <1>1, PTL DEF Spec

(* All partitions ever created for a resource together admit no more than its *)
(* capacity: Registry.Remove lets go of a partition only when Snapshot says   *)
(* that it is drained, and a closed partition admits nobody again.           *)
THEOREM BulkheadCapacityShared == Spec => []CapacityShared
<1>1. BulkheadInv => CapacityShared
  <2> SUFFICES ASSUME BulkheadInv PROVE CapacityShared
    OBVIOUS
  <2>1. /\ TypeOK
        /\ \A b \in Partitions : active[b] = Total(Weight, Permits(b))
        /\ \A b \in Partitions : b # registry => active[b] = 0
    BY DEF BulkheadInv, PartitionInv
  <2>2. IsFiniteSet(Partitions)
    BY FS_Interval, ConfigAssumption DEF Partitions
  <2>3. Capacity \in Nat /\ active \in [Partitions -> 0..Capacity]
    BY <2>1, ConfigAssumption DEF TypeOK
  <2> DEFINE S == Partitions \ {registry}
             T == Partitions \cap {registry}
  <2>4. /\ Total(active, S) = 0
        /\ Total(active, S \cup T) = Total(active, S) + Total(active, T)
        /\ \A x \in Partitions : Total(active, {x}) = active[x]
        /\ (\A x \in T : active[x] = 0) => Total(active, T) = 0
    <3>1. S \in SUBSET Partitions /\ T \in SUBSET Partitions /\ S \cap T = {}
      OBVIOUS
    <3>2. \A x \in S : active[x] = 0
      BY <2>1
    <3> HIDE DEF S, T
    <3> QED
      BY <2>2, <2>3, <3>1, <3>2, TotalFacts
  <2>5. S \cup T = Partitions
    OBVIOUS
  <2>6. Total(active, T) \in 0..Capacity
    <3>1. CASE registry \in Partitions
      <4>1. T = {registry}
        BY <3>1
      <4>2. active[registry] \in 0..Capacity
        BY <2>3, <3>1
      <4> HIDE DEF T
      <4> QED
        BY <2>4, <3>1, <4>1, <4>2
    <3>2. CASE registry \notin Partitions
      <4>1. \A x \in T : active[x] = 0
        BY <3>2
      <4> HIDE DEF T
      <4> QED
        BY <2>3, <2>4, <4>1
    <3> QED
      BY <3>1, <3>2
  <2>7. Total(active, Partitions) <= Capacity
    <3> HIDE DEF S, T
    <3> QED
      BY <2>3, <2>4, <2>5, <2>6
  <2> QED
    BY <2>1, <2>7 DEF CapacityShared
<1> QED
  BY <1>1, BulkheadInvariant, PTL

(* No waiter is forgotten: after every section the head of the list does not  *)
(* fit unless a decided waiter is about to leave it, and Close leaves nobody  *)
(* undecided.                                                               *)
THEOREM BulkheadNoLostGrant == Spec => []NoLostGrant
<1>1. BulkheadInv => NoLostGrant
  BY DEF BulkheadInv
<1> QED
  BY <1>1, BulkheadInvariant, PTL

(* grantWaitersLocked never overtakes, and Acquire's fast path finds nobody   *)
(* to overtake.                                                             *)
THEOREM BulkheadStrictFifo == Spec => StrictFifo
<1>1. BulkheadInv /\ [Next]_vars => [\A c \in Callers, b \in Partitions : FifoStep(c, b)]_vars
  BY BulkheadNext
<1> QED
  BY <1>1, BulkheadInvariant, PTL DEF Spec, StrictFifo
=============================================================================

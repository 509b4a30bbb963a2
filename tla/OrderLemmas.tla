---------------------------- MODULE OrderLemmas ----------------------------
(***************************************************************************)
(* Lemmas about finite sets of numbers and finite ordered sets.            *)
(***************************************************************************)
EXTENDS Integers, FiniteSets, FiniteSetTheorems, WellFoundedInduction, TLAPS

\* In a finite set that is ordered, each number below its size is the rank of one element.
LEMMA RanksAreReached ==
    ASSUME NEW R, IsFiniteSet(R), NEW A \in [R -> SUBSET R],
           \A i \in R : i \notin A[i],
           \A i, j \in R : i # j => i \in A[j] \/ j \in A[i],
           \A i, j \in R : j \in A[i] => A[j] \subseteq A[i]
    PROVE  /\ \A i \in R : Cardinality(A[i]) \in 0 .. Cardinality(R) - 1
           /\ \A i, j \in R : j \in A[i] => Cardinality(A[j]) < Cardinality(A[i])
           /\ \A n \in 0 .. Cardinality(R) - 1 : \E i \in R : Cardinality(A[i]) = n
<1>1. Cardinality(R) \in Nat
  BY FS_CardinalityType
<1>2. ASSUME NEW i \in R
      PROVE  /\ IsFiniteSet(A[i])
             /\ Cardinality(A[i]) \in Nat
             /\ Cardinality(A[i]) < Cardinality(R)
  <2>1. A[i] \in SUBSET R /\ A[i] # R
    OBVIOUS
  <2>2. IsFiniteSet(A[i]) /\ Cardinality(A[i]) <= Cardinality(R) /\ Cardinality(R) # Cardinality(A[i])
    BY <2>1, FS_Subset
  <2>3. Cardinality(A[i]) \in Nat
    BY <2>2, FS_CardinalityType
  <2>. QED
    BY <1>1, <2>2, <2>3
<1>3. ASSUME NEW i \in R, NEW j \in R, j \in A[i]
      PROVE  Cardinality(A[j]) < Cardinality(A[i])
  <2>1. A[j] \in SUBSET A[i] /\ A[j] # A[i]
    BY <1>3
  <2>2. Cardinality(A[j]) <= Cardinality(A[i]) /\ Cardinality(A[i]) # Cardinality(A[j])
    BY <1>2, <2>1, FS_Subset
  <2>. QED
    BY <1>2, <2>2
<1>. DEFINE T == 0 .. Cardinality(R) - 1
            rank == [i \in R |-> Cardinality(A[i])]
<1>4. \A i \in R : Cardinality(A[i]) \in T
  BY <1>1, <1>2
<1>5. IsFiniteSet(T) /\ Cardinality(T) = Cardinality(R)
  BY <1>1, FS_Interval
<1>6. ASSUME NEW i \in R, NEW j \in R, rank[i] = rank[j] PROVE i = j
  <2>1. i # j => Cardinality(A[i]) < Cardinality(A[j]) \/ Cardinality(A[j]) < Cardinality(A[i])
    BY <1>3
  <2>. QED
    BY <1>2, <1>6, <2>1
<1>7. rank \in Injection(R, T)
  <2>1. rank \in [R -> T]
    BY <1>4
  <2>2. \A i, j \in R : rank[i] = rank[j] => i = j
    BY <1>6
  <2>. HIDE DEF rank, T
  <2>. QED
    BY <2>1, <2>2 DEF Injection, IsInjective
<1>8. rank \in Surjection(R, T)
  <2>. HIDE DEF rank, T
  <2>. QED
    BY <1>5, <1>7, FS_Injection
<1>9. \A n \in T : \E i \in R : Cardinality(A[i]) = n
  BY <1>8 DEF Surjection
<1>. QED
  BY <1>3, <1>4, <1>9

\* A nonempty set of numbers up to n has a last one.
LEMMA LastOfNumbers ==
    ASSUME NEW n \in Nat, NEW T \in SUBSET (1 .. n), T # {}
    PROVE  \E m \in T : \A k \in T : k <= m
<1>. DEFINE U == {n - k : k \in T}
<1>1. U \in SUBSET Nat /\ U # {}
  <2>1. \A k \in T : n - k \in Nat
    OBVIOUS
  <2>2. PICK k \in T : TRUE
    OBVIOUS
  <2>3. n - k \in U
    BY <2>2
  <2>. QED
    BY <2>1, <2>3
<1>2. PICK x \in U : \A y \in U : ~(<<y, x>> \in OpToRel(<, Nat))
  BY <1>1, NatLessThanWellFounded, WFMin
<1>3. x \in Nat /\ \A y \in U : ~(y < x)
  BY <1>1, <1>2 DEF OpToRel
<1>4. PICK m \in T : x = n - m
  OBVIOUS
<1>5. \A k \in T : ~(n - k < n - m)
  BY <1>3, <1>4
<1>. QED
  BY <1>5

\* A nonempty set of natural numbers has a first one.
LEMMA FirstOfNumbers ==
    ASSUME NEW T \in SUBSET Nat, T # {}
    PROVE  \E m \in T : \A k \in T : m <= k
<1>1. PICK m \in T : \A k \in T : ~(<<k, m>> \in OpToRel(<, Nat))
  BY NatLessThanWellFounded, WFMin
<1>2. \A k \in T : k \in Nat /\ m \in Nat /\ ~(k < m)
  BY <1>1 DEF OpToRel
<1>. QED
  BY <1>2
=============================================================================

----------------------------- MODULE LeastNumber -----------------------------
(***************************************************************************)
(* Induction on natural numbers, as a fact about sets: a set of them that  *)
(* is not empty has a least element.  The proofs about chains of records   *)
(* use it to look at the first record that is not as claimed.              *)
(***************************************************************************)
EXTENDS Naturals, FiniteSetTheorems, TLAPS

\* The numbers of a set stand for the intervals they end, which strict inclusion
\* orders as < orders the numbers, and which are finite.
THEOREM LeastElement ==
  ASSUME NEW S \in SUBSET Nat, S # {}
  PROVE  \E n \in S : \A m \in S : n <= m
  <1>. DEFINE T == {0..n : n \in S}
  <1>1. T \subseteq FiniteSubsetsOf(Nat)
    <2>1. ASSUME NEW n \in S
          PROVE  0..n \in FiniteSubsetsOf(Nat)
      <3>1. IsFiniteSet(0..n)
        BY FS_Interval
      <3>. QED
        BY <3>1 DEF FiniteSubsetsOf
    <2>. QED
      BY <2>1
  <1>2. T # {}
    OBVIOUS
  <1>3. PICK t \in T : \A u \in T : <<u, t>> \notin StrictSubsetOrdering(Nat)
    <2>. HIDE DEF T
    <2>. QED
      BY <1>1, <1>2, FS_StrictSubsetOrderingWellFounded, WFMin
  <1>4. PICK n \in S : t = 0..n
    OBVIOUS
  <1>5. ASSUME NEW m \in S, m < n
        PROVE  FALSE
    <2>1. 0..m \in T /\ <<0..m, 0..n>> \notin StrictSubsetOrdering(Nat)
      BY <1>3, <1>4
    <2>2. 0..m \subseteq 0..n /\ n \in 0..n /\ n \notin 0..m
      BY <1>5
    <2>. QED
      BY <2>1, <2>2 DEF StrictSubsetOrdering
  <1>. QED
    BY <1>5

\* What holds of 1, and of k + 1 whenever it holds of k, holds of 1..n.
THEOREM StepByStep ==
  ASSUME NEW n \in Nat \ {0}, NEW S, 1 \in S,
         \A k \in 1..(n - 1) : k \in S => k + 1 \in S
  PROVE  1..n \subseteq S
  <1>. DEFINE T == {k \in 1..n : k \notin S}
  <1>. SUFFICES ASSUME T # {}
                PROVE  FALSE
    OBVIOUS
  <1>1. PICK k \in T : \A j \in T : k <= j
    <2>1. T \in SUBSET Nat
      OBVIOUS
    <2>. HIDE DEF T
    <2>. QED
      BY <2>1, LeastElement
  <1>2. k # 1 /\ k - 1 \in 1..(n - 1) /\ (k - 1) + 1 = k
    OBVIOUS
  <1>3. k - 1 \in S
    BY <1>1, <1>2
  <1>. QED
    BY <1>2, <1>3

=============================================================================

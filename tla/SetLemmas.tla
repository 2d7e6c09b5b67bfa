------------------------------ MODULE SetLemmas ------------------------------
(***************************************************************************)
(* Facts about sets of numbers and about counting, from the libraries of   *)
(* finite sets and well-founded orders, that several proofs use.           *)
(***************************************************************************)
EXTENDS Integers, Sequences, FiniteSets, FiniteSetTheorems, WellFoundedInduction, TLAPS

-----------------------------------------------------------------------------
(* Well-ordering.                                                          *)

\* Every nonempty set of naturals has a least element.
LEMMA LeastNat ==
    ASSUME NEW T \in SUBSET Nat, T # {}
    PROVE  \E m \in T : \A k \in T : m <= k
<1> DEFINE F == {0 .. n : n \in T}
           R == StrictSubsetOrdering(Nat)
<1>1. F \subseteq FiniteSubsetsOf(Nat)
  <2>1. \A n \in T : IsFiniteSet(0 .. n) /\ 0 .. n \subseteq Nat
    BY FS_Interval
  <2> QED BY <2>1, Zenon DEF FiniteSubsetsOf
<1>2. IsWellFoundedOn(R, FiniteSubsetsOf(Nat))
  BY FS_StrictSubsetOrderingWellFounded
<1>3. F # {}
  OBVIOUS
<1>4. \E x \in F : \A y \in F : ~(<<y, x>> \in R)
  BY <1>1, <1>2, <1>3, WFMin
<1>5. PICK m \in T : \A k \in T : ~(<<0 .. k, 0 .. m>> \in R)
  BY <1>4
<1>6. ASSUME NEW k \in T, k < m PROVE FALSE
  <2>1. 0 .. k \subseteq 0 .. m /\ 0 .. k # 0 .. m
    <3>1. m \in 0 .. m /\ m \notin 0 .. k BY <1>6
    <3> QED BY <1>6, <3>1
  <2>2. <<0 .. k, 0 .. m>> \in R
    BY <2>1 DEF StrictSubsetOrdering
  <2> QED BY <1>5, <2>2
<1> QED BY <1>6

-----------------------------------------------------------------------------
(* Counting.                                                               *)

\* A sequence without repetitions is no longer than the set it draws from.
LEMMA Pigeonhole ==
    ASSUME NEW n \in Nat, NEW T, IsFiniteSet(T), Cardinality(T) = n, NEW s, NEW l \in Nat,
           \A i \in 1 .. l : s[i] \in T,
           \A i, j \in 1 .. l : s[i] = s[j] => i = j
    PROVE  l <= n
<1>1. SUFFICES ASSUME n < l PROVE FALSE OBVIOUS
<1> DEFINE f == [i \in 1 .. l |-> s[i]]
<1>2. IsFiniteSet(1 .. l) /\ Cardinality(1 .. l) = l BY <1>1, FS_Interval
<1>3. f \in [1 .. l -> T] OBVIOUS
<1>4. Cardinality(T) < Cardinality(1 .. l) BY <1>1, <1>2
<1>. HIDE DEF f
<1>5. \E x, y \in 1 .. l : x # y /\ f[x] = f[y] BY <1>2, <1>3, <1>4, FS_PigeonHole
<1> QED BY <1>5 DEF f
=============================================================================

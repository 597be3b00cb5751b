---------------------------- MODULE SetInduction ----------------------------
(***************************************************************************)
(* Induction over numbers and finite sets, in a form that needs no         *)
(* predicate as a parameter: a set of counterexamples that is not empty    *)
(* has a least member.  The proofs about the wastage scanner's cutoff and  *)
(* about the sums of the cost queries rest on it.                          *)
(***************************************************************************)
EXTENDS FiniteSetTheorems, TLAPS

\* A set of numbers that is not empty has a least member.
LEMMA LeastOf ==
  ASSUME NEW T \in SUBSET Nat, T # {}
  PROVE  \E m \in T : \A k \in T : m <= k
<1>1. PICK m \in T : \A k \in T : ~(<<k, m>> \in OpToRel(<, Nat))
  BY NatLessThanWellFounded, WFMin
<1>2. \A k \in T : ~(k < m)
  BY <1>1 DEF OpToRel
<1> QED
  BY <1>2

\* A bounded one has a greatest.
LEMMA GreatestOf ==
  ASSUME NEW N \in Nat, NEW T \in SUBSET (0..N), T # {}
  PROVE  \E m \in T : \A k \in T : k <= m
<1> DEFINE R == {n \in 0..N : N - n \in T}
<1>1. R \in SUBSET Nat /\ R # {}
  <2>1. PICK t \in T : TRUE
    OBVIOUS
  <2>2. N - t \in 0..N /\ N - (N - t) = t
    OBVIOUS
  <2> QED
    BY <2>1, <2>2
<1>2. PICK n \in R : \A k \in R : n <= k
  BY <1>1, LeastOf
<1>3. ASSUME NEW k \in T PROVE k <= N - n
  <2>1. N - k \in R
    OBVIOUS
  <2> QED
    BY <2>1, <1>2
<1> QED
  BY <1>2, <1>3

\* Of the subsets of a finite set, some that are given and are not none, one is minimal.
LEMMA MinimalSubset ==
  ASSUME NEW S, IsFiniteSet(S), NEW T \in SUBSET SUBSET S, T # {}
  PROVE  \E U \in T : \A V \in T : V \subseteq U => V = U
<1>1. IsWellFoundedOn(StrictSubsetOrdering(S), SUBSET S)
  BY FS_StrictSubsetOrderingWellFounded, FS_FiniteSubsetsOfFinite
<1>2. PICK U \in T : \A V \in T : ~(<<V, U>> \in StrictSubsetOrdering(S))
  BY <1>1, WFMin
<1> QED
  BY <1>2 DEF StrictSubsetOrdering

\* Counted from the largest, a set of more than n numbers has one at place n.
LEMMA RankExists ==
  ASSUME NEW N \in Nat, NEW D \in SUBSET (0..N), NEW n \in Nat, n < Cardinality(D)
  PROVE  \E c \in D : Cardinality({d \in D : d > c}) = n
<1> DEFINE Above(c) == {d \in D : d > c}
           Few == {c \in D : Cardinality(Above(c)) <= n}
<1>0. \A d \in D : d \in Nat
  OBVIOUS
<1>1. IsFiniteSet(D) /\ Cardinality(D) \in Nat
  <2>1. IsFiniteSet(0..N)
    BY FS_Interval
  <2> QED
    BY <2>1, FS_Subset, FS_CardinalityType
<1>2. \A c : IsFiniteSet(Above(c)) /\ Cardinality(Above(c)) \in Nat
  BY <1>1, FS_Subset, FS_CardinalityType
<1>3. Few # {}
  <2>1. D # {}
    BY <1>1, FS_EmptySet
  <2>2. PICK m \in D : \A k \in D : k <= m
    BY <2>1, GreatestOf
  <2>3. Above(m) = {}
    <3>1. \A d \in D : ~(d > m)
      BY <2>2, <1>0
    <3> QED
      BY <3>1
  <2>4. Cardinality(Above(m)) = 0
    BY <2>3, FS_EmptySet
  <2> QED
    BY <2>2, <2>4
<1>4. PICK c \in Few : \A k \in Few : c <= k
  <2>1. Few \in SUBSET Nat
    BY <1>0
  <2> HIDE DEF Few
  <2> QED
    BY <2>1, <1>3, LeastOf
<1>5. ASSUME Cardinality(Above(c)) # n PROVE FALSE
  <2> DEFINE U == Above(c) \cup {c}
             Rest == D \ U
  <2>1. IsFiniteSet(U) /\ Cardinality(U) = Cardinality(Above(c)) + 1
    <3>1. c \notin Above(c)
      OBVIOUS
    <3> HIDE DEF Above
    <3> QED
      BY <3>1, <1>2, FS_AddElement
  <2>2. Cardinality(U) <= n
    BY <2>1, <1>2, <1>4, <1>5
  <2>3. Rest # {}
    <3>1. U \subseteq D
      BY <1>4
    <3>2. U # D
      BY <2>2, <1>1
    <3> QED
      BY <3>1, <3>2
  <2>4. PICK b \in Rest : \A k \in Rest : k <= b
    <3>1. Rest \in SUBSET (0..N)
      OBVIOUS
    <3> HIDE DEF Rest
    <3> QED
      BY <3>1, <2>3, GreatestOf
  <2>5. b \in D /\ b < c
    BY <2>4, <1>4
  <2>6. Above(b) = U
    <3>1. \A d \in D : d > b <=> d > c \/ d = c
      BY <2>4, <2>5, <1>4, <1>0
    <3> QED
      BY <3>1, <1>4
  <2>7. b \in Few
    BY <2>2, <2>5, <2>6
  <2> QED
    BY <2>5, <2>7, <1>4
<1> QED
  BY <1>4, <1>5
=============================================================================

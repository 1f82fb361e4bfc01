----------------------------- MODULE LeastElements -----------------------------
(***************************************************************************)
(* Least elements of finite sets of numbers, for the proofs about          *)
(* GetReceiverConnection (the first entry of a std::map) and about         *)
(* TzMap::convert (the first transition that is later).                    *)
(***************************************************************************)
EXTENDS Naturals, FiniteSets, FiniteSetTheorems, WellFoundedInduction, TLAPS

\* A finite set of numbers that is not empty has a least element: the one with
\* the fewest elements up to it.
LEMMA LeastElement ==
  ASSUME NEW S, S \subseteq Nat, IsFiniteSet(S), S # {}
  PROVE  \E n \in S : \A d \in S : n <= d
<1> DEFINE UpTo(x) == {d \in S : d <= x}
           T == {UpTo(x) : x \in S}
<1>1. IsWellFoundedOn(StrictSubsetOrdering(S), SUBSET S)
  BY FS_StrictSubsetOrderingWellFounded, FS_FiniteSubsetsOfFinite
<1>2. T \subseteq SUBSET S /\ T # {}
  OBVIOUS
<1>3. PICK U \in T : \A V \in T : ~(<<V, U>> \in StrictSubsetOrdering(S))
  <2> HIDE DEF T
  <2> QED
    BY <1>1, <1>2, WFMin
<1>4. PICK n \in S : U = UpTo(n)
  OBVIOUS
<1>5. ASSUME NEW d \in S, d < n PROVE FALSE
  <2>1. UpTo(d) \in T
    OBVIOUS
  <2>2. UpTo(d) \subseteq UpTo(n)
    <3>1. \A x \in S : x <= d => x <= n
      BY <1>5
    <3> QED
      BY <3>1
  <2>3. n \in UpTo(n) /\ n \notin UpTo(d)
    BY <1>5
  <2>4. <<UpTo(d), UpTo(n)>> \in StrictSubsetOrdering(S)
    BY <2>2, <2>3 DEF StrictSubsetOrdering
  <2> QED
    BY <1>3, <1>4, <2>1, <2>4
<1> QED
  BY <1>5

=============================================================================

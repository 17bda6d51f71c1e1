------------------------------ MODULE Extrema -------------------------------
(***************************************************************************)
(* The least and the greatest of some numbers are among them: what the     *)
(* proofs need of Min and Max, with which the specifications pick the      *)
(* oldest record and the end of a page.                                    *)
(***************************************************************************)
EXTENDS Integers, FiniteSetsExt, WellFoundedInduction, NaturalsInduction, TLAPS

\* The least of some numbers is one of them and none is less.
LEMMA MinBelongs ==
    ASSUME NEW S \in SUBSET Nat, S # {}
    PROVE  Min(S) \in S /\ \A y \in S : Min(S) <= y
<1> DEFINE R == OpToRel(<, Nat)
<1>1. PICK m \in S : \A y \in S : ~(<<y, m>> \in R)
  BY WFMin, NatLessThanWellFounded
<1>2. \A y \in S : ~(y < m)
  BY <1>1 DEF OpToRel
<1>3. \A y \in S : m <= y
  BY <1>2
<1> QED BY <1>3 DEF Min

\* The same for the greatest, when they are bounded.
LEMMA MaxBelongs ==
    ASSUME NEW n \in Nat, NEW S \in SUBSET (0 .. n), S # {}
    PROVE  Max(S) \in S /\ \A y \in S : Max(S) >= y
<1> DEFINE R == OpToRel(<, Nat)
           gaps == {n - x : x \in S}
<1>1. gaps \in SUBSET Nat /\ gaps # {}
  <2>1. \A x \in S : n - x \in Nat
    OBVIOUS
  <2>2. gaps \subseteq Nat
    BY <2>1
  <2> QED BY <2>2
<1>2. PICK g \in gaps : \A y \in gaps : ~(<<y, g>> \in R)
  BY <1>1, WFMin, NatLessThanWellFounded
<1>3. PICK m \in S : g = n - m
  OBVIOUS
<1>4. \A y \in S : ~(n - y < n - m)
  BY <1>1, <1>2, <1>3 DEF OpToRel
<1>5. \A y \in S : m >= y
  BY <1>4
<1> QED BY <1>5 DEF Max
=============================================================================

------------------------------ MODULE NatLemmas ------------------------------
(* The least-number principle, the form of induction the proofs of this     *)
(* project use: a counterexample is taken minimal.                          *)
EXTENDS Integers, WellFoundedInduction, TLAPS

(* Every non-empty set of naturals has a least element (the choice that     *)
(* CSpace::insert makes, and the base of the arguments on ancestry).        *)
LEMMA LeastNat ==
    ASSUME NEW T \in SUBSET Nat, T # {}
    PROVE  \E x \in T : \A y \in T : x <= y
  <1> DEFINE R == {ss \in Nat \X Nat : ss[1] < ss[2]}
  <1>1. IsWellFoundedOn(R, Nat)
    BY NatLessThanWellFounded, Zenon DEF OpToRel
  <1>2. \E x \in T : \A y \in T : ~ (<<y, x>> \in R)
    <2> HIDE DEF R
    <2> QED BY <1>1, WFMin
  <1>3. PICK x \in T : \A y \in T : ~ (<<y, x>> \in R)
    BY <1>2
  <1>4. ASSUME NEW y \in T, y < x PROVE FALSE
    <2>1. <<y, x>> \in R
      BY <1>4
    <2> QED BY <1>3, <2>1
  <1>5. \A y \in T : x <= y
    BY <1>4
  <1> QED BY <1>5

(* Transitivity, for leaves whose terms are too large for one call.         *)
LEMMA LeqTransitive ==
    ASSUME NEW a \in Nat, NEW b \in Nat, NEW c \in Nat, a <= b, b <= c
    PROVE  a <= c
  OBVIOUS
=============================================================================

---------------------------- MODULE LeastElement ----------------------------
(***************************************************************************)
(* The least-element principle for the naturals, from the well-foundedness *)
(* of < on Nat.  The proofs about the model's searches (the first '\n',    *)
(* the first error, the first cookie of a name) and about its recursive    *)
(* functions argue from a least counterexample and cite it.                *)
(***************************************************************************)
EXTENDS Naturals, WellFoundedInduction, TLAPS

(* A non-empty set of naturals has a least element. *)
LEMMA NatSubsetHasMin ==
  ASSUME NEW T \in SUBSET Nat, T # {}
  PROVE  \E m \in T : \A k \in T : m <= k
  <1>1. PICK x \in T : \A y \in T : ~(<<y, x>> \in OpToRel(<, Nat))
    BY NatLessThanWellFounded, WFMin
  <1>2. ASSUME NEW y \in T PROVE x <= y
    <2>1. <<y, x>> \in Nat \X Nat
      OBVIOUS
    <2>2. ~(y < x)
      BY <1>1, <2>1 DEF OpToRel
    <2>3. QED
      BY <2>2
  <1>3. QED
    BY <1>2
=============================================================================

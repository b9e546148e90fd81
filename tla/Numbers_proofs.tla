--------------------------- MODULE Numbers_proofs ---------------------------
(***************************************************************************)
(* The least and the greatest of a set of numbers, for the modules that    *)
(* choose them.                                                            *)
(***************************************************************************)
EXTENDS Naturals, WellFoundedInduction, TLAPS

\* A set of numbers that is not empty has a least one.
LEMMA LeastNumber ==
    ASSUME NEW S \in SUBSET Nat, S # {}
    PROVE  \E x \in S : \A y \in S : x <= y
<1> DEFINE R == OpToRel(<, Nat)
<1>1. PICK x \in S : \A y \in S : <<y, x>> \notin R
  BY NatLessThanWellFounded, WFMin
<1>2. \A y \in S : ~ (y < x)
  BY <1>1 DEF OpToRel
<1> QED BY <1>2

\* Bounded numbers have a greatest.
LEMMA GreatestNumber ==
    ASSUME NEW n \in Nat, NEW S \in SUBSET (0..n), S # {}
    PROVE  \E x \in S : \A y \in S : x >= y
<1> DEFINE T == {n - s : s \in S}
<1>1. \A s \in S : s \in Nat /\ n - s \in Nat
  OBVIOUS
<1>2. T \in SUBSET Nat /\ T # {}
  BY <1>1
<1> HIDE DEF T
<1>3. PICK m \in T : \A t \in T : m <= t
  BY <1>2, LeastNumber
<1>4. PICK x \in S : m = n - x
  BY <1>3 DEF T
<1>5. \A y \in S : n - x <= n - y
  BY <1>3, <1>4 DEF T
<1> QED BY <1>1, <1>5
=============================================================================

----------------------------- MODULE IdsProofs -----------------------------
EXTENDS Ids, WellFoundedInduction, TLAPS

\* A set of ids that is not empty has a least one.
LEMMA LeastExists ==
    ASSUME NEW S, S \subseteq Nat, S # {}
    PROVE  \E x \in S : \A y \in S : x <= y
<1>1. PICK x \in S : \A y \in S : <<y, x>> \notin OpToRel(<, Nat)
  BY NatLessThanWellFounded, WFMin
<1>2. \A y \in S : ~(y < x)
  <2>1. SUFFICES ASSUME NEW y \in S, y < x PROVE FALSE
    OBVIOUS
  <2>2. <<y, x>> \in Nat \X Nat
    OBVIOUS
  <2>3. <<y, x>>[1] < <<y, x>>[2]
    BY <2>1
  <2>4. <<y, x>> \in OpToRel(<, Nat)
    BY <2>2, <2>3, Zenon DEF OpToRel
  <2> QED  BY <2>4, <1>1
<1> QED  BY <1>2

LEMMA LeastIn ==
    ASSUME NEW S, S \subseteq Nat, S # {}
    PROVE  Least(S) \in S
BY LeastExists DEF Least

\* No id of the set is less than its least.
LEMMA LeastBelow ==
    ASSUME NEW S, S \subseteq Nat, S # {}
    PROVE  \A j \in S : Least(S) <= j
BY LeastExists DEF Least
=============================================================================

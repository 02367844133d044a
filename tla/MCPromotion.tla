---------------------------- MODULE MCPromotion -----------------------------
(* Instances of Promotion for TLC.                                         *)
EXTENDS Promotion, TLC

CONSTANTS c1, c2, c3, o1, o2

\* Candidates and objects are interchangeable.
Ids == Permutations(Candidates) \cup Permutations(Objects)
=============================================================================

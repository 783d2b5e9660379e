------------------------------- MODULE MCAuth -------------------------------
(***************************************************************************)
(* Instances of Auth for model checking.                                   *)
(***************************************************************************)
EXTENDS Auth, TLC

CONSTANTS q1, q2, u1, u2, s1, s2

SessionSymmetry == Permutations(Sessions)
=============================================================================

------------------------------- MODULE MCSite -------------------------------
(***************************************************************************)
(* Instances of Site for model checking.                                   *)
(***************************************************************************)
EXTENDS Site, TLC

CONSTANTS q1, q2, u1, u2, p1

SiteSymmetry ==
  Permutations(Requests) \cup Permutations(Users) \cup Permutations(Posts)
=============================================================================

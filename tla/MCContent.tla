----------------------------- MODULE MCContent ------------------------------
(***************************************************************************)
(* Instances of Content for model checking.                                *)
(***************************************************************************)
EXTENDS Content

CONSTANTS r1, r2, p1, p2, a1, a2, b1, b2
=============================================================================

------------------------------ MODULE MCServe -------------------------------
(***************************************************************************)
(* Each of the five binaries, on both databases, with two requests.        *)
(***************************************************************************)
EXTENDS Serve
=============================================================================

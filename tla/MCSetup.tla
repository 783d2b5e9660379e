------------------------------ MODULE MCSetup -------------------------------
(***************************************************************************)
(* Instances of Setup.  Submissions s1 and s2 race with usernames of their *)
(* own, s3 asks for the name s1 asks for and registration g1 for that of   *)
(* s2.                                                                     *)
(***************************************************************************)
EXTENDS Setup

CONSTANTS s1, s2, s3, g1

MCNameOf == [r \in {s1, s2, s3, g1} |->
               IF r \in {s1, s3} THEN "ann" ELSE "bob"]
=============================================================================

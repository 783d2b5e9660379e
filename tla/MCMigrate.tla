----------------------------- MODULE MCMigrate ------------------------------
(***************************************************************************)
(* Instances of Migrate: a release, one that was built from a branch of it *)
(* and has another second migration, and one whose first file was edited   *)
(* after the fact.                                                         *)
(***************************************************************************)
EXTENDS Migrate, TLC

CONSTANTS r1, r2, r3

MCReleases == {"trunk", "branch", "edited"}

MCFiles ==
  [trunk  |-> 1 :> "a" @@ 2 :> "b",
   branch |-> 1 :> "a" @@ 3 :> "c",
   edited |-> 1 :> "z" @@ 2 :> "b"]
=============================================================================

------------------------------ MODULE MCRemote ------------------------------
(***************************************************************************)
(* One request of one browser, with a session that may end at any moment   *)
(* or with none: requests of the site share nothing but the sessions.      *)
(***************************************************************************)
EXTENDS Remote
=============================================================================

------------------------------ MODULE Exchange ------------------------------
(***************************************************************************)
(* What a caller may rely on of a call to a service: it is told once what  *)
(* became of it.  That is either what the service decided, in the words    *)
(* the single binary has for it, or a failure, which says nothing: the     *)
(* service may have decided already, or decide later, or never.  A caller  *)
(* that wants no response is worse off: any page under status 200 tells it *)
(* of a success, whoever sent it.                                          *)
(***************************************************************************)
CONSTANTS
  Calls,
  Verdicts,     \* what a service can decide
  Plainly(_, _), \* what a caller in the same process is told of a verdict
  Unheard,      \* calls whose caller wants no response
  None

VARIABLES verdict, told, mistaken

Init ==
  /\ verdict = [c \in Calls |-> None]
  /\ told = [c \in Calls |-> None]
  /\ mistaken = {}

Decide(c) ==
  /\ verdict[c] = None
  /\ \E v \in Verdicts : verdict' = [verdict EXCEPT ![c] = v]
  /\ UNCHANGED <<told, mistaken>>

Tell(c) ==
  /\ told[c] = None
  /\ \/ verdict[c] # None /\ told' = [told EXCEPT ![c] = Plainly(c, verdict[c])]
     \/ told' = [told EXCEPT ![c] = "failure"]
  /\ UNCHANGED <<verdict, mistaken>>

Mistake(c) ==
  /\ told[c] = None
  /\ c \in Unheard
  /\ told' = [told EXCEPT ![c] = "value"]
  /\ mistaken' = mistaken \cup {c}
  /\ UNCHANGED verdict

Next == \E c \in Calls : Decide(c) \/ Tell(c) \/ Mistake(c)

Spec == Init /\ [][Next]_<<verdict, told, mistaken>>
=============================================================================

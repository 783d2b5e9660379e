-------------------------------- MODULE Seat --------------------------------
(***************************************************************************)
(* What first-run setup promises, without how: the installation has one    *)
(* seat for a founder.  A founder takes it only while it is empty and may  *)
(* lose it again, when its setup is rolled back; it is never shared and    *)
(* never handed over.                                                      *)
(***************************************************************************)
CONSTANT Founders

VARIABLE seat  \* the founders who hold the seat

Init == seat = {}

Take(f) == seat = {} /\ seat' = {f}

Vacate == seat # {} /\ seat' = {}

Next == Vacate \/ \E f \in Founders : Take(f)

Spec == Init /\ [][Next]_seat
=============================================================================

----------------------------- MODULE SetupProofs -----------------------------
(***************************************************************************)
(* What module Setup promises, for any number of racing submissions and    *)
(* any mix of failures.                                                    *)
(*                                                                         *)
(* The recount is what decides: a request that counts one account counts   *)
(* its own, because its account is in the table from the insert to its     *)
(* rollback.  The inductive invariant therefore says, for each place a     *)
(* setup request can stand at, whether its account exists and whether it   *)
(* has passed the recount, and that the accounts that passed it and still  *)
(* exist are one at the most.                                              *)
(***************************************************************************)
EXTENDS Setup, FiniteSetTheorems, TLAPS

\* Where a setup request stands says what it has done.
Progress(r) ==
  /\ pc[r] \in {"idle", "open", "insert"} => r \notin users
  /\ pc[r] \in {"idle", "open", "insert", "recount"} => r \notin counted
  /\ pc[r] \in {"recount", "hook", "session"} => r \in users
  /\ pc[r] \in {"hook", "session"} => r \in counted
  /\ pc[r] # "register"
  /\ pc[r] = "session" => r \in admins
  /\ pc[r] \in {"idle", "open", "insert", "recount", "hook"}
       => attempts[r] < HookAttempts
  /\ outcome[r] \in {"won", "unsigned"} => pc[r] = "done" /\ r \in users \cap admins

OneSeated == \A r, s \in Seated : r = s

IInv ==
  /\ TypeOK
  /\ admins \cup inflight \subseteq counted
  /\ \A r \in Setups : Progress(r)
  /\ OneSeated

\* A request that counts itself alone is the only account.
LEMMA CountedAlone ==
  ASSUME TypeOK, Alone, NEW r \in users
  PROVE  users = {r}
<1>1. IsFiniteSet(users)
  BY SetupAssumption, FS_Subset DEF TypeOK
<1>2. PICK x : users = {x}
  BY <1>1, FS_Singleton DEF Alone
<1>3. QED
  BY <1>2

-----------------------------------------------------------------------------
\* Before the first request nothing has happened that the invariant speaks of.
LEMMA Initially == Init => IInv
BY SetupAssumption
DEF Init, IInv, TypeOK, Requests, Steps, Outcomes, Progress, OneSeated, Seated

\* No step takes a request out of its types; the attempts of the hook are
\* counted up to the last one and no further.
LEMMA TypePreserved ==
  ASSUME IInv, [Next]_vars
  PROVE  TypeOK'
<1> USE SetupAssumption DEF IInv, TypeOK, Requests, Steps, Outcomes, stores,
        Goto, Answer, Finish
<1>1. ASSUME NEW r \in Setups, SetupStep(r)
      PROVE  TypeOK'
  <2>1. CASE SetupGate(r)
    BY <2>1 DEF SetupGate
  <2>2. CASE CheckOpen(r)
    BY <2>2 DEF CheckOpen
  <2>3. CASE InsertFirst(r)
    BY <2>3 DEF InsertFirst, InsertUser
  <2>4. CASE Recount(r)
    BY <2>4 DEF Recount
  <2>5. CASE HookSucceeds(r)
    BY <2>5 DEF HookSucceeds
  <2>6. CASE HookFails(r)
    <3>1. attempts[r] + 1 \in 0 .. HookAttempts
      BY <2>6 DEF HookFails, Progress
    <3>2. QED
      BY <2>6, <3>1 DEF HookFails, GiveUp
  <2>7. CASE Rollback(r)
    BY <2>7 DEF Rollback, DeleteUser, EndRollback
  <2>8. CASE StartSession(r)
    BY <2>8 DEF StartSession
  <2>9. QED
    BY <1>1, <2>1, <2>2, <2>3, <2>4, <2>5, <2>6, <2>7, <2>8 DEF SetupStep
<1>2. ASSUME NEW r \in Registrations, RegisterStep(r)
      PROVE  TypeOK'
  BY <1>2 DEF RegisterStep, RegisterGate, Register, InsertUser
<1>3. ASSUME NEW r \in Setups, LateAssignment(r)
      PROVE  TypeOK'
  BY <1>3 DEF LateAssignment
<1>4. ASSUME NEW r \in Requests, StatementFails(r) \/ Abort(r)
      PROVE  TypeOK'
  BY <1>4 DEF StatementFails, Abort, InsertUser
<1>5. CASE UNCHANGED vars
  BY <1>5 DEF vars
<1>6. QED
  BY <1>1, <1>2, <1>3, <1>4, <1>5 DEF Next

\* A step moves the request that takes it along, and costs nobody else an
\* account, a role or a recount.
LEMMA ProgressPreserved ==
  ASSUME IInv, [Next]_vars, NEW s \in Setups
  PROVE  Progress(s)'
<1> USE SetupAssumption DEF IInv, TypeOK, Requests, Steps, Outcomes, stores,
        Goto, Answer, Finish
<1>1. ASSUME NEW r \in Setups, SetupStep(r)
      PROVE  Progress(s)'
  <2>1. CASE SetupGate(r)
    BY <2>1 DEF SetupGate, Progress
  <2>2. CASE CheckOpen(r)
    BY <2>2 DEF CheckOpen, Progress
  <2>3. CASE InsertFirst(r)
    BY <2>3 DEF InsertFirst, InsertUser, Progress
  <2>4. CASE Recount(r)
    BY <2>4 DEF Recount, Progress
  <2>5. CASE HookSucceeds(r)
    BY <2>5 DEF HookSucceeds, Progress
  <2>6. CASE HookFails(r)
    BY <2>6 DEF HookFails, GiveUp, Progress
  <2>7. CASE Rollback(r)
    BY <2>7 DEF Rollback, DeleteUser, EndRollback, Progress
  <2>8. CASE StartSession(r)
    BY <2>8 DEF StartSession, Progress
  <2>9. QED
    BY <1>1, <2>1, <2>2, <2>3, <2>4, <2>5, <2>6, <2>7, <2>8 DEF SetupStep
<1>2. ASSUME NEW r \in Registrations, RegisterStep(r)
      PROVE  Progress(s)'
  BY <1>2 DEF RegisterStep, RegisterGate, Register, InsertUser, Progress
<1>3. ASSUME NEW r \in Setups, LateAssignment(r)
      PROVE  Progress(s)'
  BY <1>3 DEF LateAssignment, Progress
<1>4. ASSUME NEW r \in Requests, StatementFails(r) \/ Abort(r)
      PROVE  Progress(s)'
  BY <1>4 DEF StatementFails, Abort, InsertUser, Progress
<1>5. CASE UNCHANGED vars
  BY <1>5 DEF vars, Progress
<1>6. QED
  BY <1>1, <1>2, <1>3, <1>4, <1>5 DEF Next

\* Whoever has passed the recount only a setup step can change, and of those
\* only a recount and a rollback: the one takes the empty seat, the other
\* leaves it.
LEMMA SeatStep ==
  ASSUME IInv, [Next]_vars
  PROVE  TheSeat!Next \/ UNCHANGED Seated
<1> USE SetupAssumption DEF IInv, TypeOK, Requests, Seated, stores, Goto,
        Answer, Finish
<1>1. ASSUME NEW r \in Setups, SetupStep(r)
      PROVE  TheSeat!Next \/ UNCHANGED Seated
  <2>1. CASE SetupGate(r) \/ CheckOpen(r) \/ HookSucceeds(r) \/ HookFails(r)
             \/ StartSession(r)
    BY <2>1 DEF SetupGate, CheckOpen, HookSucceeds, HookFails, StartSession
  <2>2. CASE InsertFirst(r)
    <3>1. r \notin counted
      BY <2>2 DEF InsertFirst, Progress
    <3>2. QED
      BY <2>2, <3>1 DEF InsertFirst, InsertUser
  <2>3. CASE Recount(r)
    <3>1. r \in users /\ r \notin counted
      BY <2>3 DEF Recount, Progress
    <3>2. CASE counted' = counted
      BY <2>3, <3>2 DEF Recount
    <3>3. CASE Alone /\ counted' = counted \cup {r}
      <4>1. users = {r}
        BY <3>1, <3>3, CountedAlone
      <4>2. Seated = {} /\ Seated' = {r}
        BY <2>3, <3>1, <3>3, <4>1 DEF Recount
      <4>3. QED
        BY <4>2 DEF TheSeat!Next, TheSeat!Take
    <3>4. QED
      BY <2>3, <3>2, <3>3 DEF Recount
  <2>4. CASE Rollback(r)
    <3>1. CASE users' = users
      BY <2>4, <3>1 DEF Rollback
    <3>2. CASE users' = users \ {r}
      <4>1. Seated' = Seated \ {r}
        BY <2>4, <3>2 DEF Rollback
      <4>2. CASE r \notin Seated
        BY <4>1, <4>2
      <4>3. CASE r \in Seated
        <5>1. Seated = {r}
          BY <4>3 DEF OneSeated
        <5>2. Seated # {} /\ Seated' = {}
          BY <4>1, <5>1
        <5>3. QED
          BY <5>2 DEF TheSeat!Next, TheSeat!Vacate
      <4>4. QED
        BY <4>2, <4>3
    <3>3. QED
      BY <2>4, <3>1, <3>2 DEF Rollback, DeleteUser
  <2>5. QED
    BY <1>1, <2>1, <2>2, <2>3, <2>4 DEF SetupStep
<1>2. ASSUME NEW r \in Registrations, RegisterStep(r)
      PROVE  UNCHANGED Seated
  BY <1>2 DEF RegisterStep, RegisterGate, Register, InsertUser
<1>3. ASSUME NEW r \in Setups, LateAssignment(r)
      PROVE  UNCHANGED Seated
  BY <1>3 DEF LateAssignment
<1>4. ASSUME NEW r \in Requests, StatementFails(r) \/ Abort(r)
      PROVE  UNCHANGED Seated
  <2>1. pc[r] = "insert" => r \notin counted
    BY DEF Progress
  <2>2. pc[r] = "register" => r \notin counted
    BY DEF Progress
  <2>3. CASE StatementFails(r)
    BY <2>1, <2>2, <2>3 DEF StatementFails, InsertUser
  <2>4. CASE Abort(r)
    BY <2>4 DEF Abort
  <2>5. QED
    BY <1>4, <2>3, <2>4
<1>5. CASE UNCHANGED vars
  BY <1>5 DEF vars
<1>6. QED
  BY <1>1, <1>2, <1>3, <1>4, <1>5 DEF Next

\* Roles, stored or on their way, are those of accounts that passed the recount.
LEMMA RolesPreserved ==
  ASSUME IInv, [Next]_vars
  PROVE  (admins \cup inflight \subseteq counted)'
<1> USE DEF IInv, stores
<1>1. ASSUME NEW r \in Setups, SetupStep(r)
      PROVE  (admins \cup inflight \subseteq counted)'
  <2>1. CASE HookSucceeds(r) \/ HookFails(r)
    BY <2>1 DEF HookSucceeds, HookFails, Progress
  <2>2. QED
    BY <1>1, <2>1 DEF SetupStep, SetupGate, CheckOpen, InsertFirst, Recount,
       Rollback, StartSession
<1>2. QED
  BY <1>1 DEF Next, vars, RegisterStep, RegisterGate, Register, LateAssignment,
     StatementFails, Abort

\* Every step keeps the invariant: the parts above, put together.
LEMMA Preserved == IInv /\ [Next]_vars => IInv'
<1> SUFFICES ASSUME IInv, [Next]_vars
             PROVE  IInv'
  OBVIOUS
<1>1. OneSeated'
  BY SeatStep DEF IInv, OneSeated, TheSeat!Next, TheSeat!Take, TheSeat!Vacate
<1>2. QED
  BY <1>1, TypePreserved, RolesPreserved, ProgressPreserved DEF IInv

\* The invariant is inductive, so every reachable state satisfies it.
LEMMA Invariant == Spec => []IInv
BY Initially, Preserved, PTL DEF Spec

-----------------------------------------------------------------------------
\* Every state has the types the model gives it.
THEOREM TypeCorrect == Spec => []TypeOK
BY Invariant, PTL DEF IInv

\* However submissions race, hooks fail and rollbacks are lost, at most one
\* existing account holds the administrator role setup hands out.
THEOREM OneAdministrator == Spec => []AtMostOneAdministrator
<1>1. IInv => AtMostOneAdministrator
  BY DEF IInv, OneSeated, Seated, AtMostOneAdministrator
<1>2. QED
  BY <1>1, Invariant, PTL

\* Whoever is told that setup is complete has the account and the role.
THEOREM WinnerIsAdministrator == Spec => []WinnerAdministers
<1>1. IInv => WinnerAdministers
  BY DEF IInv, Progress, WinnerAdministers
<1>2. QED
  BY <1>1, Invariant, PTL

\* Setup implements the seat: it is taken only while empty and never shared.
THEOREM Implementation == Spec => SeatIsRespected
<1>1. Init => TheSeat!Init
  BY DEF Init, TheSeat!Init, Seated
<1>2. IInv /\ [Next]_vars => [TheSeat!Next]_Seated
  BY SeatStep
<1>3. QED
  BY <1>1, <1>2, Invariant, PTL DEF Spec, SeatIsRespected, TheSeat!Spec

\* No step leaves a request whose own statements all worked refused with its
\* account in place: before the insert there is none, and after it only the
\* rollback, which then deletes it, ends in a refusal.
LEMMA RefusedPreserved ==
  ASSUME IInv, FailureLeavesNoAccount, [Next]_vars
  PROVE  FailureLeavesNoAccount'
<1> USE SetupAssumption DEF IInv, TypeOK, Requests, Steps, Outcomes, stores,
        Goto, Answer, Finish, FailureLeavesNoAccount
<1>1. ASSUME NEW r \in Setups, SetupStep(r)
      PROVE  FailureLeavesNoAccount'
  <2>1. CASE SetupGate(r)
    BY <2>1 DEF SetupGate, Progress
  <2>2. CASE CheckOpen(r)
    BY <2>2 DEF CheckOpen, Progress
  <2>3. CASE InsertFirst(r)
    BY <2>3 DEF InsertFirst, InsertUser, Progress
  <2>4. CASE Recount(r)
    BY <2>4 DEF Recount
  <2>5. CASE HookSucceeds(r)
    BY <2>5 DEF HookSucceeds
  <2>6. CASE HookFails(r)
    BY <2>6 DEF HookFails, GiveUp
  <2>7. CASE Rollback(r)
    BY <2>7 DEF Rollback, DeleteUser, EndRollback
  <2>8. CASE StartSession(r)
    BY <2>8 DEF StartSession
  <2>9. QED
    BY <1>1, <2>1, <2>2, <2>3, <2>4, <2>5, <2>6, <2>7, <2>8 DEF SetupStep
<1>2. ASSUME NEW r \in Registrations, RegisterStep(r)
      PROVE  FailureLeavesNoAccount'
  BY <1>2 DEF RegisterStep, RegisterGate, Register, InsertUser
<1>3. ASSUME NEW r \in Setups, LateAssignment(r)
      PROVE  FailureLeavesNoAccount'
  BY <1>3 DEF LateAssignment
<1>4. ASSUME NEW r \in Requests, StatementFails(r) \/ Abort(r)
      PROVE  FailureLeavesNoAccount'
  BY <1>4 DEF StatementFails, Abort, InsertUser
<1>5. CASE UNCHANGED vars
  BY <1>5 DEF vars
<1>6. QED
  BY <1>1, <1>2, <1>3, <1>4, <1>5 DEF Next

\* A refused setup whose own statements worked leaves no account behind,
\* whatever the authorization service and the other requests do.
THEOREM RefusedLeavesNothing == Spec => []FailureLeavesNoAccount
<1>1. Init => FailureLeavesNoAccount
  BY DEF Init, FailureLeavesNoAccount
<1>2. IInv /\ FailureLeavesNoAccount /\ [Next]_vars => FailureLeavesNoAccount'
  BY RefusedPreserved
<1>3. QED
  BY <1>1, <1>2, Invariant, PTL DEF Spec
=============================================================================

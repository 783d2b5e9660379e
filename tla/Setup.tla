------------------------------- MODULE Setup --------------------------------
(***************************************************************************)
(* First-run setup and registration of the identity service:               *)
(* auth/service.go (CompleteSetup, rollbackSetup, SetupOpen, Register),    *)
(* auth/ui/setup.go, auth/ui/register.go and the first-user hook of        *)
(* app/authapp/hook.go.                                                    *)
(*                                                                         *)
(* Every browser request runs on its own goroutine and is a sequence of    *)
(* single SQL statements (and one call to the authorization service) with  *)
(* no transaction around them, so each statement is one step here and      *)
(* requests interleave between any two of them.  A request inserts at most *)
(* one account and account identifiers are never reused, so the account a  *)
(* request creates is named by the request itself.  An assignment that     *)
(* reports success has been stored: that another page under status 200     *)
(* would be believed too (pkg/httpx/client.go:127) is left to Remote.      *)
(***************************************************************************)
EXTENDS Naturals, FiniteSets

CONSTANTS
  Setups,            \* POST /setup submissions
  Registrations,     \* POST /register submissions
  NameOf,            \* the username each submission asks for
  RegistrationOpen,  \* AUTH_REGISTRATION_OPEN
  HookAttempts,      \* calls the hook makes: 2 in the split topology, 1 else
  StoreFaults,       \* may a statement fail, or the process stop?
  HookFaults         \* may a call to the authorization service fail?

Requests == Setups \cup Registrations

ASSUME SetupAssumption ==
  /\ IsFiniteSet(Requests)
  /\ Setups \cap Registrations = {}
  /\ HookAttempts \in Nat \ {0}
  /\ {RegistrationOpen, StoreFaults, HookFaults} \subseteq BOOLEAN

VARIABLES
  users,     \* rows of the users table
  admins,    \* accounts whose administrator role row is stored in authz
  inflight,  \* role assignments that were given up on and may still land
  attempts,  \* hook calls a setup request has made
  pc,        \* the statement a request runs next
  outcome,   \* what the request answers, or is going to answer
  counted,   \* history: the setup requests whose recount was one
  faulted    \* history: the requests a store fault or a stop has hit

stores == <<users, admins, inflight>>

vars == <<users, admins, inflight, attempts, pc, outcome, counted, faulted>>

Steps == {"idle", "open", "insert", "recount", "hook", "rollback", "session",
          "register", "done"}

Outcomes == {"none", "closed", "rejected", "failed", "won", "unsigned",
             "registered", "aborted"}

TypeOK ==
  /\ users \subseteq Requests
  /\ admins \subseteq Setups
  /\ inflight \subseteq Setups
  /\ attempts \in [Setups -> 0 .. HookAttempts]
  /\ pc \in [Requests -> Steps]
  /\ outcome \in [Requests -> Outcomes]
  /\ counted \subseteq Setups
  /\ faulted \subseteq Requests

Init ==
  /\ users = {}
  /\ admins = {}
  /\ inflight = {}
  /\ attempts = [r \in Setups |-> 0]
  /\ pc = [r \in Requests |-> "idle"]
  /\ outcome = [r \in Requests |-> "none"]
  /\ counted = {}
  /\ faulted = {}

-----------------------------------------------------------------------------
Goto(r, step) == pc' = [pc EXCEPT ![r] = step]

Answer(r, o) == outcome' = [outcome EXCEPT ![r] = o]

Finish(r, o) == Goto(r, "done") /\ Answer(r, o)

\* SetupOpen: no account exists.
SetupOpen == Cardinality(users) = 0

\* The unique index on usernames.
NameFree(r) == \A u \in users : NameOf[u] # NameOf[r]

InsertUser(r) == users' = users \cup {r}

DeleteUserNothing(r) == UNCHANGED users
DeleteUser(r) == users' = users \ {r}

\* The browser gate, before the service is called.
SetupGate(r) ==
  /\ pc[r] = "idle"
  /\ \/ SetupOpen /\ Goto(r, "open") /\ UNCHANGED outcome
     \/ ~SetupOpen /\ Finish(r, "closed")
  /\ UNCHANGED <<stores, attempts, counted, faulted>>

\* CompleteSetup asks again.
CheckOpen(r) ==
  /\ pc[r] = "open"
  /\ \/ SetupOpen /\ Goto(r, "insert") /\ UNCHANGED outcome
     \/ ~SetupOpen /\ Finish(r, "closed")
  /\ UNCHANGED <<stores, attempts, counted, faulted>>

\* CompleteSetup calls Register, which rejects a form that does not validate
\* as well as a name that is taken.
InsertFirst(r) ==
  /\ pc[r] = "insert"
  /\ \/ NameFree(r) /\ InsertUser(r) /\ Goto(r, "recount") /\ UNCHANGED outcome
     \/ UNCHANGED users /\ Finish(r, "rejected")
  /\ UNCHANGED <<admins, inflight, attempts, counted, faulted>>

\* The count after the insert decides who goes on.
AloneOrAhead == Cardinality(users) \in {1, 2}
Alone == Cardinality(users) = 1

Recount(r) ==
  /\ pc[r] = "recount"
  /\ \/ /\ Alone /\ Goto(r, "hook")
        /\ counted' = counted \cup {r} /\ UNCHANGED outcome
     \/ /\ ~Alone /\ Goto(r, "rollback")
        /\ Answer(r, "closed") /\ UNCHANGED counted
  /\ UNCHANGED <<stores, attempts, faulted>>

\* One AssignRole call of the hook is answered in time.
HookSucceeds(r) ==
  /\ pc[r] = "hook"
  /\ admins' = admins \cup {r}
  /\ Goto(r, "session")
  /\ UNCHANGED <<users, inflight, attempts, outcome, counted, faulted>>

GiveUpAsSuccess(r) == Goto(r, "session") /\ UNCHANGED outcome
GiveUp(r) == Goto(r, "rollback") /\ Answer(r, "failed")

\* It fails: the role was not stored, or was stored with the answer lost, or
\* is stored after the caller stopped waiting.
HookFails(r) ==
  /\ HookFaults
  /\ pc[r] = "hook"
  /\ attempts' = [attempts EXCEPT ![r] = @ + 1]
  /\ \/ UNCHANGED <<admins, inflight>>
     \/ admins' = admins \cup {r} /\ UNCHANGED inflight
     \/ inflight' = inflight \cup {r} /\ UNCHANGED admins
  /\ \/ attempts[r] + 1 < HookAttempts /\ UNCHANGED <<pc, outcome>>
     \/ attempts[r] + 1 >= HookAttempts /\ GiveUp(r)
  /\ UNCHANGED <<users, counted, faulted>>

LateAssignment(r) ==
  /\ r \in inflight
  /\ admins' = admins \cup {r}
  /\ inflight' = inflight \ {r}
  /\ UNCHANGED <<users, attempts, pc, outcome, counted, faulted>>

\* rollbackSetup.
RetryFromStart(r) == Goto(r, "open")
EndRollback(r) == Goto(r, "done")

Rollback(r) ==
  /\ pc[r] = "rollback"
  /\ DeleteUser(r)
  /\ EndRollback(r)
  /\ UNCHANGED <<admins, inflight, attempts, outcome, counted, faulted>>

\* The handler signs the founder in.
StartSession(r) ==
  /\ pc[r] = "session"
  /\ Finish(r, "won")
  /\ UNCHANGED <<stores, attempts, counted, faulted>>

-----------------------------------------------------------------------------
\* Open registration admits anyone; otherwise it takes a permission only a
\* signed-in administrator holds.  It does not look at SetupOpen.
MayRegister == RegistrationOpen \/ users \cap admins # {}

RegisterGate(r) ==
  /\ pc[r] = "idle"
  /\ \/ MayRegister /\ Goto(r, "register") /\ UNCHANGED outcome
     \/ ~MayRegister /\ Finish(r, "closed")
     \/ HookFaults /\ ~RegistrationOpen /\ Finish(r, "failed")
  /\ UNCHANGED <<stores, attempts, counted, faulted>>

Register(r) ==
  /\ pc[r] = "register"
  /\ \/ NameFree(r) /\ InsertUser(r) /\ Finish(r, "registered")
     \/ UNCHANGED users /\ Finish(r, "rejected")
  /\ UNCHANGED <<admins, inflight, attempts, counted, faulted>>

-----------------------------------------------------------------------------
\* The statement a request stands at fails.  An insert that reports an error
\* may have been committed all the same, when the connection was lost after
\* it; a count that cannot be had is a lost race; a failed rollback is only
\* logged; the account stays when its owner cannot be signed in.
StatementFails(r) ==
  /\ StoreFaults
  /\ \/ pc[r] \in {"idle", "open"} /\ UNCHANGED users /\ Finish(r, "failed")
     \/ /\ pc[r] \in {"insert", "register"} /\ NameFree(r)
        /\ InsertUser(r) \/ UNCHANGED users
        /\ Finish(r, "failed")
     \/ pc[r] = "recount" /\ UNCHANGED users /\ Goto(r, "rollback") /\ Answer(r, "failed")
     \/ pc[r] = "rollback" /\ UNCHANGED <<users, outcome>> /\ Goto(r, "done")
     \/ pc[r] = "session" /\ UNCHANGED users /\ Finish(r, "unsigned")
  /\ faulted' = faulted \cup {r}
  /\ UNCHANGED <<admins, inflight, attempts, counted>>

\* The process is killed, or the browser goes away and every later statement
\* of the request fails on its cancelled context, the rollback included.
Abort(r) ==
  /\ StoreFaults
  /\ pc[r] \notin {"idle", "done"}
  /\ Finish(r, "aborted")
  /\ faulted' = faulted \cup {r}
  /\ UNCHANGED <<stores, attempts, counted>>

-----------------------------------------------------------------------------
SetupStep(r) ==
  \/ SetupGate(r) \/ CheckOpen(r) \/ InsertFirst(r) \/ Recount(r)
  \/ HookSucceeds(r) \/ HookFails(r) \/ Rollback(r) \/ StartSession(r)

RegisterStep(r) == RegisterGate(r) \/ Register(r)

Next ==
  \/ \E r \in Setups : SetupStep(r) \/ LateAssignment(r)
  \/ \E r \in Registrations : RegisterStep(r)
  \/ \E r \in Requests : StatementFails(r) \/ Abort(r)

Spec == Init /\ [][Next]_vars

\* A handler that has begun runs on: every statement returns or fails in time.
\* A submission that was never made need not be.
Fairness ==
  /\ \A r \in Setups :
       WF_vars(pc[r] # "idle" /\ (SetupStep(r) \/ StatementFails(r)))
  /\ \A r \in Registrations :
       WF_vars(pc[r] # "idle" /\ (RegisterStep(r) \/ StatementFails(r)))

FairSpec == Spec /\ Fairness

-----------------------------------------------------------------------------
(* Properties.                                                             *)

\* The existing accounts whose setup request counted itself alone.
Seated == users \cap counted

\* Setup hands the administrator role to at most one existing account.
AtMostOneAdministrator == \A r, s \in users \cap admins : r = s

\* Whoever is told that setup is complete holds the account and the role, in
\* two services, and keeps them (service.go:413-419).
WinnerAdministers ==
  \A r \in Setups : outcome[r] \in {"won", "unsigned"} => r \in users \cap admins

\* A setup request that does not succeed leaves no account behind, whatever
\* the authorization service did and whoever else failed, unless one of its own
\* statements failed (service.go:383-384, handler_test.go:223-239).
FailureLeavesNoAccount ==
  \A r \in Setups \ faulted :
    (pc[r] = "done" /\ outcome[r] # "won") => r \notin users

\* Every submission is answered: the hook gives up after its attempts.
EveryRequestAnswered ==
  \A r \in Requests : pc[r] # "idle" ~> pc[r] = "done"

\* At most one account that passed the recount exists at any time, however
\* submissions race, hooks fail and rollbacks are lost, and the next one passes
\* only after the last is gone (service.go:400-416): setup implements the seat.
TheSeat == INSTANCE Seat WITH Founders <- Setups, seat <- Seated

SeatIsRespected == TheSeat!Spec
=============================================================================

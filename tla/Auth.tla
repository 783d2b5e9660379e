-------------------------------- MODULE Auth --------------------------------
(***************************************************************************)
(* Accounts, passwords and sessions of the identity service:               *)
(* auth/service.go over auth/sqlite/user.go and session.go, driven by the  *)
(* pages of auth/ui (login, register, logout, password) and by the account *)
(* pages of the site.  First-run setup is module Setup.                    *)
(*                                                                         *)
(* Every statement is one step and requests interleave between statements. *)
(* A browser is its session token, a token is its session row, and a hash  *)
(* is the algorithm that made it and the password it verifies.  Input that *)
(* is refused before anything is written changes nothing and is left out.  *)
(***************************************************************************)
EXTENDS Naturals

CONSTANTS
  Users,      \* account identifiers, each drawn at most once
  Sessions,   \* session identifiers, with the token that goes with each
  Usernames,
  Passwords,
  Algorithms, \* the registered password hash algorithms
  Preferred,  \* the one new hashes are made with
  Requests,   \* requests the service handles at the same time
  TTL,        \* session lifetime
  TouchAfter, \* touchInterval
  MaxTime,    \* bound: how far the clock runs
  None

ASSUME AuthAssumption ==
  /\ Preferred \in Algorithms
  /\ TTL \in Nat \ {0}
  /\ TouchAfter \in Nat \ {0}
  /\ MaxTime \in Nat
  /\ None \notin Users \cup Sessions \cup Passwords

VARIABLES
  users,     \* users table
  sessions,  \* sessions table
  drawn,     \* account and session identifiers drawn so far
  req,       \* what each request knows, and the statement it runs next
  now,       \* the clock
  chosen,    \* history: the password each owner chose last
  revoked    \* history: sessions a completed password change was to end

vars == <<users, sessions, drawn, req, now, chosen, revoked>>

Hash == [alg : Algorithms, pw : Passwords]

User == [name : Usernames, hash : Hash]

Session == [user : Users, expires : Nat, seen : Nat]

Ops == {"login", "password", "profile"}

Steps == {"rehash", "replace", "create", "expire", "user", "touch", "read",
          "update", "revoke"}

Request == [op : Ops, at : Steps, uid : Users, cookie : Sessions \cup {None},
            input : Passwords \cup Usernames \cup (Passwords \X Passwords),
            due : BOOLEAN, copy : User \cup {None}, before : SUBSET Sessions]

TypeOK ==
  /\ drawn \subseteq Users \cup Sessions
  /\ DOMAIN users \subseteq drawn \cap Users
  /\ users \in [DOMAIN users -> User]
  /\ DOMAIN sessions \subseteq drawn \cap Sessions
  /\ sessions \in [DOMAIN sessions -> Session]
  /\ req \in [Requests -> Request \cup {None}]
  /\ now \in 0 .. MaxTime
  /\ chosen \in [Users -> Passwords \cup {None}]
  /\ revoked \subseteq Sessions

\* The service starts on the accounts an earlier run left, whose hashes any
\* registered algorithm may have made; the sessions of that run are expired.
Init ==
  /\ \E old \in SUBSET Users :
       /\ drawn = old
       /\ users \in [old -> User]
       /\ \A u, v \in old : users[u].name = users[v].name => u = v
       /\ chosen = [u \in Users |-> IF u \in old THEN users[u].hash.pw ELSE None]
  /\ sessions = [s \in {} |-> None]
  /\ req = [q \in Requests |-> None]
  /\ now = 0
  /\ revoked = {}

-----------------------------------------------------------------------------
Keep(f, S) == [x \in DOMAIN f \cap S |-> f[x]]

Put(f, k, v) == [x \in DOMAIN f \cup {k} |-> IF x = k THEN v ELSE f[x]]

Idle(q) == req[q] = None

At(q, step) == ~Idle(q) /\ req[q].at = step

Goto(q, step) == req' = [req EXCEPT ![q].at = step]

End(q) == req' = [req EXCEPT ![q] = None]

NameFree(n, u) == \A v \in DOMAIN users \ {u} : users[v].name # n

SessionsOf(u) == {s \in DOMAIN sessions : sessions[s].user = u}

Expired(s) == now >= sessions[s].expires

DropSessions(S) == sessions' = Keep(sessions, DOMAIN sessions \ S)

(* The statements. *)

\* UPDATE users: the whole row, or nothing when it is gone or the name taken.
UpsertUser(u, row) == users' = Put(users, u, row)

UpdateUser(u, row) ==
  IF u \in DOMAIN users /\ NameFree(row.name, u)
  THEN users' = [users EXCEPT ![u] = row]
  ELSE UNCHANGED users

\* UPDATE sessions SET last_seen.
SlideSession(s, u) ==
  IF s \in DOMAIN sessions
  THEN sessions' = [sessions EXCEPT ![s].seen = now, ![s].expires = now + TTL]
  ELSE UNCHANGED sessions

ReinsertSession(s, u) ==
  sessions' = Put(sessions, s, [user |-> u, expires |-> now + TTL, seen |-> now])

TouchSession(s, u) ==
  IF s \in DOMAIN sessions
  THEN sessions' = [sessions EXCEPT ![s].seen = now]
  ELSE UNCHANGED sessions

\* DELETE FROM users; the foreign key takes the sessions with it.
DeleteUserAlone(u) == UNCHANGED sessions

Cascade(u) == DropSessions(SessionsOf(u))

-----------------------------------------------------------------------------
\* POST /register: the account, then a session unless an administrator
\* created it for somebody else.
Register(q, u, n, p, k) ==
  /\ Idle(q)
  /\ u \notin drawn
  /\ NameFree(n, u)
  /\ users' = Put(users, u, [name |-> n, hash |-> [alg |-> Preferred, pw |-> p]])
  /\ drawn' = drawn \cup {u}
  /\ chosen' = [chosen EXCEPT ![u] = p]
  /\ \/ req' = [req EXCEPT ![q] =
          [op |-> "login", at |-> "replace", uid |-> u, cookie |-> k,
           input |-> p, due |-> FALSE, copy |-> None, before |-> {}]]
     \/ UNCHANGED req
  /\ UNCHANGED <<sessions, now, revoked>>

\* POST /login: Authenticate reads the account and verifies the password.
Login(q, u, p, k) ==
  /\ Idle(q)
  /\ u \in DOMAIN users
  /\ users[u].hash.pw = p
  /\ req' = [req EXCEPT ![q] =
       [op |-> "login", uid |-> u, cookie |-> k, input |-> p,
        at |-> IF users[u].hash.alg = Preferred THEN "replace" ELSE "rehash",
        due |-> FALSE, copy |-> users[u], before |-> {}]]
  /\ UNCHANGED <<users, sessions, drawn, now, chosen, revoked>>

\* rehashIfNeeded; its failure does not fail the login.
Rehash(q) ==
  /\ At(q, "rehash")
  /\ \/ UpdateUser(req[q].uid,
          [req[q].copy EXCEPT !.hash = [alg |-> Preferred, pw |-> req[q].input]])
     \/ UNCHANGED users
  /\ Goto(q, "replace")
  /\ UNCHANGED <<sessions, drawn, now, chosen, revoked>>

\* startSession revokes the session the browser presented...
Replace(q) ==
  /\ At(q, "replace")
  /\ DropSessions({req[q].cookie})
  /\ Goto(q, "create")
  /\ UNCHANGED <<users, drawn, now, chosen, revoked>>

\* ...and issues another.  The foreign key refuses one for a deleted account.
\* Bound: only while the clock can still reach the end of the session.
CreateSession(q, s) ==
  /\ At(q, "create")
  /\ s \notin drawn
  /\ now + TTL <= MaxTime
  /\ IF req[q].uid \in DOMAIN users
     THEN sessions' = Put(sessions, s,
            [user |-> req[q].uid, expires |-> now + TTL, seen |-> now])
     ELSE UNCHANGED sessions
  /\ drawn' = drawn \cup {s}
  /\ End(q)
  /\ UNCHANGED <<users, now, chosen, revoked>>

-----------------------------------------------------------------------------
\* POST /password and POST /account begin with ResolveSession: the session...
Begin(q, op, s, input) ==
  /\ Idle(q)
  /\ s \in DOMAIN sessions
  /\ req' = [req EXCEPT ![q] =
       [op |-> op, at |-> IF Expired(s) THEN "expire" ELSE "user",
        uid |-> sessions[s].user, cookie |-> s, input |-> input,
        due |-> now - sessions[s].seen >= TouchAfter, copy |-> None, before |-> {}]]
  /\ UNCHANGED <<users, sessions, drawn, now, chosen, revoked>>

\* ...which is deleted and reported as absent when it has expired...
DropExpired(q) ==
  /\ At(q, "expire")
  /\ DropSessions({req[q].cookie}) \/ UNCHANGED sessions
  /\ End(q)
  /\ UNCHANGED <<users, drawn, now, chosen, revoked>>

\* ...then its account...
ResolveUser(q) ==
  /\ At(q, "user")
  /\ IF req[q].uid \notin DOMAIN users THEN End(q)
     ELSE Goto(q, IF req[q].due THEN "touch" ELSE "read")
  /\ UNCHANGED <<users, sessions, drawn, now, chosen, revoked>>

\* ...and the touch, when last_seen was old enough; its failure is logged.
Touch(q) ==
  /\ At(q, "touch")
  /\ TouchSession(req[q].cookie, req[q].uid) \/ UNCHANGED sessions
  /\ Goto(q, "read")
  /\ UNCHANGED <<users, drawn, now, chosen, revoked>>

\* ChangePassword and UpdateProfile read the account again and change the copy.
ForgottenHash(row, p) == row
UntaggedHash(row, p) == [row EXCEPT !.hash = [alg |-> None, pw |-> p]]
WithPassword(row, p) == [row EXCEPT !.hash = [alg |-> Preferred, pw |-> p]]

ReadForPassword(q) ==
  /\ At(q, "read") /\ req[q].op = "password"
  /\ LET u == req[q].uid IN
     IF u \in DOMAIN users /\ users[u].hash.pw = req[q].input[1]
     THEN req' = [req EXCEPT ![q].at = "update",
                    ![q].copy = WithPassword(users[u], req[q].input[2])]
     ELSE End(q)
  /\ UNCHANGED <<users, sessions, drawn, now, chosen, revoked>>

ReadForProfile(q) ==
  /\ At(q, "read") /\ req[q].op = "profile"
  /\ LET u == req[q].uid IN
     IF u \in DOMAIN users
     THEN req' = [req EXCEPT ![q].at = "update",
                    ![q].copy = [users[u] EXCEPT !.name = req[q].input]]
     ELSE End(q)
  /\ UNCHANGED <<users, sessions, drawn, now, chosen, revoked>>

Stored(q) == req[q].uid \in DOMAIN users /\ NameFree(req[q].copy.name, req[q].uid)

StoreProfile(q) ==
  /\ At(q, "update") /\ req[q].op = "profile"
  /\ UpdateUser(req[q].uid, req[q].copy)
  /\ End(q)
  /\ UNCHANGED <<sessions, drawn, now, chosen, revoked>>

StorePassword(q) ==
  /\ At(q, "update") /\ req[q].op = "password"
  /\ UpdateUser(req[q].uid, req[q].copy)
  /\ IF Stored(q)
     THEN /\ req' = [req EXCEPT ![q].at = "revoke",
                       ![q].before = SessionsOf(req[q].uid) \ {req[q].cookie}]
          /\ chosen' = [chosen EXCEPT ![req[q].uid] = req[q].input[2]]
     ELSE End(q) /\ UNCHANGED chosen
  /\ UNCHANGED <<sessions, drawn, now, revoked>>

\* DeleteSessionsByUser, all but the caller's own.
RevokeOthers(q) == DropSessions(SessionsOf(req[q].uid) \ {req[q].cookie})

FinishPassword(q) ==
  /\ At(q, "revoke")
  /\ RevokeOthers(q)
  /\ revoked' = revoked \cup req[q].before
  /\ End(q)
  /\ UNCHANGED <<users, drawn, now, chosen>>

-----------------------------------------------------------------------------
Logout(s) ==
  /\ s \in DOMAIN sessions
  /\ DropSessions({s})
  /\ UNCHANGED <<users, drawn, req, now, chosen, revoked>>

DeleteUser(u) ==
  /\ u \in DOMAIN users
  /\ users' = Keep(users, DOMAIN users \ {u})
  /\ Cascade(u)
  /\ UNCHANGED <<drawn, req, now, chosen, revoked>>

\* The hourly sweep of app.go; a failed one is logged and tried again.
Sweep ==
  /\ DropSessions({s \in DOMAIN sessions : sessions[s].expires <= now})
  /\ UNCHANGED <<users, drawn, req, now, chosen, revoked>>

Tick ==
  /\ now < MaxTime
  /\ now' = now + 1
  /\ UNCHANGED <<users, sessions, drawn, req, chosen, revoked>>

\* A statement fails, the browser goes away or the process stops.
Fail(q) ==
  /\ ~Idle(q)
  /\ End(q)
  /\ UNCHANGED <<users, sessions, drawn, now, chosen, revoked>>

-----------------------------------------------------------------------------
Cookies == DOMAIN sessions \cup {None}

Next ==
  \/ \E q \in Requests, u \in Users, n \in Usernames, p \in Passwords, k \in Cookies :
       Register(q, u, n, p, k)
  \/ \E q \in Requests, u \in Users, p \in Passwords, k \in Cookies : Login(q, u, p, k)
  \/ \E q \in Requests, s \in Sessions : CreateSession(q, s)
  \/ \E q \in Requests, s \in Sessions :
       \/ \E p, new \in Passwords : Begin(q, "password", s, <<p, new>>)
       \/ \E n \in Usernames : Begin(q, "profile", s, n)
  \/ \E q \in Requests :
       \/ Rehash(q) \/ Replace(q)
       \/ DropExpired(q) \/ ResolveUser(q) \/ Touch(q)
       \/ ReadForPassword(q) \/ ReadForProfile(q)
       \/ StoreProfile(q) \/ StorePassword(q) \/ FinishPassword(q)
       \/ Fail(q)
  \/ \E s \in Sessions : Logout(s)
  \/ \E u \in Users : DeleteUser(u)
  \/ Sweep
  \/ Tick

Spec == Init /\ [][Next]_vars

\* The sweeper's ticker keeps firing for as long as the process lives, and
\* time passes.
FairSpec == Spec /\ WF_vars(Sweep) /\ WF_vars(Tick)

-----------------------------------------------------------------------------
(* Properties.                                                             *)

\* No session outlives its account, however a sign-in and a deletion of the
\* account interleave (service.go:279-289, 0002_sessions.sql:3).
SessionHasAccount == \A s \in DOMAIN sessions : sessions[s].user \in DOMAIN users

\* Profile edits, password changes and rehashes that lose a race with the
\* deletion of the account do not bring it back (sqlite/user.go:59-77).
DeletedAccountStaysDeleted ==
  [][\A u \in drawn \cap Users : u \notin DOMAIN users => u \notin DOMAIN users']_vars

\* After a completed password change nobody holds a session from before it,
\* the caller's own excepted (service.go:365-368).
OldSessionsAreGone == revoked \cap DOMAIN sessions = {}

\* A token in constant use still dies (user.go, Session.ExpiresAt).
EverySessionEnds ==
  \A s \in Sessions : s \in DOMAIN sessions ~> s \notin DOMAIN sessions

\* The stored hash verifies the password the owner chose last: what the page
\* says of a completed change (auth/ui/password.go:17).
ChosenPasswordHolds ==
  \A u \in DOMAIN users : users[u].hash.pw = chosen[u]
=============================================================================

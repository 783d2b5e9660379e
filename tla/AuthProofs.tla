----------------------------- MODULE AuthProofs ------------------------------
(***************************************************************************)
(* Proofs about Auth, for any accounts, sessions, requests and lifetimes.  *)
(***************************************************************************)
EXTENDS Auth, TLAPS

\* The input of a request is what its operation takes, and the row it is about
\* to store is one.
Sound(r) ==
  /\ r \in Request
  /\ r.op = "login" => r.input \in Passwords
  /\ r.op = "profile" => r.input \in Usernames
  /\ r.op = "password" => r.input \in Passwords \X Passwords
  /\ r.at = "rehash" => r.op = "login" /\ r.copy \in User
  /\ r.at = "update" => r.copy \in User

\* The sessions a password change saw belong to its account for as long as they
\* exist, and its own is not one of them.
Remembers(r) ==
  /\ r.before \subseteq drawn
  /\ r.cookie \notin r.before
  /\ \A s \in r.before \cap DOMAIN sessions : sessions[s].user = r.uid

RequestsAreSound == \A q \in Requests : req[q] # None => Sound(req[q]) /\ Remembers(req[q])

IInv ==
  /\ TypeOK
  /\ SessionHasAccount
  /\ RequestsAreSound
  /\ revoked \subseteq drawn
  /\ OldSessionsAreGone

-----------------------------------------------------------------------------
(* What the statements do.                                                 *)

\* UPDATE users inserts no account and deletes none.
LEMMA UpdateUserEffect ==
  ASSUME TypeOK, NEW u, NEW row \in User, UpdateUser(u, row)
  PROVE  DOMAIN users' = DOMAIN users /\ users' \in [DOMAIN users -> User]
BY DEF TypeOK, UpdateUser

\* A deletion leaves the other sessions as they are.
LEMMA DropSessionsEffect ==
  ASSUME TypeOK, NEW S, DropSessions(S)
  PROVE  /\ DOMAIN sessions' = DOMAIN sessions \ S
         /\ sessions' \in [DOMAIN sessions' -> Session]
         /\ \A s \in DOMAIN sessions' : sessions'[s].user = sessions[s].user
BY DEF TypeOK, DropSessions, Keep

\* A touch changes neither which sessions there are nor whose they are.
LEMMA TouchSessionEffect ==
  ASSUME TypeOK, NEW s, NEW u, TouchSession(s, u)
  PROVE  /\ DOMAIN sessions' = DOMAIN sessions
         /\ sessions' \in [DOMAIN sessions' -> Session]
         /\ \A t \in DOMAIN sessions' : sessions'[t].user = sessions[t].user
<1>1. now \in Nat
  BY AuthAssumption DEF TypeOK
<1>2. CASE s \in DOMAIN sessions
  <2>1. sessions' = [sessions EXCEPT ![s] = [sessions[s] EXCEPT !.seen = now]]
    BY <1>2 DEF TouchSession
  <2>2. sessions[s] \in Session /\ [sessions[s] EXCEPT !.seen = now] \in Session
    BY <1>1, <1>2 DEF TypeOK, Session
  <2>3. [sessions[s] EXCEPT !.seen = now].user = sessions[s].user
    BY <2>2 DEF Session
  <2>4. QED BY <1>2, <2>1, <2>2, <2>3 DEF TypeOK
<1>3. CASE s \notin DOMAIN sessions
  BY <1>3 DEF TouchSession, TypeOK
<1>4. QED BY <1>2, <1>3

-----------------------------------------------------------------------------
\* A step that creates no account and no session, and deletes no account.
QuietRows ==
  /\ users' \in [DOMAIN users -> User]
  /\ DOMAIN sessions' \subseteq DOMAIN sessions
  /\ sessions' \in [DOMAIN sessions' -> Session]
  /\ \A s \in DOMAIN sessions' : sessions'[s].user = sessions[s].user
  /\ drawn' = drawn

\* After it every request still knows what it should.
QuietRequests ==
  /\ req' \in [Requests -> Request \cup {None}]
  /\ \A p \in Requests : req'[p] # None => Sound(req'[p]) /\ Remembers(req'[p])

QuietHistory ==
  /\ now' \in 0 .. MaxTime
  /\ chosen' \in [Users -> Passwords \cup {None}]
  /\ revoked' \subseteq Sessions \cap drawn
  /\ revoked' \cap DOMAIN sessions' = {}

LEMMA QuietInv ==
  ASSUME IInv, QuietRows, QuietRequests, QuietHistory
  PROVE  IInv'
<1>1. TypeOK'
  BY DEF IInv, TypeOK, QuietRows, QuietRequests, QuietHistory
<1>2. SessionHasAccount'
  BY DEF IInv, TypeOK, SessionHasAccount, QuietRows
<1>3. RequestsAreSound'
  BY DEF QuietRows, QuietRequests, RequestsAreSound, Remembers
<1>4. revoked' \subseteq drawn' /\ OldSessionsAreGone'
  BY DEF QuietRows, QuietHistory, OldSessionsAreGone
<1>5. QED BY <1>1, <1>2, <1>3, <1>4 DEF IInv

\* One request goes on with r, or ends.
LEMMA OneRequest ==
  ASSUME IInv, NEW q \in Requests, NEW r, req' = [req EXCEPT ![q] = r],
         r = None \/ (Sound(r) /\ Remembers(r))
  PROVE  QuietRequests
<1>1. r \in Request \cup {None}
  BY DEF Sound
<1>2. QED BY <1>1 DEF IInv, TypeOK, RequestsAreSound, QuietRequests

LEMMA SameRequests ==
  ASSUME IInv, UNCHANGED req
  PROVE  QuietRequests
BY DEF IInv, TypeOK, RequestsAreSound, QuietRequests

LEMMA EndEffect ==
  ASSUME IInv, NEW q \in Requests, End(q)
  PROVE  QuietRequests
BY OneRequest DEF End

\* What a working request is, whatever it stands at.
LEMMA Working ==
  ASSUME IInv, NEW q \in Requests, req[q] # None
  PROVE  Sound(req[q]) /\ Remembers(req[q]) /\ req[q] \in Request
BY DEF IInv, RequestsAreSound, Sound

\* Going on to a statement that stores no row keeps a request sound.
LEMMA GotoEffect ==
  ASSUME IInv, NEW q \in Requests, req[q] # None,
         NEW step \in Steps \ {"rehash", "update"}, Goto(q, step)
  PROVE  QuietRequests
<1> DEFINE r == [req[q] EXCEPT !.at = step]
<1>1. req' = [req EXCEPT ![q] = r]
  BY DEF Goto
<1>2. Sound(req[q]) /\ Remembers(req[q]) /\ req[q] \in Request
  BY Working
<1>3. r \in Request
  BY <1>2 DEF Request
<1>4. Sound(r)
  BY <1>2, <1>3 DEF Sound, Request
<1>5. Remembers(r)
  BY <1>2 DEF Remembers, Request
<1> HIDE DEF r
<1>6. QED BY <1>1, <1>4, <1>5, OneRequest

\* Statements that leave the tables, or the rest of the state, alone.
LEMMA SameHistory ==
  ASSUME IInv, QuietRows, UNCHANGED <<now, chosen, revoked>>
  PROVE  QuietHistory
BY DEF IInv, TypeOK, OldSessionsAreGone, QuietRows, QuietHistory

LEMMA SameRows ==
  ASSUME IInv, UNCHANGED <<users, sessions, drawn>>
  PROVE  QuietRows
BY DEF IInv, TypeOK, QuietRows

LEMMA DropIsQuiet ==
  ASSUME IInv, NEW S, DropSessions(S), UNCHANGED <<users, drawn>>
  PROVE  QuietRows
<1>1. TypeOK BY DEF IInv
<1>2. QED BY <1>1, DropSessionsEffect DEF TypeOK, QuietRows

LEMMA UpdateIsQuiet ==
  ASSUME IInv, NEW u, NEW row \in User, UpdateUser(u, row), UNCHANGED <<sessions, drawn>>
  PROVE  QuietRows
<1>1. TypeOK BY DEF IInv
<1>2. QED BY <1>1, UpdateUserEffect DEF TypeOK, QuietRows

-----------------------------------------------------------------------------
(* The actions, each preserving the invariant.                             *)

LEMMA LoginInv ==
  ASSUME IInv, NEW q \in Requests, NEW u \in Users, NEW p \in Passwords,
         NEW k \in Cookies, Login(q, u, p, k)
  PROVE  IInv'
<1> DEFINE r == [op |-> "login", uid |-> u, cookie |-> k, input |-> p,
                 at |-> IF users[u].hash.alg = Preferred THEN "replace" ELSE "rehash",
                 due |-> FALSE, copy |-> users[u], before |-> {}]
<1>1. k \in Sessions \cup {None}
  BY DEF IInv, TypeOK, Cookies
<1>2. users[u] \in User
  BY DEF Login, IInv, TypeOK
<1>3. r \in Request
  BY <1>1, <1>2 DEF Request, Ops, Steps
<1>4. Sound(r) /\ Remembers(r)
  BY <1>2, <1>3 DEF Sound, Remembers
<1>5. req' = [req EXCEPT ![q] = r]
  BY DEF Login
<1> HIDE DEF r
<1>6. QuietRequests
  BY <1>4, <1>5, OneRequest
<1>7. QuietRows /\ QuietHistory
  BY SameRows, SameHistory DEF Login
<1>8. QED BY <1>6, <1>7, QuietInv

LEMMA RehashInv ==
  ASSUME IInv, NEW q \in Requests, Rehash(q)
  PROVE  IInv'
<1> DEFINE row == [req[q].copy EXCEPT !.hash = [alg |-> Preferred, pw |-> req[q].input]]
<1>1. req[q] # None /\ req[q].at = "rehash"
  BY DEF Rehash, At, Idle
<1>2. row \in User
  BY <1>1, Working, AuthAssumption DEF Sound, User, Hash
<1>3. QuietRows
  <2>1. CASE UpdateUser(req[q].uid, row)
    <3> HIDE DEF row
    <3> QED BY <1>2, <2>1, UpdateIsQuiet DEF Rehash
  <2>2. CASE UNCHANGED users
    BY <2>2, SameRows DEF Rehash
  <2>3. QED BY <2>1, <2>2 DEF Rehash
<1>4. QuietRequests
  BY <1>1, GotoEffect DEF Rehash, Steps
<1>5. QED BY <1>3, <1>4, SameHistory, QuietInv DEF Rehash

LEMMA ReplaceInv ==
  ASSUME IInv, NEW q \in Requests, Replace(q)
  PROVE  IInv'
<1>1. req[q] # None
  BY DEF Replace, At, Idle
<1>2. QuietRows
  BY DropIsQuiet DEF Replace
<1>3. QuietRequests
  BY <1>1, GotoEffect DEF Replace, Steps
<1>4. QED BY <1>2, <1>3, SameHistory, QuietInv DEF Replace

LEMMA BeginInv ==
  ASSUME IInv, NEW q \in Requests, NEW op \in {"password", "profile"}, NEW s \in Sessions,
         NEW input,
         op = "password" => input \in Passwords \X Passwords,
         op = "profile" => input \in Usernames,
         Begin(q, op, s, input)
  PROVE  IInv'
<1> DEFINE due == now - sessions[s].seen >= TouchAfter
           r == [op |-> op, at |-> IF Expired(s) THEN "expire" ELSE "user",
                 uid |-> sessions[s].user, cookie |-> s, input |-> input,
                 due |-> due, copy |-> None, before |-> {}]
<1>1. sessions[s].user \in Users
  BY DEF Begin, IInv, TypeOK, Session
<1>2. due \in BOOLEAN
  OBVIOUS
<1>3. input \in Passwords \cup Usernames \cup (Passwords \X Passwords)
  OBVIOUS
<1>4. req' = [req EXCEPT ![q] = r]
  BY DEF Begin
<1> HIDE DEF due
<1>5. r \in Request
  BY <1>1, <1>2, <1>3 DEF Request, Ops, Steps
<1>6. s # None
  BY AuthAssumption
<1>7. Sound(r) /\ Remembers(r)
  BY <1>5, <1>6 DEF Sound, Remembers
<1> HIDE DEF r
<1>8. QuietRequests
  BY <1>4, <1>7, OneRequest
<1>9. QuietRows /\ QuietHistory
  BY SameRows, SameHistory DEF Begin
<1>10. QED BY <1>8, <1>9, QuietInv

LEMMA DropExpiredInv ==
  ASSUME IInv, NEW q \in Requests, DropExpired(q)
  PROVE  IInv'
<1>1. QuietRows
  BY DropIsQuiet, SameRows DEF DropExpired
<1>2. QuietRequests
  BY EndEffect DEF DropExpired
<1>3. QED BY <1>1, <1>2, SameHistory, QuietInv DEF DropExpired

LEMMA ResolveUserInv ==
  ASSUME IInv, NEW q \in Requests, ResolveUser(q)
  PROVE  IInv'
<1>1. req[q] # None
  BY DEF ResolveUser, At, Idle
<1>2. QuietRequests
  BY <1>1, EndEffect, GotoEffect DEF ResolveUser, Steps
<1>3. QED BY <1>2, SameRows, SameHistory, QuietInv DEF ResolveUser

LEMMA TouchInv ==
  ASSUME IInv, NEW q \in Requests, Touch(q)
  PROVE  IInv'
<1>1. req[q] # None /\ TypeOK
  BY DEF Touch, At, Idle, IInv
<1>2. QuietRows
  BY <1>1, TouchSessionEffect, SameRows DEF Touch, TypeOK, QuietRows
<1>3. QuietRequests
  BY <1>1, GotoEffect DEF Touch, Steps
<1>4. QED BY <1>2, <1>3, SameHistory, QuietInv DEF Touch

\* Both reads put the row they are to store into the request.
LEMMA ReadEffect ==
  ASSUME IInv, NEW q \in Requests, req[q] # None, NEW row \in User,
         req' = [req EXCEPT ![q].at = "update", ![q].copy = row]
  PROVE  QuietRequests
<1> DEFINE r == [[req[q] EXCEPT !.at = "update"] EXCEPT !.copy = row]
<1>1. Sound(req[q]) /\ Remembers(req[q]) /\ req[q] \in Request
  BY Working
<1>2. req' = [req EXCEPT ![q] = r]
  BY DEF IInv, TypeOK
<1>3. r \in Request
  BY <1>1 DEF Request, Steps
<1>4. Sound(r) /\ Remembers(r)
  BY <1>1, <1>3 DEF Sound, Remembers, Request
<1> HIDE DEF r
<1>5. QED BY <1>2, <1>4, OneRequest

LEMMA ReadForPasswordInv ==
  ASSUME IInv, NEW q \in Requests, ReadForPassword(q)
  PROVE  IInv'
<1>1. req[q] # None /\ req[q].op = "password"
  BY DEF ReadForPassword, At, Idle
<1>2. QuietRequests
  <2>1. CASE End(q)
    BY <2>1, EndEffect
  <2>2. CASE /\ req[q].uid \in DOMAIN users
             /\ req' = [req EXCEPT ![q].at = "update",
                          ![q].copy = WithPassword(users[req[q].uid], req[q].input[2])]
    <3>1. users[req[q].uid] \in User
      BY <2>2 DEF IInv, TypeOK
    <3>2. req[q].input[2] \in Passwords
      BY <1>1, Working DEF Sound
    <3>3. WithPassword(users[req[q].uid], req[q].input[2]) \in User
      BY <3>1, <3>2, AuthAssumption DEF WithPassword, User, Hash
    <3>4. QED BY <1>1, <2>2, <3>3, ReadEffect
  <2>3. QED BY <2>1, <2>2 DEF ReadForPassword
<1>3. QED BY <1>2, SameRows, SameHistory, QuietInv DEF ReadForPassword

LEMMA ReadForProfileInv ==
  ASSUME IInv, NEW q \in Requests, ReadForProfile(q)
  PROVE  IInv'
<1>1. req[q] # None /\ req[q].op = "profile"
  BY DEF ReadForProfile, At, Idle
<1>2. QuietRequests
  <2> DEFINE row == [users[req[q].uid] EXCEPT !.name = req[q].input]
  <2>1. CASE End(q)
    BY <2>1, EndEffect
  <2>2. CASE /\ req[q].uid \in DOMAIN users
             /\ req' = [req EXCEPT ![q].at = "update", ![q].copy = row]
    <3>1. users[req[q].uid] \in User
      BY <2>2 DEF IInv, TypeOK
    <3>2. req[q].input \in Usernames
      BY <1>1, Working DEF Sound
    <3>3. row \in User
      BY <3>1, <3>2 DEF User
    <3> HIDE DEF row
    <3>4. QED BY <1>1, <2>2, <3>3, ReadEffect
  <2>3. QED BY <2>1, <2>2 DEF ReadForProfile
<1>3. QED BY <1>2, SameRows, SameHistory, QuietInv DEF ReadForProfile

\* A request that stands at "update" holds a row.
LEMMA HoldsRow ==
  ASSUME IInv, NEW q \in Requests, At(q, "update")
  PROVE  req[q] # None /\ req[q].copy \in User
BY Working DEF At, Idle, Sound

LEMMA StoreProfileInv ==
  ASSUME IInv, NEW q \in Requests, StoreProfile(q)
  PROVE  IInv'
<1>1. QuietRows
  BY HoldsRow, UpdateIsQuiet DEF StoreProfile
<1>2. QuietRequests
  BY EndEffect DEF StoreProfile
<1>3. QED BY <1>1, <1>2, SameHistory, QuietInv DEF StoreProfile

LEMMA StorePasswordInv ==
  ASSUME IInv, NEW q \in Requests, StorePassword(q)
  PROVE  IInv'
<1> DEFINE u == req[q].uid
           others == SessionsOf(u) \ {req[q].cookie}
           r == [[req[q] EXCEPT !.at = "revoke"] EXCEPT !.before = others]
<1>1. QuietRows
  BY HoldsRow, UpdateIsQuiet DEF StorePassword
<1>2. CASE Stored(q)
  <2>1. /\ Sound(req[q]) /\ req[q] \in Request /\ req[q].op = "password"
        /\ req[q].input[2] \in Passwords
    BY Working DEF StorePassword, At, Idle, Sound
  <2>2. others \in SUBSET Sessions /\ others \subseteq drawn
    BY DEF IInv, TypeOK, SessionsOf
  <2>3. r \in Request
    BY <2>1, <2>2 DEF Request, Steps
  <2>4. Sound(r)
    BY <2>1, <2>3 DEF Sound, Request
  <2>5. r.before = others /\ r.cookie = req[q].cookie /\ r.uid = u
    BY <2>1 DEF Request
  <2>6. Remembers(r)
    <3> HIDE DEF r
    <3>1. r.before \subseteq drawn /\ r.cookie \notin r.before
      BY <2>2, <2>5
    <3>2. \A s \in r.before \cap DOMAIN sessions : sessions[s].user = r.uid
      BY <2>5 DEF SessionsOf
    <3>3. QED BY <3>1, <3>2 DEF Remembers
  <2>7. req' = [req EXCEPT ![q] = r]
    BY <1>2 DEF StorePassword, IInv, TypeOK
  <2>8. chosen' = [chosen EXCEPT ![u] = req[q].input[2]]
    BY <1>2 DEF StorePassword
  <2>9. QuietHistory
    BY <1>1, <2>1, <2>8 DEF StorePassword, IInv, TypeOK, OldSessionsAreGone,
       QuietRows, QuietHistory
  <2> HIDE DEF r
  <2>10. QuietRequests
    BY <2>4, <2>6, <2>7, OneRequest
  <2>11. QED BY <1>1, <2>9, <2>10, QuietInv
<1>3. CASE ~Stored(q)
  BY <1>1, <1>3, EndEffect, SameHistory, QuietInv DEF StorePassword
<1>4. QED BY <1>2, <1>3

\* The sessions the change saw, if they still exist, are still its account's:
\* the deletion takes every one of them.
LEMMA FinishPasswordInv ==
  ASSUME IInv, NEW q \in Requests, FinishPassword(q)
  PROVE  IInv'
<1> DEFINE u == req[q].uid
           others == SessionsOf(u) \ {req[q].cookie}
<1>1. Sound(req[q]) /\ Remembers(req[q]) /\ req[q] \in Request
  BY Working DEF FinishPassword, At, Idle
<1>2. DropSessions(others)
  BY DEF FinishPassword, RevokeOthers
<1>3. QuietRows
  <2> HIDE DEF others
  <2> QED BY <1>2, DropIsQuiet DEF FinishPassword
<1>4. QuietRequests
  BY EndEffect DEF FinishPassword
<1>5. DOMAIN sessions' = DOMAIN sessions \ others
  BY <1>2, DropSessionsEffect DEF IInv
<1>6. req[q].before \cap DOMAIN sessions' = {}
  BY <1>1, <1>5 DEF Remembers, SessionsOf
<1>7. req[q].before \in SUBSET Sessions /\ req[q].before \subseteq drawn
  BY <1>1 DEF Request, Remembers
<1>8. QuietHistory
  <2>1. revoked \cap DOMAIN sessions' = {}
    BY <1>5 DEF IInv, OldSessionsAreGone
  <2>2. revoked' = revoked \cup req[q].before /\ UNCHANGED <<now, chosen>>
    BY DEF FinishPassword
  <2>3. QED BY <1>6, <1>7, <2>1, <2>2 DEF IInv, TypeOK, QuietHistory
<1>9. QED BY <1>3, <1>4, <1>8, QuietInv

LEMMA FailInv ==
  ASSUME IInv, NEW q \in Requests, Fail(q)
  PROVE  IInv'
BY EndEffect, SameRows, SameHistory, QuietInv DEF Fail

LEMMA LogoutInv ==
  ASSUME IInv, NEW s, Logout(s)
  PROVE  IInv'
BY DropIsQuiet, SameRequests, SameHistory, QuietInv DEF Logout

LEMMA SweepInv ==
  ASSUME IInv, Sweep
  PROVE  IInv'
<1> DEFINE S == {s \in DOMAIN sessions : sessions[s].expires <= now}
<1>1. DropSessions(S) /\ UNCHANGED <<users, drawn, req, now, chosen, revoked>>
  BY DEF Sweep
<1> HIDE DEF S
<1>2. QED BY <1>1, DropIsQuiet, SameRequests, SameHistory, QuietInv

LEMMA TickInv ==
  ASSUME IInv, Tick
  PROVE  IInv'
<1>1. QuietHistory
  BY AuthAssumption DEF Tick, IInv, TypeOK, OldSessionsAreGone, QuietHistory
<1>2. QED BY <1>1, SameRows, SameRequests, QuietInv DEF Tick

LEMMA StutterInv ==
  ASSUME IInv, UNCHANGED vars
  PROVE  IInv'
BY SameRows, SameRequests, SameHistory, QuietInv DEF vars

-----------------------------------------------------------------------------
(* The actions that add or delete an account, or add a session.            *)

\* What each request knows does not depend on a larger users table.
LEMMA RegisterInv ==
  ASSUME IInv, NEW q \in Requests, NEW u \in Users, NEW n \in Usernames,
         NEW p \in Passwords, NEW k \in Cookies, Register(q, u, n, p, k)
  PROVE  IInv'
<1> DEFINE row == [name |-> n, hash |-> [alg |-> Preferred, pw |-> p]]
           r == [op |-> "login", at |-> "replace", uid |-> u, cookie |-> k,
                 input |-> p, due |-> FALSE, copy |-> None, before |-> {}]
<1>1. row \in User
  BY AuthAssumption DEF User, Hash
<1>2. users' = Put(users, u, row) /\ drawn' = drawn \cup {u}
  BY DEF Register
<1> HIDE DEF row
<1>3. DOMAIN users' = DOMAIN users \cup {u} /\ users' \in [DOMAIN users' -> User]
  BY <1>1, <1>2 DEF Put, IInv, TypeOK
<1>4. r \in Request
  BY DEF Request, Ops, Steps, Cookies, IInv, TypeOK
<1>5. Sound(r) /\ Remembers(r)
  BY <1>4 DEF Sound, Remembers
<1>6. UNCHANGED req \/ req' = [req EXCEPT ![q] = r]
  BY DEF Register
<1> HIDE DEF r
<1>7. QuietRequests
  BY <1>5, <1>6, OneRequest, SameRequests
<1>8. TypeOK'
  BY <1>2, <1>3, <1>7 DEF Register, IInv, TypeOK, QuietRequests
<1>9. SessionHasAccount'
  BY <1>3 DEF Register, IInv, SessionHasAccount
<1>10. RequestsAreSound'
  BY <1>2, <1>7 DEF Register, QuietRequests, RequestsAreSound, Remembers
<1>11. revoked' \subseteq drawn' /\ OldSessionsAreGone'
  BY <1>2 DEF Register, IInv, OldSessionsAreGone
<1>12. QED BY <1>8, <1>9, <1>10, <1>11 DEF IInv

\* A session that is drawn for the first time is none of those a password
\* change saw, and none that one has ended.
LEMMA CreateSessionInv ==
  ASSUME IInv, NEW q \in Requests, NEW s \in Sessions, CreateSession(q, s)
  PROVE  IInv'
<1> DEFINE u == req[q].uid
           row == [user |-> u, expires |-> now + TTL, seen |-> now]
<1>1. req[q] \in Request
  BY Working DEF CreateSession, At, Idle
<1>2. row \in Session
  BY <1>1, AuthAssumption DEF Session, Request, IInv, TypeOK
<1>3. row.user = u
  OBVIOUS
<1>4. drawn' = drawn \cup {s} /\ s \notin drawn
  BY DEF CreateSession
<1>5. CASE u \in DOMAIN users
  <2>1. sessions' = Put(sessions, s, row)
    BY <1>5 DEF CreateSession
  <2> HIDE DEF row
  <2>2. DOMAIN sessions' = DOMAIN sessions \cup {s}
    BY <2>1 DEF Put
  <2>3. sessions' \in [DOMAIN sessions' -> Session]
    BY <1>2, <2>1 DEF Put, IInv, TypeOK
  <2>4. \A t \in DOMAIN sessions : sessions'[t].user = sessions[t].user
    BY <1>4, <2>1 DEF Put, IInv, TypeOK
  <2>5. sessions'[s].user = u
    BY <1>3, <2>1 DEF Put
  <2>6. QuietRequests
    BY EndEffect DEF CreateSession
  <2>7. TypeOK'
    BY <1>4, <2>2, <2>3, <2>6 DEF CreateSession, IInv, TypeOK, QuietRequests
  <2>8. SessionHasAccount'
    BY <1>5, <2>2, <2>4, <2>5 DEF CreateSession, IInv, SessionHasAccount
  <2>9. RequestsAreSound'
    BY <1>4, <2>2, <2>4, <2>6 DEF QuietRequests, RequestsAreSound, Remembers
  <2>10. revoked' \subseteq drawn' /\ OldSessionsAreGone'
    BY <1>4, <2>2 DEF CreateSession, IInv, OldSessionsAreGone
  <2>11. QED BY <2>7, <2>8, <2>9, <2>10 DEF IInv
<1>6. CASE u \notin DOMAIN users
  <2>1. UNCHANGED sessions
    BY <1>6 DEF CreateSession
  <2>2. QuietRequests
    BY EndEffect DEF CreateSession
  <2>3. TypeOK'
    BY <1>4, <2>1, <2>2 DEF CreateSession, IInv, TypeOK, QuietRequests
  <2>4. SessionHasAccount' /\ OldSessionsAreGone' /\ revoked' \subseteq drawn'
    BY <1>4, <2>1 DEF CreateSession, IInv, SessionHasAccount, OldSessionsAreGone
  <2>5. RequestsAreSound'
    BY <1>4, <2>1, <2>2 DEF QuietRequests, RequestsAreSound, Remembers
  <2>6. QED BY <2>3, <2>4, <2>5 DEF IInv
<1>7. QED BY <1>5, <1>6

\* The cascade takes every session of the account that goes.
LEMMA DeleteUserInv ==
  ASSUME IInv, NEW u \in Users, DeleteUser(u)
  PROVE  IInv'
<1> DEFINE gone == SessionsOf(u)
<1>1. /\ DOMAIN users' = DOMAIN users \ {u}
      /\ users' \in [DOMAIN users' -> User]
  BY DEF DeleteUser, Keep, IInv, TypeOK
<1>2. DropSessions(gone)
  BY DEF DeleteUser, Cascade
<1>3. /\ DOMAIN sessions' = DOMAIN sessions \ gone
      /\ sessions' \in [DOMAIN sessions' -> Session]
      /\ \A s \in DOMAIN sessions' : sessions'[s].user = sessions[s].user
  <2> HIDE DEF gone
  <2> QED BY <1>2, DropSessionsEffect DEF IInv
<1>4. QuietRequests
  BY SameRequests DEF DeleteUser
<1>5. TypeOK'
  BY <1>1, <1>3, <1>4 DEF DeleteUser, IInv, TypeOK, QuietRequests
<1>6. SessionHasAccount'
  BY <1>1, <1>3 DEF IInv, SessionHasAccount, SessionsOf
<1>7. RequestsAreSound'
  BY <1>3, <1>4 DEF DeleteUser, QuietRequests, RequestsAreSound, Remembers
<1>8. revoked' \subseteq drawn' /\ OldSessionsAreGone'
  BY <1>3 DEF DeleteUser, IInv, OldSessionsAreGone
<1>9. QED BY <1>5, <1>6, <1>7, <1>8 DEF IInv

-----------------------------------------------------------------------------
LEMMA InitInv == Init => IInv
<1> SUFFICES ASSUME Init
             PROVE  IInv
  OBVIOUS
<1>1. PICK old \in SUBSET Users :
        /\ drawn = old
        /\ users \in [old -> User]
        /\ chosen = [u \in Users |-> IF u \in old THEN users[u].hash.pw ELSE None]
  BY DEF Init
<1>2. \A u \in old : users[u].hash.pw \in Passwords
  BY <1>1 DEF User, Hash
<1>3. chosen \in [Users -> Passwords \cup {None}]
  BY <1>1, <1>2
<1>4. sessions \in [{} -> Session] /\ DOMAIN sessions = {}
  BY DEF Init
<1>5. now \in 0 .. MaxTime
  BY AuthAssumption DEF Init
<1>6. TypeOK
  BY <1>1, <1>3, <1>4, <1>5 DEF Init, TypeOK
<1>7. SessionHasAccount /\ RequestsAreSound /\ revoked \subseteq drawn /\ OldSessionsAreGone
  BY <1>4 DEF Init, SessionHasAccount, RequestsAreSound, OldSessionsAreGone
<1>8. QED BY <1>6, <1>7 DEF IInv

LEMMA NextInv == IInv /\ [Next]_vars => IInv'
<1> SUFFICES ASSUME IInv, [Next]_vars
             PROVE  IInv'
  OBVIOUS
<1>1. CASE \E q \in Requests, u \in Users, n \in Usernames, p \in Passwords, k \in Cookies :
             Register(q, u, n, p, k)
  BY <1>1, RegisterInv
<1>2. CASE \E q \in Requests, u \in Users, p \in Passwords, k \in Cookies : Login(q, u, p, k)
  BY <1>2, LoginInv
<1>3. CASE \E q \in Requests, s \in Sessions : CreateSession(q, s)
  BY <1>3, CreateSessionInv
<1>4. CASE \E q \in Requests, s \in Sessions, p, new \in Passwords :
             Begin(q, "password", s, <<p, new>>)
  <2>1. PICK q \in Requests, s \in Sessions, p \in Passwords, new \in Passwords :
               Begin(q, "password", s, <<p, new>>)
    BY <1>4
  <2>2. <<p, new>> \in Passwords \X Passwords
    OBVIOUS
  <2>3. QED BY <2>1, <2>2, BeginInv
<1>5. CASE \E q \in Requests, s \in Sessions, n \in Usernames : Begin(q, "profile", s, n)
  BY <1>5, BeginInv
<1>6. ASSUME NEW q \in Requests,
             \/ Rehash(q) \/ Replace(q)
             \/ DropExpired(q) \/ ResolveUser(q) \/ Touch(q)
             \/ ReadForPassword(q) \/ ReadForProfile(q)
             \/ StoreProfile(q) \/ StorePassword(q) \/ FinishPassword(q)
             \/ Fail(q)
      PROVE  IInv'
  BY <1>6, RehashInv, ReplaceInv, DropExpiredInv, ResolveUserInv, TouchInv,
     ReadForPasswordInv, ReadForProfileInv, StoreProfileInv, StorePasswordInv,
     FinishPasswordInv, FailInv
<1>7. CASE \E s \in Sessions : Logout(s)
  BY <1>7, LogoutInv
<1>8. CASE \E u \in Users : DeleteUser(u)
  BY <1>8, DeleteUserInv
<1>9. CASE Sweep \/ Tick \/ UNCHANGED vars
  BY <1>9, SweepInv, TickInv, StutterInv
<1>10. QED
  BY <1>1, <1>2, <1>3, <1>4, <1>5, <1>6, <1>7, <1>8, <1>9 DEF Next

LEMMA SpecInv == Spec => []IInv
BY InitInv, NextInv, PTL DEF Spec

-----------------------------------------------------------------------------
(* Theorems.                                                               *)

\* The tables, the requests in progress and the history keep their types
\* (Auth, TypeOK).
THEOREM TypeCorrect == Spec => []TypeOK
<1>1. IInv => TypeOK
  BY DEF IInv
<1>2. QED BY <1>1, SpecInv, PTL

\* A session always belongs to an account that exists, however a sign-in, a
\* password change and a deletion of the account interleave
\* (service.go:279-289, 0002_sessions.sql:3).
THEOREM SessionsHaveAccounts == Spec => []SessionHasAccount
<1>1. IInv => SessionHasAccount
  BY DEF IInv
<1>2. QED BY <1>1, SpecInv, PTL

\* A completed password change has ended every session of the account it saw
\* but the caller's, and none of them comes back (service.go:365-368).
THEOREM OldSessionsStayGone == Spec => []OldSessionsAreGone
<1>1. IInv => OldSessionsAreGone
  BY DEF IInv
<1>2. QED BY <1>1, SpecInv, PTL

\* The users table loses rows and gains ones that are drawn for the first
\* time: no statement of a request brings a deleted account back
\* (sqlite/user.go:59-77).
LEMMA NextNoReturn ==
  ASSUME IInv, [Next]_vars
  PROVE  \A u \in drawn \cap Users : u \notin DOMAIN users => u \notin DOMAIN users'
<1>1. CASE \E q \in Requests, u \in Users, n \in Usernames, p \in Passwords, k \in Cookies :
             Register(q, u, n, p, k)
  BY <1>1 DEF Register, Put
<1>2. CASE \E q \in Requests, u \in Users, p \in Passwords, k \in Cookies : Login(q, u, p, k)
  BY <1>2 DEF Login
<1>3. CASE \E q \in Requests, s \in Sessions :
             \/ CreateSession(q, s)
             \/ \E p, new \in Passwords : Begin(q, "password", s, <<p, new>>)
             \/ \E n \in Usernames : Begin(q, "profile", s, n)
  BY <1>3 DEF CreateSession, Begin
<1>4. ASSUME NEW q \in Requests,
             \/ Replace(q) \/ DropExpired(q) \/ ResolveUser(q) \/ Touch(q)
             \/ ReadForPassword(q) \/ ReadForProfile(q) \/ FinishPassword(q)
             \/ Fail(q)
      PROVE  UNCHANGED users
  BY <1>4 DEF Replace, DropExpired, ResolveUser, Touch, ReadForPassword, ReadForProfile,
     FinishPassword, Fail
<1>5. ASSUME NEW q \in Requests, Rehash(q) \/ StoreProfile(q) \/ StorePassword(q)
      PROVE  DOMAIN users' = DOMAIN users
  BY <1>5 DEF Rehash, StoreProfile, StorePassword, UpdateUser
<1>6. CASE \E s \in Sessions : Logout(s)
  BY <1>6 DEF Logout
<1>7. CASE \E u \in Users : DeleteUser(u)
  BY <1>7 DEF DeleteUser, Keep
<1>8. CASE Sweep \/ Tick \/ UNCHANGED vars
  BY <1>8 DEF Sweep, Tick, vars
<1>9. QED
  BY <1>1, <1>2, <1>3, <1>4, <1>5, <1>6, <1>7, <1>8 DEF Next

\* A profile edit, a password change or a rehash that loses a race with the
\* deletion of the account does not bring it back (sqlite/user.go:59-77).
THEOREM DeletedStaysDeleted == Spec => DeletedAccountStaysDeleted
<1>1. IInv /\ [Next]_vars =>
        [\A u \in drawn \cap Users : u \notin DOMAIN users => u \notin DOMAIN users']_vars
  BY NextNoReturn
<1>2. QED BY <1>1, SpecInv, PTL DEF Spec, DeletedAccountStaysDeleted

-----------------------------------------------------------------------------
(* One request at a time, and the password its owner chose.                *)

\* The password a request is about to store is the one chosen, or about to be.
Intends(r) ==
  /\ r.at = "rehash" => r.input = chosen[r.uid]
  /\ r.at = "update" =>
       r.copy.hash.pw = IF r.op = "password" THEN r.input[2] ELSE chosen[r.uid]

ChosenInv == ChosenPasswordHolds /\ \A q \in Requests : req[q] # None => Intends(req[q])

\* A request that goes on to none of the statements that store a hash.
Storeless(q) == req' = req \/ req'[q] = None \/ req'[q].at \notin {"rehash", "update"}

LEMMA GotoIsStoreless ==
  ASSUME IInv, NEW q \in Requests, req[q] # None,
         NEW step \in Steps \ {"rehash", "update"}, Goto(q, step)
  PROVE  Storeless(q)
<1>1. req[q] \in Request
  BY Working
<1>2. req'[q] = [req[q] EXCEPT !.at = step]
  BY DEF Goto, IInv, TypeOK
<1>3. [req[q] EXCEPT !.at = step].at = step
  BY <1>1 DEF Request
<1>4. QED BY <1>2, <1>3 DEF Storeless

LEMMA EndIsStoreless ==
  ASSUME IInv, NEW q \in Requests, End(q)
  PROVE  Storeless(q)
BY DEF End, Storeless, IInv, TypeOK

LEMMA StorelessKeeps ==
  ASSUME ChosenInv, NEW q, Requests = {q}, UNCHANGED chosen, ChosenPasswordHolds', Storeless(q)
  PROVE  ChosenInv'
BY DEF ChosenInv, Storeless, Intends

LEMMA SameUsersKeep ==
  ASSUME ChosenInv, NEW q, Requests = {q}, UNCHANGED <<users, chosen>>, Storeless(q)
  PROVE  ChosenInv'
BY StorelessKeeps DEF ChosenInv, ChosenPasswordHolds

\* UPDATE users with a row that holds the password chosen.
LEMMA UpdateKeepsChosen ==
  ASSUME ChosenPasswordHolds, NEW u, NEW row, UpdateUser(u, row),
         row.hash.pw = chosen'[u], \A v \in DOMAIN users \ {u} : chosen'[v] = chosen[v],
         ~(u \in DOMAIN users /\ NameFree(row.name, u)) => UNCHANGED chosen
  PROVE  ChosenPasswordHolds'
BY DEF UpdateUser, ChosenPasswordHolds

\* Both reads find the password that was chosen.
LEMMA LoginKeepsChosen ==
  ASSUME IInv, ChosenInv, NEW q, Requests = {q}, NEW u \in Users, NEW p, NEW k, Login(q, u, p, k)
  PROVE  ChosenInv'
<1>1. /\ u \in DOMAIN users /\ users[u].hash.pw = p /\ UNCHANGED <<users, chosen>>
      /\ req'[q].uid = u /\ req'[q].input = p
      /\ req'[q].at # "update"
  BY DEF Login, IInv, TypeOK
<1>2. chosen[u] = p
  BY <1>1 DEF ChosenInv, ChosenPasswordHolds
<1>3. QED BY <1>1, <1>2 DEF ChosenInv, ChosenPasswordHolds, Intends

LEMMA ReadKeepsChosen ==
  ASSUME IInv, ChosenInv, NEW q, Requests = {q}, req[q] # None, NEW row \in User,
         req' = [req EXCEPT ![q].at = "update", ![q].copy = row],
         row.hash.pw = IF req[q].op = "password" THEN req[q].input[2] ELSE chosen[req[q].uid],
         UNCHANGED <<users, chosen>>
  PROVE  ChosenInv'
<1> DEFINE r == [[req[q] EXCEPT !.at = "update"] EXCEPT !.copy = row]
<1>1. req[q] \in Request
  BY Working
<1>2. req'[q] = r
  BY DEF IInv, TypeOK
<1>3. /\ r.at = "update" /\ r.copy = row /\ r.op = req[q].op
      /\ r.input = req[q].input /\ r.uid = req[q].uid
  BY <1>1 DEF Request
<1> HIDE DEF r
<1>4. QED BY <1>2, <1>3 DEF ChosenInv, ChosenPasswordHolds, Intends

LEMMA ReadForPasswordKeepsChosen ==
  ASSUME IInv, ChosenInv, NEW q, Requests = {q}, ReadForPassword(q)
  PROVE  ChosenInv'
<1> DEFINE u == req[q].uid
           row == WithPassword(users[u], req[q].input[2])
<1>1. req[q] # None /\ req[q].op = "password" /\ UNCHANGED <<users, chosen>>
  BY DEF ReadForPassword, At, Idle
<1>2. CASE End(q)
  BY <1>1, <1>2, EndIsStoreless, SameUsersKeep
<1>3. CASE u \in DOMAIN users /\ req' = [req EXCEPT ![q].at = "update", ![q].copy = row]
  <2>1. users[u] \in User /\ req[q].input[2] \in Passwords
    BY <1>1, <1>3, Working DEF IInv, TypeOK, Sound
  <2>2. row \in User /\ row.hash.pw = req[q].input[2]
    BY <2>1, AuthAssumption DEF WithPassword, User, Hash
  <2> HIDE DEF row
  <2>3. QED BY <1>1, <1>3, <2>2, ReadKeepsChosen
<1>4. QED BY <1>2, <1>3 DEF ReadForPassword

LEMMA ReadForProfileKeepsChosen ==
  ASSUME IInv, ChosenInv, NEW q, Requests = {q}, ReadForProfile(q)
  PROVE  ChosenInv'
<1> DEFINE u == req[q].uid
           row == [users[u] EXCEPT !.name = req[q].input]
<1>1. req[q] # None /\ req[q].op = "profile" /\ UNCHANGED <<users, chosen>>
  BY DEF ReadForProfile, At, Idle
<1>2. CASE End(q)
  BY <1>1, <1>2, EndIsStoreless, SameUsersKeep
<1>3. CASE u \in DOMAIN users /\ req' = [req EXCEPT ![q].at = "update", ![q].copy = row]
  <2>1. users[u] \in User /\ req[q].input \in Usernames
    BY <1>1, <1>3, Working DEF IInv, TypeOK, Sound
  <2>2. row \in User /\ row.hash.pw = users[u].hash.pw
    BY <2>1 DEF User
  <2>3. users[u].hash.pw = chosen[u]
    BY <1>3 DEF ChosenInv, ChosenPasswordHolds
  <2> HIDE DEF row
  <2>4. QED BY <1>1, <1>3, <2>2, <2>3, ReadKeepsChosen
<1>4. QED BY <1>2, <1>3 DEF ReadForProfile

\* The three statements that store a hash.
LEMMA RehashKeepsChosen ==
  ASSUME IInv, ChosenInv, NEW q, Requests = {q}, Rehash(q)
  PROVE  ChosenInv'
<1> DEFINE row == [req[q].copy EXCEPT !.hash = [alg |-> Preferred, pw |-> req[q].input]]
<1>1. /\ req[q] # None /\ req[q].at = "rehash" /\ UNCHANGED chosen
      /\ Goto(q, "replace")
      /\ UpdateUser(req[q].uid, row) \/ UNCHANGED users
  BY DEF Rehash, At, Idle
<1>2. req[q].copy \in User /\ req[q].input = chosen[req[q].uid]
  BY <1>1, Working DEF Sound, ChosenInv, Intends
<1>3. row.hash.pw = req[q].input
  BY <1>2 DEF User
<1>4. Storeless(q)
  BY <1>1, GotoIsStoreless DEF Steps
<1> HIDE DEF row
<1>5. ChosenPasswordHolds'
  BY <1>1, <1>2, <1>3, UpdateKeepsChosen DEF ChosenInv, ChosenPasswordHolds
<1>6. QED BY <1>1, <1>4, <1>5, StorelessKeeps

LEMMA StoreProfileKeepsChosen ==
  ASSUME IInv, ChosenInv, NEW q, Requests = {q}, StoreProfile(q)
  PROVE  ChosenInv'
<1>1. /\ req[q] # None /\ req[q].at = "update" /\ req[q].op = "profile"
      /\ UpdateUser(req[q].uid, req[q].copy) /\ End(q) /\ UNCHANGED chosen
  BY DEF StoreProfile, At, Idle
<1>2. req[q].copy.hash.pw = chosen[req[q].uid]
  BY <1>1 DEF ChosenInv, Intends
<1>3. ChosenPasswordHolds'
  BY <1>1, <1>2, UpdateKeepsChosen DEF ChosenInv
<1>4. QED BY <1>1, <1>3, EndIsStoreless, StorelessKeeps

LEMMA StorePasswordKeepsChosen ==
  ASSUME IInv, ChosenInv, NEW q, Requests = {q}, StorePassword(q)
  PROVE  ChosenInv'
<1> DEFINE u == req[q].uid
           others == SessionsOf(u) \ {req[q].cookie}
           r == [[req[q] EXCEPT !.at = "revoke"] EXCEPT !.before = others]
<1>1. /\ req[q] # None /\ req[q].at = "update" /\ req[q].op = "password"
      /\ UpdateUser(u, req[q].copy)
  BY DEF StorePassword, At, Idle
<1>2. req[q].copy.hash.pw = req[q].input[2] /\ u \in Users /\ req[q] \in Request
  BY <1>1, Working DEF ChosenInv, Intends, Request
<1>3. CASE Stored(q)
  <2>1. /\ chosen' = [chosen EXCEPT ![u] = req[q].input[2]]
        /\ req' = [req EXCEPT ![q] = r]
    BY <1>3 DEF StorePassword, IInv, TypeOK
  <2>2. chosen'[u] = req[q].input[2] /\ \A v \in DOMAIN users \ {u} : chosen'[v] = chosen[v]
    BY <1>2, <2>1 DEF IInv, TypeOK
  <2>3. ChosenPasswordHolds'
    BY <1>1, <1>2, <1>3, <2>2, UpdateKeepsChosen DEF ChosenInv, Stored
  <2>4. r.at = "revoke"
    BY <1>2 DEF Request
  <2> HIDE DEF r
  <2>5. req'[q].at = "revoke"
    BY <2>1, <2>4 DEF IInv, TypeOK
  <2>6. QED BY <2>3, <2>5 DEF ChosenInv, Intends
<1>4. CASE ~Stored(q)
  <2>1. UNCHANGED <<users, chosen>> /\ End(q)
    BY <1>4 DEF StorePassword, UpdateUser, Stored
  <2>2. QED BY <2>1, EndIsStoreless, SameUsersKeep
<1>5. QED BY <1>3, <1>4

\* Nobody but the sole request is at work when an account is added.
LEMMA RegisterKeepsChosen ==
  ASSUME IInv, ChosenInv, NEW q, Requests = {q}, NEW u \in Users, NEW n, NEW p, NEW k,
         Register(q, u, n, p, k)
  PROVE  ChosenInv'
<1> DEFINE row == [name |-> n, hash |-> [alg |-> Preferred, pw |-> p]]
<1>1. /\ req[q] = None /\ users' = Put(users, u, row)
      /\ chosen' = [chosen EXCEPT ![u] = p]
      /\ UNCHANGED req \/ req'[q].at = "replace"
  BY DEF Register, Idle, IInv, TypeOK
<1>2. row.hash.pw = p
  OBVIOUS
<1> HIDE DEF row
<1>3. ChosenPasswordHolds'
  BY <1>1, <1>2 DEF Put, ChosenInv, ChosenPasswordHolds, IInv, TypeOK
<1>4. QED BY <1>1, <1>3 DEF ChosenInv, Intends

LEMMA InitChosen == Init => ChosenInv
<1> SUFFICES ASSUME Init
             PROVE  ChosenInv
  OBVIOUS
<1>1. PICK old \in SUBSET Users :
        /\ users \in [old -> User]
        /\ chosen = [u \in Users |-> IF u \in old THEN users[u].hash.pw ELSE None]
  BY DEF Init
<1>2. QED BY <1>1 DEF Init, ChosenInv, ChosenPasswordHolds

LEMMA NextChosen ==
  ASSUME NEW q, Requests = {q}, IInv, ChosenInv, [Next]_vars
  PROVE  ChosenInv'
<1>1. CASE \E u \in Users, n \in Usernames, p \in Passwords, k \in Cookies :
             Register(q, u, n, p, k)
  BY <1>1, RegisterKeepsChosen
<1>2. CASE \E u \in Users, p \in Passwords, k \in Cookies : Login(q, u, p, k)
  BY <1>2, LoginKeepsChosen
<1>3. CASE \E s \in Sessions : CreateSession(q, s)
  BY <1>3, EndIsStoreless, SameUsersKeep DEF CreateSession
<1>4. ASSUME NEW s \in Sessions, NEW op, NEW input, Begin(q, op, s, input)
      PROVE  ChosenInv'
  <2>1. Storeless(q) /\ UNCHANGED <<users, chosen>>
    BY <1>4 DEF Begin, Storeless, IInv, TypeOK
  <2>2. QED BY <2>1, SameUsersKeep
<1>5. CASE Rehash(q) \/ ReadForPassword(q) \/ ReadForProfile(q) \/ StoreProfile(q)
           \/ StorePassword(q)
  BY <1>5, RehashKeepsChosen, ReadForPasswordKeepsChosen, ReadForProfileKeepsChosen,
     StoreProfileKeepsChosen, StorePasswordKeepsChosen
<1>6. CASE Replace(q) \/ ResolveUser(q) \/ Touch(q)
  <2>1. req[q] # None /\ UNCHANGED <<users, chosen>>
    BY <1>6 DEF Replace, ResolveUser, Touch, At, Idle
  <2>2. End(q) \/ Goto(q, "create") \/ Goto(q, "touch") \/ Goto(q, "read")
    BY <1>6 DEF Replace, ResolveUser, Touch
  <2>3. Storeless(q)
    BY <2>1, <2>2, EndIsStoreless, GotoIsStoreless DEF Steps
  <2>4. QED BY <2>1, <2>3, SameUsersKeep
<1>7. CASE DropExpired(q) \/ FinishPassword(q) \/ Fail(q)
  BY <1>7, EndIsStoreless, SameUsersKeep DEF DropExpired, FinishPassword, Fail
<1>8. CASE (\E s \in Sessions : Logout(s)) \/ Sweep \/ Tick \/ UNCHANGED vars
  BY <1>8, SameUsersKeep DEF Logout, Sweep, Tick, vars, Storeless
<1>9. CASE \E u \in Users : DeleteUser(u)
  <2>1. PICK u \in Users : DeleteUser(u)
    BY <1>9
  <2>2. ChosenPasswordHolds' /\ UNCHANGED <<req, chosen>>
    BY <2>1 DEF DeleteUser, Keep, ChosenInv, ChosenPasswordHolds
  <2>3. QED BY <2>2, StorelessKeeps DEF Storeless
<1>10. QED
  BY <1>1, <1>2, <1>3, <1>4, <1>5, <1>6, <1>7, <1>8, <1>9 DEF Next

\* With one request at a time the stored hash verifies the password its owner
\* chose last, whatever fails between the statements and however accounts,
\* sessions and algorithms come and go (auth/ui/password.go:17).
THEOREM ChosenStays ==
  ASSUME NEW q, Requests = {q}
  PROVE  Spec => []ChosenPasswordHolds
<1>1. ChosenInv => ChosenPasswordHolds
  BY DEF ChosenInv
<1>2. IInv /\ ChosenInv /\ [Next]_vars => ChosenInv'
  BY NextChosen
<1>3. QED BY <1>1, <1>2, InitChosen, SpecInv, PTL DEF Spec
=============================================================================

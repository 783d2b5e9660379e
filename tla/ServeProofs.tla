----------------------------- MODULE ServeProofs -----------------------------
(***************************************************************************)
(* Proofs about Serve, for any number of requests and connections.         *)
(***************************************************************************)
EXTENDS Serve, TLAPS

Kinds == {"none", "page", "probe", "answered", "dropped", "broken"}

\* While it serves every pool is open: what Run has not returned nobody closes.
PoolsAreOpen ==
  /\ stage \in {"starting", "serving", "draining"} =>
       opened = {binary.pools[i] : i \in 1 .. attempted}
  /\ stage \in {"serving", "draining"} => attempted = Len(binary.pools)

\* A connection is held for work that is left, and a probe has a pool left to ping.
WorkIsLeft ==
  \A r \in Requests :
    /\ holds[r] # None => Running(r) /\ left[r] > 0
    /\ request[r] = "probe" => left[r] <= Len(binary.pools)

\* How far the process is says what it returns and what became of the requests.
ResultIsTrue ==
  /\ stage = "starting" => \A r \in Requests : request[r] = "none"
  /\ stage \in {"starting", "serving", "draining"} => result = None
  /\ stage = "draining" => signalled
  /\ stage \in {"closing", "exited"} => result \in {"ok", "error"}
  /\ result # "error" => \A r \in Requests : request[r] \notin {"broken", "dropped"}
  /\ result = "ok" => signalled /\ \A r \in Requests : ~Running(r)

IInv == TypeOK /\ PoolsAreOpen /\ WorkIsLeft /\ ResultIsTrue

Given == {<< >>, <<"file">>, <<"file", "file", "file">>, <<"auth", "authz", "content">>,
          <<"auth">>, <<"authz">>, <<"content">>}

LEMMA BinariesAre ==
  ASSUME binary \in Binaries
  PROVE  /\ Len(binary.pools) \in Nat
         /\ Len(binary.repositories) \in Nat
         /\ DOMAIN binary.pools = 1 .. Len(binary.pools)
<1>1. \A ps, rs, n, w, p :
        Binary(ps, rs, n, w, p).pools = ps /\ Binary(ps, rs, n, w, p).repositories = rs
  BY DEF Binary
<1>2. \E ps, rs \in Given : \E n, w, p : binary = Binary(ps, rs, n, w, p)
  <2>1. \/ binary \in {BlogOnSQLite, BlogOnPostgres, WebSite}
        \/ \E n \in {1, MaxOpenConns} : binary \in {AuthService(n), AuthzService(n), ContentService(n)}
    BY Zenon DEF Binaries
  <2>2. QED
    BY <2>1, Zenon DEF BlogOnSQLite, BlogOnPostgres, WebSite, AuthService, AuthzService,
       ContentService, Given
<1>3. \A ps \in Given : Len(ps) \in Nat /\ DOMAIN ps = 1 .. Len(ps)
  BY DEF Given
<1>4. binary.pools \in Given /\ binary.repositories \in Given
  <2>1. PICK ps \in Given, rs \in Given : \E n, w, p : binary = Binary(ps, rs, n, w, p)
    BY <1>2
  <2>2. binary.pools = ps /\ binary.repositories = rs
    BY <1>1, <2>1
  <2>3. QED BY <2>2
<1>5. QED BY <1>3, <1>4

LEMMA InitInv == Init => IInv
<1> SUFFICES ASSUME Init PROVE IInv
  OBVIOUS
<1>1. TypeOK
  <2>1. 0 \in 0 .. Len(binary.pools) /\ 0 \in 0 .. Len(binary.repositories)
    BY BinariesAre DEF Init
  <2>2. QED BY <2>1 DEF Init, TypeOK
<1>2. PoolsAreOpen /\ WorkIsLeft
  BY DEF Init, PoolsAreOpen, WorkIsLeft, Actors
<1>3. ResultIsTrue
  BY NoneIsNoValue DEF Init, ResultIsTrue, Running
<1>4. QED BY <1>1, <1>2, <1>3 DEF IInv

\* While it serves, whatever a request asks for is open.
LEMMA AskedIsOpen ==
  ASSUME IInv, stage \in {"serving", "draining"}, NEW r \in Requests, Running(r), left[r] > 0
  PROVE  Asks(r) \subseteq opened
<1>1. opened = Pools
  BY BinariesAre DEF IInv, TypeOK, PoolsAreOpen, Pools
<1>2. CASE request[r] = "probe"
  <2>1. Len(binary.pools) + 1 - left[r] \in 1 .. Len(binary.pools)
    BY <1>2, BinariesAre DEF IInv, TypeOK, WorkIsLeft
  <2>2. QED BY <1>1, <1>2, <2>1, BinariesAre DEF Asks, Pools, IInv, TypeOK
<1>3. CASE request[r] # "probe"
  BY <1>1, <1>3 DEF Asks
<1>4. QED BY <1>2, <1>3

LEMMA StartInv ==
  ASSUME IInv, Open \/ NewRepository \/ StartFails \/ StartServing
  PROVE  IInv'
<1> USE BinariesAre, NoneIsNoValue
<1>1. CASE Open
  <2>1. attempted + 1 \in DOMAIN binary.pools
    BY <1>1 DEF IInv, TypeOK, Open
  <2>2. TypeOK'
    BY <1>1, <2>1 DEF IInv, TypeOK, Open, Pools
  <2>3. opened' = {binary.pools[i] : i \in 1 .. attempted'}
    BY <1>1 DEF IInv, TypeOK, Open, PoolsAreOpen
  <2>4. PoolsAreOpen'
    BY <1>1, <2>3 DEF Open, PoolsAreOpen
  <2>5. WorkIsLeft' /\ ResultIsTrue'
    BY <1>1 DEF IInv, Open, WorkIsLeft, ResultIsTrue, Running
  <2>6. QED BY <2>2, <2>4, <2>5 DEF IInv
<1>2. CASE NewRepository
  <2>1. TypeOK'
    BY <1>2 DEF IInv, TypeOK, NewRepository, Pools
  <2>2. QED
    BY <1>2, <2>1 DEF IInv, NewRepository, PoolsAreOpen, WorkIsLeft, ResultIsTrue,
       Running
<1>3. CASE StartFails
  <2>1. TypeOK'
    BY <1>3 DEF IInv, TypeOK, StartFails, Pools, AfterFailure
  <2>2. QED
    BY <1>3, <2>1 DEF IInv, StartFails, AfterFailure, PoolsAreOpen, WorkIsLeft, ResultIsTrue,
       Running
<1>4. CASE StartServing
  <2>1. TypeOK'
    BY <1>4 DEF IInv, TypeOK, StartServing, Pools
  <2>2. QED
    BY <1>4, <2>1 DEF IInv, StartServing, PoolsAreOpen, WorkIsLeft, ResultIsTrue,
       Running
<1>5. QED BY <1>1, <1>2, <1>3, <1>4

LEMMA ServeInv ==
  ASSUME IInv, Signal \/ Wedge \/ Listen \/ AcceptFails \/ ListenerFailed \/ Shutdown
               \/ Drained \/ Overrun \/ ClosePool \/ Exit \/ UNCHANGED vars
  PROVE  IInv'
<1> USE NoneIsNoValue
<1>1. TypeOK'
  BY DEF IInv, TypeOK, Pools, Signal, Wedge, Listen, AcceptFails, ListenerFailed, Shutdown,
     Drain, Drained, Overrun, ClosePool, Exit, vars
<1>2. PoolsAreOpen'
  BY DEF IInv, PoolsAreOpen, Signal, Wedge, Listen, AcceptFails, ListenerFailed, Shutdown,
     Drain, Drained, Overrun, ClosePool, Exit, vars
<1>3. WorkIsLeft'
  BY DEF IInv, WorkIsLeft, Running, Signal, Wedge, Listen, AcceptFails, ListenerFailed,
     Shutdown, Drain, Drained, Overrun, ClosePool, Exit, vars
<1>4. ResultIsTrue'
  BY DEF IInv, TypeOK, ResultIsTrue, Running, Signal, Wedge, Listen, AcceptFails,
     ListenerFailed, Shutdown, Drain, Drained, Overrun, ClosePool, Exit, vars
<1>5. QED BY <1>1, <1>2, <1>3, <1>4 DEF IInv

LEMMA RequestInv ==
  ASSUME IInv, NEW r \in Requests,
         Arrive(r) \/ Take(r) \/ MeetClosed(r) \/ Done(r) \/ Answer(r) \/ Panic(r)
           \/ ProbeTimesOut(r)
  PROVE  IInv'
<1> USE BinariesAre, NoneIsNoValue
<1>0. UNCHANGED <<binary, stage, opened, attempted, migrated, listener, signalled, wedged, result>>
  BY DEF Arrive, Take, MeetClosed, Done, Answer, Panic, ProbeTimesOut
<1>1. PoolsAreOpen'
  BY <1>0 DEF IInv, PoolsAreOpen
<1>2. CASE Arrive(r)
  <2>1. TypeOK'
    <3>1. left' \in [Requests -> Nat]
      BY <1>2, PoolsHoldConnections DEF IInv, TypeOK, Arrive
    <3>2. request' \in [Requests -> Kinds]
      BY <1>2 DEF IInv, TypeOK, Arrive, Kinds
    <3>3. holds' = holds
      BY <1>2 DEF Arrive
    <3>4. QED BY <1>0, <3>1, <3>2, <3>3 DEF IInv, TypeOK, Pools, Kinds
  <2>2. WorkIsLeft'
    <3> SUFFICES ASSUME NEW s \in Requests
                 PROVE  /\ holds[s] # None => (request'[s] \in {"page", "probe"} /\ left'[s] > 0)
                        /\ request'[s] = "probe" => left'[s] <= Len(binary.pools)
      BY <1>2 DEF WorkIsLeft, Running, Arrive
    <3>1. CASE s = r
      BY <1>2, <3>1 DEF IInv, TypeOK, WorkIsLeft, Arrive, Running
    <3>2. CASE s # r
      BY <1>2, <3>2 DEF IInv, TypeOK, WorkIsLeft, Arrive, Running
    <3>3. QED BY <3>1, <3>2
  <2>3. ResultIsTrue'
    BY <1>2 DEF IInv, TypeOK, ResultIsTrue, Arrive, Running
  <2>4. QED BY <1>1, <2>1, <2>2, <2>3 DEF IInv
<1>3. CASE Take(r)
  <2>1. PICK pool \in opened : holds' = [holds EXCEPT ![r] = pool]
    BY <1>3 DEF Take
  <2>2. TypeOK'
    BY <1>0, <1>3, <2>1 DEF IInv, TypeOK, Take, Pools, Actors
  <2>3. WorkIsLeft' /\ ResultIsTrue'
    BY <1>3, <2>1 DEF IInv, TypeOK, WorkIsLeft, ResultIsTrue, Take, Running, Actors
  <2>4. QED BY <1>1, <2>2, <2>3 DEF IInv
<1>4. CASE MeetClosed(r)
  <2>1. TypeOK'
    BY <1>0, <1>4 DEF IInv, TypeOK, MeetClosed, Pools
  <2>2. WorkIsLeft'
    BY <1>4 DEF IInv, TypeOK, WorkIsLeft, MeetClosed, Running
  <2>3. result = "error"
    <3>1. stage \notin {"serving", "draining"}
      BY <1>4, AskedIsOpen DEF MeetClosed
    <3>2. stage # "starting"
      BY <1>4 DEF IInv, ResultIsTrue, MeetClosed, Running
    <3>3. result # "ok"
      BY <1>4 DEF IInv, ResultIsTrue, MeetClosed
    <3>4. QED BY <3>1, <3>2, <3>3 DEF IInv, TypeOK, ResultIsTrue
  <2>4. ResultIsTrue'
    BY <1>4, <2>3 DEF IInv, TypeOK, ResultIsTrue, MeetClosed, Running
  <2>5. QED BY <1>1, <2>1, <2>2, <2>4 DEF IInv
<1>5. CASE Done(r)
  <2>1. left[r] \in Nat /\ left[r] > 0
    BY <1>5 DEF IInv, TypeOK, WorkIsLeft, Done
  <2>2. left' = [left EXCEPT ![r] = left[r] - 1]
    BY <1>5 DEF Done, OneLess
  <2>3. TypeOK'
    BY <1>0, <1>5, <2>1, <2>2 DEF IInv, TypeOK, Done, Pools, Actors
  <2>4. WorkIsLeft'
    BY <1>5, <2>1, <2>2 DEF IInv, TypeOK, WorkIsLeft, Done, Running, Actors
  <2>5. ResultIsTrue'
    BY <1>5 DEF IInv, ResultIsTrue, Done, Running
  <2>6. QED BY <1>1, <2>3, <2>4, <2>5 DEF IInv
<1>6. CASE Answer(r)
  <2>1. TypeOK'
    BY <1>0, <1>6 DEF IInv, TypeOK, Answer, Pools
  <2>2. WorkIsLeft'
    BY <1>6 DEF IInv, TypeOK, WorkIsLeft, Answer, Running
  <2>3. ResultIsTrue'
    BY <1>6 DEF IInv, TypeOK, ResultIsTrue, Answer, Running
  <2>4. QED BY <1>1, <2>1, <2>2, <2>3 DEF IInv
<1>7. CASE Panic(r) \/ ProbeTimesOut(r)
  <2>1. /\ Running(r)
        /\ request' = [request EXCEPT ![r] = "answered"]
        /\ holds' = [holds EXCEPT ![r] = None]
        /\ left' = left
    BY <1>7 DEF Panic, RecoverPanics, ProbeTimesOut, TimesOut, Running
  <2>2. TypeOK'
    BY <1>0, <2>1 DEF IInv, TypeOK, Pools, Actors
  <2>3. WorkIsLeft'
    BY <1>0, <2>1 DEF IInv, TypeOK, WorkIsLeft, Running, Actors
  <2>4. ResultIsTrue'
    BY <1>0, <2>1 DEF IInv, TypeOK, ResultIsTrue, Running
  <2>5. QED BY <1>1, <2>2, <2>3, <2>4 DEF IInv
<1>8. QED BY <1>2, <1>3, <1>4, <1>5, <1>6, <1>7

LEMMA SweepInv ==
  ASSUME IInv, Sweeper \notin Requests, Sweep \/ SweepEnds
  PROVE  IInv'
<1>1. \A r \in Requests : holds'[r] = holds[r]
  BY DEF IInv, TypeOK, Sweep, SweepEnds, Actors
<1>2. UNCHANGED <<binary, stage, opened, attempted, migrated, listener, signalled, wedged,
                  request, left, result>>
  BY DEF Sweep, SweepEnds
<1>3. holds' \in [Actors -> Pools \cup {None}]
  BY DEF IInv, TypeOK, Sweep, SweepEnds, Actors
<1>4. QED
  BY <1>1, <1>2, <1>3 DEF IInv, TypeOK, Pools, PoolsAreOpen, WorkIsLeft, ResultIsTrue,
     Running

LEMMA NextInv == IInv /\ [Next]_vars => IInv'
BY StartInv, ServeInv, RequestInv, SweepInv, SweeperIsNoRequest DEF Next

LEMMA SpecInv == Spec => []IInv
BY InitInv, NextInv, PTL DEF Spec

\* The types of Serve's state.
THEOREM TypeCorrect == Spec => []TypeOK
<1>1. IInv => TypeOK
  BY DEF IInv
<1>2. QED BY <1>1, SpecInv, PTL

\* Exit code 0 means asked to stop, and every accepted request answered
\* (pkg/serve/serve.go:138).
THEOREM ExitCodeIsTrue == Spec => []CleanExit
<1>1. IInv => CleanExit
  BY DEF IInv, TypeOK, ResultIsTrue, CleanExit, ExitCode, Running
<1>2. QED BY <1>1, SpecInv, PTL

\* Only a process that exits with an error closes a pool under a handler
\* (app/app.go:115-119).
THEOREM GoodOrder == Spec => []NoClosedPoolInGoodOrder
<1>1. IInv => NoClosedPoolInGoodOrder
  BY DEF IInv, ResultIsTrue, NoClosedPoolInGoodOrder
<1>2. QED BY <1>1, SpecInv, PTL
=============================================================================

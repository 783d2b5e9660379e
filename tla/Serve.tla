------------------------------- MODULE Serve --------------------------------
(***************************************************************************)
(* One process from its start to its exit code: the pools it opens and the *)
(* repositories that migrate over them (app, app/authapp and the others),  *)
(* the listener, the requests, the sweeper, the probe and the shutdown     *)
(* (pkg/serve).                                                            *)
(*                                                                         *)
(* A pool is a *sql.DB.  Once closed it gives out no connection, while one *)
(* already given out goes on; with SQLite it has a single connection.  The *)
(* database may wedge: its statements then never end.                      *)
(***************************************************************************)
EXTENDS Naturals, Sequences, FiniteSets

CONSTANTS
  Requests,
  MaxOpenConns,  \* of a Postgres pool
  MaxUnits,      \* bound: the statements and transactions of a page
  None

ASSUME PoolsHoldConnections == MaxOpenConns \in Nat \ {0} /\ MaxUnits \in Nat

ASSUME NoneIsNoValue == None \notin {"ok", "error", "file", "auth", "authz", "content"}

VARIABLES
  binary,     \* what the process is made of
  stage,      \* "starting", "serving", "draining", "closing" or "exited"
  opened,     \* the pools that are open
  attempted,  \* how many of binary.pools have been opened
  migrated,   \* how many of binary.repositories are ready
  listener,   \* "none", "pending", "listening", "closed" or "failed"
  signalled,  \* SIGTERM or SIGINT has arrived
  wedged,     \* the database has stopped answering
  request,    \* request[r]: "none", "page", "probe", "answered", "dropped" or "broken"
  left,       \* left[r]: the statements and transactions still to run
  holds,      \* holds[a]: the pool whose connection a has, or None
  result      \* what Run returns: "ok" or "error"; None before

vars == <<binary, stage, opened, attempted, migrated, listener, signalled, wedged, request,
          left, holds, result>>

Sweeper == "sweeper"
Actors == Requests \cup {Sweeper}

ASSUME SweeperIsNoRequest == Sweeper \notin Requests

-----------------------------------------------------------------------------
(* The composition roots.                                                  *)

Binary(pools, repositories, connections, sweeper, probed) ==
  [pools |-> pools, repositories |-> repositories, connections |-> connections,
   sweeper |-> sweeper, probed |-> probed]

\* One file for all three services, or a schema each.
BlogOnSQLite == Binary(<<"file">>, <<"file", "file", "file">>, 1, TRUE, TRUE)
BlogOnPostgres ==
  Binary(<<"auth", "authz", "content">>, <<"auth", "authz", "content">>, MaxOpenConns, TRUE, TRUE)

AuthService(connections) == Binary(<<"auth">>, <<"auth">>, connections, TRUE, TRUE)
AuthzService(connections) == Binary(<<"authz">>, <<"authz">>, connections, FALSE, TRUE)
ContentService(connections) == Binary(<<"content">>, <<"content">>, connections, FALSE, TRUE)

\* Its readiness asks nothing.
WebSite == Binary(<<>>, <<>>, 1, FALSE, FALSE)

Binaries ==
  {BlogOnSQLite, BlogOnPostgres, WebSite}
    \cup UNION {{AuthService(n), AuthzService(n), ContentService(n)} : n \in {1, MaxOpenConns}}

Pools == {binary.pools[i] : i \in DOMAIN binary.pools}

-----------------------------------------------------------------------------
Init ==
  /\ binary \in Binaries
  /\ stage = "starting"
  /\ opened = {}
  /\ attempted = 0
  /\ migrated = 0
  /\ listener = "none"
  /\ signalled = FALSE
  /\ wedged = FALSE
  /\ request = [r \in Requests |-> "none"]
  /\ left = [r \in Requests |-> 0]
  /\ holds = [a \in Actors |-> None]
  /\ result = None

Signal ==
  /\ stage # "exited"
  /\ ~signalled
  /\ signalled' = TRUE
  /\ UNCHANGED <<binary, stage, opened, attempted, migrated, listener, wedged, request, left,
                 holds, result>>

Wedge ==
  /\ ~wedged
  /\ wedged' = TRUE
  /\ UNCHANGED <<binary, stage, opened, attempted, migrated, listener, signalled, request, left,
                 holds, result>>

\* Open pings the database; a pool that does not answer is closed again.
Open ==
  /\ stage = "starting"
  /\ attempted < Len(binary.pools)
  /\ ~wedged /\ ~signalled
  /\ opened' = opened \cup {binary.pools[attempted + 1]}
  /\ attempted' = attempted + 1
  /\ UNCHANGED <<binary, stage, migrated, listener, signalled, wedged, request, left, holds,
                 result>>

NewRepository ==
  /\ stage = "starting"
  /\ attempted = Len(binary.pools)
  /\ migrated < Len(binary.repositories)
  /\ ~wedged /\ ~signalled
  /\ migrated' = migrated + 1
  /\ UNCHANGED <<binary, stage, opened, attempted, listener, signalled, wedged, request, left,
                 holds, result>>

\* New gives up, on an error of its own or since the signal cancelled what it
\* waits for, and closes the pools it has opened; main exits.
AfterFailure == {}
StartFails ==
  /\ stage = "starting"
  /\ opened' = AfterFailure
  /\ stage' = "exited"
  /\ result' = "error"
  /\ UNCHANGED <<binary, attempted, migrated, listener, signalled, wedged, request, left, holds>>

StartServing ==
  /\ stage = "starting"
  /\ attempted = Len(binary.pools)
  /\ migrated = Len(binary.repositories)
  /\ stage' = "serving"
  /\ listener' = "pending"
  /\ UNCHANGED <<binary, opened, attempted, migrated, signalled, wedged, request, left, holds,
                 result>>

\* The goroutine of ListenAndServe; after Shutdown it returns at once.
Listen ==
  /\ listener = "pending"
  /\ stage # "exited"
  /\ \/ stage = "serving" /\ listener' \in {"listening", "failed"}
     \/ stage = "draining" /\ listener' \in {"closed", "failed"}
  /\ UNCHANGED <<binary, stage, opened, attempted, migrated, signalled, wedged, request, left,
                 holds, result>>

AcceptFails ==
  /\ stage = "serving"
  /\ listener = "listening"
  /\ listener' = "failed"
  /\ UNCHANGED <<binary, stage, opened, attempted, migrated, signalled, wedged, request, left,
                 holds, result>>

-----------------------------------------------------------------------------
(* Requests, and the sweeper.                                              *)

Running(r) == request[r] \in {"page", "probe"}

\* The probe pings each pool, a page's handlers run what they run.
Arrive(r) ==
  /\ listener = "listening"
  /\ stage = "serving"
  /\ request[r] = "none"
  /\ \/ /\ request' = [request EXCEPT ![r] = "page"]
        /\ \E n \in 0 .. (IF Pools = {} THEN 0 ELSE MaxUnits) : left' = [left EXCEPT ![r] = n]
     \/ /\ request' = [request EXCEPT ![r] = "probe"]
        /\ left' = [left EXCEPT ![r] = IF binary.probed THEN Len(binary.pools) ELSE 0]
  /\ UNCHANGED <<binary, stage, opened, attempted, migrated, listener, signalled, wedged, holds,
                 result>>

Free(pool) == Cardinality({a \in Actors : holds[a] = pool}) < binary.connections

Asks(r) ==
  IF request[r] = "probe" THEN {binary.pools[Len(binary.pools) + 1 - left[r]]} ELSE Pools

\* A statement or a transaction takes a connection of its pool.
Take(r) ==
  /\ stage # "exited"
  /\ Running(r)
  /\ left[r] > 0
  /\ holds[r] = None
  /\ \E pool \in Asks(r) \cap opened :
       /\ Free(pool)
       /\ holds' = [holds EXCEPT ![r] = pool]
  /\ UNCHANGED <<binary, stage, opened, attempted, migrated, listener, signalled, wedged,
                 request, left, result>>

\* A closed pool has none: the handler answers with an error.
MeetClosed(r) ==
  /\ stage # "exited"
  /\ Running(r)
  /\ left[r] > 0
  /\ holds[r] = None
  /\ Asks(r) \ opened # {}
  /\ request' = [request EXCEPT ![r] = "broken"]
  /\ UNCHANGED <<binary, stage, opened, attempted, migrated, listener, signalled, wedged, left,
                 holds, result>>

\* Nothing asks for a second connection while it holds one.
EndsNested(r) == /\ ~wedged
                 /\ Free(holds[r])
Ends(r) == ~wedged

TwoLess(n) == n - 2
OneLess(n) == n - 1
Done(r) ==
  /\ stage # "exited"
  /\ Running(r)
  /\ holds[r] # None
  /\ Ends(r)
  /\ holds' = [holds EXCEPT ![r] = None]
  /\ left' = [left EXCEPT ![r] = OneLess(@)]
  /\ UNCHANGED <<binary, stage, opened, attempted, migrated, listener, signalled, wedged,
                 request, result>>

Answer(r) ==
  /\ stage # "exited"
  /\ Running(r)
  /\ left[r] = 0
  /\ request' = [request EXCEPT ![r] = "answered"]
  /\ UNCHANGED <<binary, stage, opened, attempted, migrated, listener, signalled, wedged, left,
                 holds, result>>

\* A handler that panics between two statements, or in one whose rows or
\* transaction its deferred calls give back.
LeavesThePanic == "dropped"
RecoverPanics == "answered"
Panic(r) ==
  /\ stage # "exited"
  /\ request[r] = "page"
  /\ request' = [request EXCEPT ![r] = RecoverPanics]
  /\ holds' = [holds EXCEPT ![r] = None]
  /\ UNCHANGED <<binary, stage, opened, attempted, migrated, listener, signalled, wedged, left,
                 result>>

\* readyTimeout: the probe answers without the database.
NeverTimesOut(r) == FALSE
TimesOut(r) == request[r] = "probe"
ProbeTimesOut(r) ==
  /\ stage # "exited"
  /\ left[r] > 0
  /\ TimesOut(r)
  /\ request' = [request EXCEPT ![r] = "answered"]
  /\ holds' = [holds EXCEPT ![r] = None]
  /\ UNCHANGED <<binary, stage, opened, attempted, migrated, listener, signalled, wedged, left,
                 result>>

\* The sweeper's statement lives in the pool of the auth service.
Sweep ==
  LET pool == binary.repositories[1]
  IN /\ stage \in {"serving", "closing"}
     /\ binary.sweeper
     /\ ~signalled
     /\ holds[Sweeper] = None
     /\ pool \in opened
     /\ Free(pool)
     /\ holds' = [holds EXCEPT ![Sweeper] = pool]
     /\ UNCHANGED <<binary, stage, opened, attempted, migrated, listener, signalled, wedged,
                    request, left, result>>

\* It ends by itself, or with the context the signal cancels.
SweepEnds ==
  /\ stage # "exited"
  /\ holds[Sweeper] # None
  /\ ~wedged \/ signalled
  /\ holds' = [holds EXCEPT ![Sweeper] = None]
  /\ UNCHANGED <<binary, stage, opened, attempted, migrated, listener, signalled, wedged,
                 request, left, result>>

-----------------------------------------------------------------------------
(* The end.                                                                *)

\* Run's select; what it returns closes the application.
ListenerFailed ==
  /\ stage = "serving"
  /\ listener = "failed"
  /\ stage' = "closing"
  /\ result' = "error"
  /\ UNCHANGED <<binary, opened, attempted, migrated, listener, signalled, wedged, request, left,
                 holds>>

ReturnAtOnce == stage' = "closing" /\ result' = "ok"
Drain == stage' = "draining" /\ UNCHANGED result
Shutdown ==
  /\ stage = "serving"
  /\ signalled
  /\ Drain
  /\ listener' = IF listener = "listening" THEN "closed" ELSE listener
  /\ UNCHANGED <<binary, opened, attempted, migrated, signalled, wedged, request, left, holds>>

Drained ==
  /\ stage = "draining"
  /\ \A r \in Requests : ~Running(r)
  /\ listener \in {"closed", "failed"}
  /\ stage' = "closing"
  /\ result' = IF listener = "closed" THEN "ok" ELSE "error"
  /\ UNCHANGED <<binary, opened, attempted, migrated, listener, signalled, wedged, request, left,
                 holds>>

\* ShutdownTimeout: what still runs is left to the exit.
NoDeadline == FALSE
Deadline == \E r \in Requests : Running(r)
Overrun ==
  /\ stage = "draining"
  /\ Deadline
  /\ stage' = "closing"
  /\ result' = "error"
  /\ UNCHANGED <<binary, opened, attempted, migrated, listener, signalled, wedged, request, left,
                 holds>>

ClosePool ==
  /\ stage = "closing"
  /\ \E pool \in opened : opened' = opened \ {pool}
  /\ UNCHANGED <<binary, stage, attempted, migrated, listener, signalled, wedged, request, left,
                 holds, result>>

Exit ==
  /\ stage = "closing"
  /\ opened = {}
  /\ stage' = "exited"
  /\ UNCHANGED <<binary, opened, attempted, migrated, listener, signalled, wedged, request, left,
                 holds, result>>

ExitCode == IF result = "ok" THEN 0 ELSE 1

Next ==
  \/ Signal \/ Wedge
  \/ Open \/ NewRepository \/ StartFails \/ StartServing \/ Listen \/ AcceptFails
  \/ \E r \in Requests :
       \/ Arrive(r) \/ Take(r) \/ MeetClosed(r) \/ Done(r) \/ Answer(r) \/ Panic(r)
       \/ ProbeTimesOut(r)
  \/ Sweep \/ SweepEnds
  \/ ListenerFailed \/ Shutdown \/ Drained \/ Overrun \/ ClosePool \/ Exit

\* The goroutines run.  Statements end unless the database wedges, a connection
\* that is given back goes to one who waits, the timers of the shutdown and of
\* the probe fire, and a start that waits is cancelled by the signal.
Fairness ==
  /\ WF_vars(signalled /\ (StartFails \/ StartServing))
  /\ WF_vars(Listen) /\ WF_vars(ListenerFailed) /\ WF_vars(Shutdown)
  /\ WF_vars(Drained \/ Overrun) /\ WF_vars(ClosePool) /\ WF_vars(Exit)
  /\ WF_vars(SweepEnds)
  /\ \A r \in Requests :
       /\ SF_vars(Take(r)) /\ WF_vars(Done(r)) /\ WF_vars(Answer(r))
       /\ WF_vars(ProbeTimesOut(r))

Spec == Init /\ [][Next]_vars /\ Fairness

-----------------------------------------------------------------------------
TypeOK ==
  /\ binary \in Binaries
  /\ stage \in {"starting", "serving", "draining", "closing", "exited"}
  /\ opened \subseteq Pools
  /\ attempted \in 0 .. Len(binary.pools)
  /\ migrated \in 0 .. Len(binary.repositories)
  /\ listener \in {"none", "pending", "listening", "closed", "failed"}
  /\ signalled \in BOOLEAN
  /\ wedged \in BOOLEAN
  /\ request \in [Requests -> {"none", "page", "probe", "answered", "dropped", "broken"}]
  /\ left \in [Requests -> Nat]
  /\ holds \in [Actors -> Pools \cup {None}]
  /\ result \in {"ok", "error", None}

\* Exit code 0 is a promise: the process was asked to stop, and every request it
\* had accepted was answered over pools that were still open (pkg/serve/serve.go:138).
CleanExit ==
  stage = "exited" /\ ExitCode = 0 =>
    signalled /\ \A r \in Requests : request[r] \in {"none", "answered"}

\* A handler meets a closed pool only in a process that exits with an error: one
\* past the deadline of its shutdown, or whose listener failed (app/app.go:115-119).
NoClosedPoolInGoodOrder ==
  (\E r \in Requests : request[r] = "broken") => result = "error"

\* A signal ends the process, even while starting, with a wedged database and a
\* handler that never returns (pkg/serve/serve.go:138).
SignalEnds == signalled ~> stage = "exited"

\* A probe is answered whatever the database does (pkg/serve/serve.go:45).
ProbesAreAnswered ==
  \A r \in Requests : request[r] = "probe" ~> request[r] # "probe" \/ stage = "exited"

\* A page is answered unless the database wedges: handlers, the probe and the
\* sweeper share SQLite's one connection and never wait for each other in a circle
\* (pkg/storage/storage.go:110).
PagesAreAnswered ==
  \A r \in Requests : request[r] = "page" ~> request[r] # "page" \/ wedged \/ stage = "exited"
=============================================================================

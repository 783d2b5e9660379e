# A TLA+ model of buildset

buildset is a small site engine in Go: three services — identity (`auth`),
authorization (`authz`) and content (`content`) — each with its own database,
and a `web` front end that composes them, in one process or over HTTP. No
transaction spans two services and, inside a service, most operations are
several statements with no transaction either. What holds while requests
overlap, calls fail and processes stop is therefore a matter of the *order* of
statements, and that is what this project models, checks with TLC and, for
every component modelled, proves with TLAPS.

Paths below are relative to the repository; module names are files of this
directory.

## Inventory

| Component | State it keeps | Operations | Hard behaviour | What makes it correct |
|---|---|---|---|---|
| First-run setup (`auth/service.go`, `auth/ui/setup.go`, `auth/ui/register.go`, `app/authapp/hook.go`) | users table; role rows in authz | gate, check, insert, recount, hook, rollback, session | racing visitors; a hook in another service; a rollback that fails; late assignments | at most one administrator is handed out, the winner really is one, a refused setup leaves nothing |
| Accounts and sessions (`auth/service.go`, `auth/sqlite`, `auth/ui`, `web/account.go`) | users, sessions | register, log in (rehash, replace, create), resolve and touch, profile, password, delete, sweep | whole-row writes of stale copies; a session stored after its account or the password went | sessions have accounts, die, and do not outlive a password change; the chosen password holds |
| Password hashes (`auth/hash`) | — | make, verify, needs rehash | — | part of `Auth` |
| Content (`content/service.go`, `content/sqlite`) | posts | create, update, set status, delete | read–change–write with no version | lifecycle, publication date, no resurrection |
| Rendering (`content/render`) | — | pure | — | not modelled |
| Authorization (`authz/service.go`, `match.go`, `authz/sqlite`) | subject_roles, grants, seeded roles | assign, revoke, grant, can, purge | wildcard matching | who may do what |
| Administration pages (`web/admin_*.go`, `guard.go`, `session.go`) | none | create, edit, publish, delete posts; roles; delete accounts | several calls to several services; a check that is stale when used; failures, lost answers, late effects | only owners touch posts, no orphans, an administrator remains |
| Public pages and the account form (`web/public.go`, `web/account.go`) | none | show the front page, a post; change one's profile | a failure of one of several services | what is shown is permitted, what is said is so |
| HTTP APIs, clients and adapters (`pkg/httpx`, `*/httpapi`, `*/client`, `web/remote`, `app/direct.go`) | — | one call each | timeouts, lost and late answers, foreign answers, error classification | a caller is told the service's decision or a failure, and of a success nobody decided only where it wants no response; a split site answers as the single binary does |
| Migrations (`pkg/sqlmigrate`) | bookkeeping table, and with it the schema; advisory lock | lock, read, recognise or apply each file, unlock | replicas starting together, crashes, commits without an answer, diverging releases | no collision, a replica serves on its own schema only, no start waits for ever |
| Server lifecycle (`pkg/serve`, `app`, `app/*app`, `pkg/storage`) | pools, listener, requests, background goroutines | start, serve, probe, sweep, drain, exit | a start that fails half way; requests in flight, panics, a deadline; a database that stops answering; SQLite's one connection | the exit code is true, no handler meets a closed pool in good order, a signal ends it, probes and pages are answered |
| References, redirect targets (`pkg/ref`, `pkg/safeurl`) | — | parse | — | planned |
| Configuration, request ids | — | read once | — | not modelled: I/O without a protocol |
| Postgres backends | as SQLite | as SQLite | — | not modelled apart: the same statements, and the same repository tests |

The parts interact so: the browser reaches `auth/ui` and `web`; `web` calls the
three services through an interface that is either direct (`app/direct.go`) or
remote (`web/remote`); `auth` calls `authz` in one place only, the first-user
hook, and asks it for one permission, that of registering somebody when
registration is closed. Services never call back.

## Modules

| Module | Models |
|---|---|
| `Seat` | what first-run setup promises: one seat, never shared |
| `Setup` | setup and registration, statement by statement; implements `Seat` |
| `PostLifecycle` | what the content service promises of a post |
| `Content` | the posts table and requests that hold a copy of a row; one request at a time implements `PostLifecycle` |
| `Auth` | accounts, hashes, sessions, the sweep and the clock |
| `Authz` | roles, grants, wildcard matching; operators and one-step operations, no specification of its own |
| `Site` | EXTENDS `Authz`: the handlers of the administration pages as plans of calls |
| `Migrate` | replicas of one service that run `Runner.Up` under the Postgres dialect |
| `Wire` | one call from the error of a service to the sentinel a page sees, over HTTP and in process; operators only |
| `Exchange` | what a caller may rely on of a call |
| `Remote` | EXTENDS `Wire`: the pages and their calls when the site is split from its services; every call implements `Exchange` |
| `Serve` | one process of any binary, from its start to its exit code |
| `MCSetup`, `MCContent`, `MCAuth`, `MCSite`, `MCMigrate`, `MCRemote`, `MCServe` | instances for TLC |
| `SetupProofs`, `ContentProofs`, `AuthProofs`, `SiteProofs`, `SiteRestProofs`, `MigrateProofs`, `RemoteProofs`, `ServeProofs` | theorems |

### How state and actions correspond to the code

*Granularity.* Each request runs on its own goroutine. One SQL statement, or
one transaction, or one call to another service, is one action; requests
interleave between actions. Each request carries its position (`pc`, or the
`at` field of `req`) and the values it has read.

*Setup.* `users` is the table, `admins` the administrator rows in authz,
`pc[r]` the statement submission `r` runs next, `outcome[r]` its answer.
`SetupGate` and `CheckOpen` are the two checks that no account exists;
`InsertFirst` and `Recount` are the insert and the count that decides a race;
`HookSucceeds`/`HookFails` one `AssignRole` call each, tried `HookAttempts`
times; a call that timed out puts the assignment in `inflight`, from which
`LateAssignment` may apply it at any later time. `StatementFails` is the
failure of whichever statement the request stands at, with the continuation the
code has for it (in particular the rollback after a failed recount and *no*
rollback after a failed insert that was committed). `Abort` is a process that
stops or a cancelled context. `RegisterGate` and `Register` are a registration,
which does not look at whether setup has been done. `counted` and `faulted` are
history variables.

*Content.* `posts` maps identifiers to rows. `UpdatePost` and `SetStatus` are
the first halves of the two updates: they read a row and keep the changed copy
in `job[r]`. `Write` is the `UPDATE` of every column but the author, which
finds no row when the post is gone. `AbandonWrite` is a failed statement.

*Auth.* A token is its session row. `Login` reads the account and verifies the
password, then `Rehash`, `Replace` and `CreateSession` follow as statements of
their own; `Begin`, `DropExpired`, `ResolveUser` and `Touch` are
`ResolveSession`; the profile and password handlers then read the account
again, and store the whole row. `Fail` ends a request between two statements.
Hash formats and bcrypt are abstracted to an algorithm and the password the
hash verifies.

*Site.* A request is `withSession`, `requirePermission`, a load and a *plan*:
the sequence of service calls of its handler (`CreatePlan`, `DeletePlan`,
`RolePlan`, ...). `CallSucceeds` runs the first call of the plan. `CallFails`
covers the three failures of a remote call — before its effect, after it, or
given up on with the effect under way (`late`, applied by `Land`) — and the one
retry the code makes. `Crash` is a process that stops.

*Migrate.* `records` is the bookkeeping table; a file and its record are one
transaction, so it is the history of the schema too. `holder` is the session
that has the advisory lock, `release[r]` the binary replica `r` runs, that is
its files with their checksums. `byVersion[r]` and `left[r]` are the copy and
the position of the loop of `Up`. `Lock` waits, `ReadApplied` is `createTable`
and `applied`, `Recognise`, `RefuseEdited` and `Apply` are the three ways one
turn of the loop can go, `FinishScan` its end, `Unlock` the deferred call and
the return to `NewRepository`. `StatementFails` ends `Up` with an error, with
or without its transaction committed; `LockFails` ends it before `Unlock` is
deferred. `Stop` is a process that is killed or whose start is cancelled: its
session (`Lingering`) keeps the lock until the server drops it. A cancelled
start whose process runs on to its exit is the same, as every statement it still
sends fails, `Unlock` among them. The SQLite dialect has no lock, because its one
connection is not shared between processes (`dialect.go:53-54`). A live replica
whose session the server drops before its `Unlock`, and with it the lock, is left
out: as `Up` keeps to one connection, all its later statements fail, and it ends
as by `StatementFails`.

*Wire, Remote.* `AuthResults`, `AuthzResults` and `ContentResults` are the errors
each operation of a service can return; `AuthAPI` and its siblings the response
the handler writes; `DecodeError`, `Call` and `Translate` what the client and the
adapter make of a response; `DirectAuth` and its siblings the adapter of the
single binary. In `Remote`, `at[q]` is the call a page waits for, and `After` is
the page: what it does next, or answers, given what it was told. `Go` sends a
call, `Serve` is the service's handler, `Unread` one that turns the body away
(`DecodeJSON`), `Receive` and `CallFails` the two ends a call has for its
caller. A call given up on may stay in `sent` and be served later. `Interpose`
is a gateway, a proxy or the wrong server answering in the service's place, with
one of the responses of `Foreign`; `OtherPage` is the one of them under status
200. A call in `Blind` wants no response and takes it for the service's success;
`mistaken` is a history variable that keeps those calls. Two foreign responses
are left out, and no property or theorem speaks of them: a well-formed envelope
under its own status, which no client could tell from the service's, and, where a
response is wanted, a 200 with JSON that decodes, which comes out as a user or a
post with empty fields. `CutShort` is a response that breaks off. A service decides as it likes, as the
other modules say how it decides; only `ResolveSession` is tied to the sessions
that are `live`, and `EndSession` ends one at any time. A session lookup that
fails is answered 503 and told apart from one that finds nothing.

*Serve.* `binary` is what the process is made of: the pools it opens, the
repositories that migrate over them, the connections of a pool, and whether it
has the sweeper and something to probe; `Binaries` lists those of `cmd/`, over
either database. `Open`, `NewRepository`, `StartFails` and `StartServing` are
the start; `Listen` is the goroutine of `ListenAndServe`; `ListenerFailed` and
`Shutdown` are the two cases of the `select` in `Run`; `Drained` and `Overrun`
the two ends of `server.Shutdown`; `ClosePool` and `Exit` the deferred `Close`
and `main`. A request has `left[r]` statements or transactions to run; `Take`
gets a connection for one and `Done` gives it back, `MeetClosed` is the error of
a closed pool. `Panic` ends a handler between or in a statement, with
`RecoverPanics` answering. `Wedge` is a database whose statements no longer end.
`sql.DB.Close` does not wait for connections in use. Idle and new connections of
`Shutdown`, and browsers that go away, are left out. That a page never asks for a
second connection while it holds one is read off the code and is what the shape
of `Take` and `Done` says; that a failed start closes the pools it opened
(`AfterFailure`) is part of the action and no property.

Left out everywhere: validation that refuses a form before anything is written
(in `Setup` it is the rejection that is always possible), layout, logging and
wording.

## Runs

| Run | Question | States |
|---|---|---|
| `setup_race` | three submissions and an open registration under every fault | 137 510 |
| `content_concurrent` | two requests, two posts | 68 000 |
| `content_alone` | one request, two posts, refinement of `PostLifecycle` | 53 000 |
| `auth_races` | two requests, one account, two sessions, two passwords, two algorithms | 1.8 million |
| `auth_alone` | one request, two accounts and names, with fairness | 116 000 |
| `site_races` | two requests, two accounts, one post, every call succeeds | 677 500 |
| `site_alone` | one request with every fault, one late call | 857 388 |
| `migrate_replicas` | three replicas of three releases, every fault, with fairness | 55 895 |
| `remote_faults` | one request for any of seven pages, one session, every fault of its calls, with fairness; refinement of `Exchange` | 5 210 |
| `serve_lives` | nine binaries, two requests and the sweeper, every fault, with fairness | 115 394 |

What they show:

- `setup_race`: `AtMostOneAdministrator`; `WinnerAdministers` (whoever is told
  so has the account *and* the role); `FailureLeavesNoAccount` (a refusal
  leaves no account unless one of its own statements failed);
  `EveryRequestAnswered`; and `SeatIsRespected`, that setup implements `Seat`.
  `Seat` has a `Vacate` step because the rollback of a failed hook opens setup
  again after other visitors were told it is closed; `auth/auth.go:27` says
  that it never reopens.
- `content_concurrent`: a published post has a date, so the `CHECK` of the
  table never fires; a deleted post stays deleted; and a write whose row has
  not changed since it was read follows the lifecycle, whoever else is at work.
  `content_alone` says the rest: with one request at a time the service
  implements the lifecycle. Together they locate what concurrency breaks in
  the stale copy and nowhere else.
- `auth_races`: no session without its account; a deleted account stays deleted
  though profile edits, password changes and rehashes of it are under way; after
  a completed password change none of the other sessions is left or comes back.
  `auth_alone`: the stored hash verifies the password the owner chose last, and
  every session ends, though touching it is always possible.
- `site_races`: only the author of a post, or somebody who has been an
  administrator, ever changes it, and the author of a post keeps the grants on
  it. `site_alone`: the first also under failures, and at rest nothing is held
  over, or by, what is gone, and some account can administer the site, whatever
  call failed or process stopped between two calls. Calls whose effect comes
  after their request ended are the exception the properties name (`belated`).

- `migrate_replicas`: replicas that start together do not collide, one begins to
  serve only when the schema is exactly its own, what it was built for stays in
  place while it serves, and every start comes to an end, though any holder of
  the lock can stop. What the run does *not* show is that a refused release
  leaves no trace: one from another branch applies its own missing files before
  it finds the records it has no file for, and from then on the releases that
  served before refuse to start again. The code promises no more.

- `remote_faults`: `NobodyIsSignedOutByAFailure` (whoever presents a session
  that lives is signed in or told that sign-in is unavailable);
  `NothingWithoutPermission` (no guarded write is even sent, and no draft shown,
  unless the authorization service said yes to this request);
  `AnswersAreTrue` (a page that reports success has stored all its writes, but
  for those whose success something else told it of, one that turned a form away
  has stored nothing and has nothing on its way); `CallsKeepTheirContract`, that
  every call implements `Exchange`: it is told once, in the words of the single
  binary, or of a failure, or, if it wants no response, of a success that another
  page under status 200 made up; and `EveryPageIsAnswered`. What the run does
  *not* show is that a page answered 500 has done nothing: a write whose answer
  was lost is stored.
- `serve_lives`: `CleanExit` (exit code 0 means that the process was asked to
  stop and that every request it had accepted was answered over open pools);
  `NoClosedPoolInGoodOrder` (a handler meets a closed pool only in a process
  that exits with an error: past its deadline, or with a failed listener, where
  `Run` returns at once and the pools close under the handlers that still run);
  `SignalEnds`, also for a start that waits and with a handler that never
  returns; `ProbesAreAnswered` whatever the database does; and
  `PagesAreAnswered`, that handlers, probes and the sweeper, which share one
  connection of SQLite, never wait for each other in a circle.

### Disagreements with what the repository says

| Run | Quoted claim | What happens |
|---|---|---|
| `auth_chosen` | `auth/ui/password.go:17`, "Your password has been changed." | a profile edit under way writes the old hash back |
| `site_lockout` | `web/admin_users.go:117-118`, 224-225 | two administrators remove each other at the same time |

Two more follow from what the passing runs go through and have no run of their
own. `auth/service.go:400-401` says that the recount of first-run setup "leaves
exactly one winner": when two inserts precede both counts, both are rolled back
and nobody wins (`Recount` and `Rollback` in `Setup`; `Seat` promises one at the
most). `content/content.go:37-38` says that "a post leaves the archive as a
draft": an edit that read the published post and is written after it was
archived publishes it again, since a write sets every column of the row it read
(`Write` in `Content`; `CurrentWriteFollowsLifecycle` excepts such stale copies).
The same write lets two concurrent publications replace each other's date. With
two requests `NoOrphans` does not
hold either: a grant stored between the purge and the deletion of its post, or
a role between those of its account, stays.

One weakness contradicts no sentence of the repository and shows in
`remote_faults`: `Client.Call` takes any 200 for success when its caller wants no
response (`pkg/httpx/client.go:127-129`), whatever its content type, and after
any redirect. A proxy's default page in place of the authorization service thus
ends `createPost` with a redirect though no grant is stored, and in place of both
services `deletePost` with nothing deleted. That is why `AnswersAreTrue` and
`Exchange` make an exception of `mistaken` calls; TLC finds the first of the two
behaviours when the exception is taken out. `Setup` and `Site` leave this response
out: there an assignment, a purge or a deletion that reports success is stored.

### Bounds

Identifiers are drawn at most once, as UUIDv7s are, so a small set of them also
bounds the length of a run. Two requests are enough for every race between a
read and a write of one row; setup has three because its recount compares a
count, which two and three rivals can reach differently. Names are chosen so
that a registration competes for a setup's name and two setups for one name. Other bounds:

- `HookAttempts` = 2, the value of the split topology;
- `RegistrationOpen` = TRUE in `setup_race`: it allows every write a closed
  registration allows, and more of them;
- `MaxTime` bounds the clock. In `Auth` a session is only created while the
  clock can still reach its end (`CreateSession`), or `EverySessionEnds` would
  speak of the bound; session lifetimes are two ticks and a touch is due after
  one;
- `MaxLate` = 1 call given up on and still under way at the same time;
- `Roles` = administrator and author; the third seeded role differs from
  having none in nothing that is modelled;
- `Remote` has one request: pages of different requests share nothing but the
  sessions, which end at any time anyway, and the theorems are for any number;
- `MaxUnits` = 2 statements of a page and `MaxOpenConns` = 2: two requests and
  the sweeper compete for one connection and for two.

`Migrate` is finite as it is. Its three releases are a trunk, a branch with
another second migration, and one with an edited first file: they differ in
every way the loop tells apart. Three replicas let one wait while a second
holds the lock and a third serves.

Symmetry is used in runs without liveness only, over sets no definition
distinguishes the members of.

`CHECK_DEADLOCK FALSE` stands where the instance really stops: in `Setup` every
submission ends, in `Content` identifiers and the clock run out, and in `Site`
two administrators, or a deletion that lands late, can leave no account to act.

### Fairness

- `Setup`: a handler that has begun goes on: each statement returns or fails
  within the timeout the HTTP server and the database driver give it. A
  submission need not be made. `StatementFails` counts as going on, so
  fairness never promises success.
- `Auth`: the sweeper's ticker fires as long as the process lives, and time
  passes. Nothing is assumed about requests.

- `Migrate`: statements return or fail; the server drops the session of a
  process that is gone (weak fairness of `DropSession`); and `pg_advisory_lock`
  grants in the order of the requests, so a replica that waits while the lock is
  free again and again gets it (strong fairness of `Lock`). Starting, stopping
  and a failing `Lock` are never required.

- `Remote`: each call settles, because the client has a timeout
  (`pkg/httpx/client.go:61-64`); the service need not answer, nor run.
- `Serve`: the goroutines of the process run; a statement ends unless the database
  wedges; a connection that is given back goes to one who waits
  (`database/sql` picks a waiter at random: strong fairness of `Take` holds with
  probability one); the
  timers of the shutdown and of the probe fire; a start that is signalled ends,
  since everything it waits for takes the cancelled context. Signals, requests,
  sweeps and a page's end on a wedged database are never required.

## Proofs

`SetupProofs` proves, for any finite set of submissions and registrations, any
assignment of names, any number of hook attempts and every fault:
`TypeCorrect`, `OneAdministrator`, `WinnerIsAdministrator`,
`RefusedLeavesNothing`, and `Implementation` (setup implements `Seat`).
Assumption: `SetupAssumption` of `Setup` (finitely many requests, the two kinds
disjoint, at least one hook attempt).

None of these is inductive alone. The invariant `IInv` adds, for every place a
setup request can stand at, whether its account exists, whether it passed the
recount and whether it holds the role (`Progress`), that roles stored or under
way belong to requests that passed the recount, and `OneSeated`: the accounts
that passed the recount and exist are one at the most. The crux is
`CountedAlone`: a request that counts one account counts its own, since its
account is there from the insert to the rollback. `Recount` is then a `Take` of
the empty seat, `Rollback` a `Vacate` or a stutter, and every other step leaves
the seat alone (`SeatStep`). That a late assignment does no harm follows from
its account having passed the recount, and from accounts never coming back.

`ContentProofs` proves, for any sets of posts, authors, bodies and requests:
`TypeCorrect`, `PublishedIsDated`, `NoResurrection`, `CurrentWritesAreSound`,
and `Implementation` for one request. Its invariant says what every pending
copy obeys relative to the row it was made from (`Pending`), which is what makes
`PublishedHasDate` survive a write over a row that has changed since.
`Implementation` adds that the row a sole request has read does not change
under it, but for a deletion (`CurrentPreserved`).

`AuthProofs` proves, for any accounts, sessions, requests, lifetimes and
algorithms: `TypeCorrect`, `SessionsHaveAccounts`, `OldSessionsStayGone` and
`DeletedStaysDeleted`. Assumption: `AuthAssumption`. The invariant adds what a
request knows: that its input fits its operation and that it holds a row when it
is about to store one (`Sound`), and that the sessions a password change saw,
so far as they exist, still belong to its account and do not include its own
(`Remembers`). The deletion that ends the change therefore takes them all, and
since a session identifier is drawn once, none comes back. Most statements
create nothing and delete no account; one lemma (`QuietInv`) serves them all, and
`RegisterInv`, `CreateSessionInv` and `DeleteUserInv` are the exceptions.

For one request at a time (`Requests = {q}`) it also proves `ChosenStays`. With
two the property is false, since an edit stores the whole row it has read: see
the run `auth_chosen`. `ChosenInv` adds what the request is about to
store (`Intends`): a rehash the password it verified, a profile edit the one it
read, a password change the one that is chosen by the same statement.

`SiteProofs` proves, for any accounts, posts, requests and roles in use, and
under every fault: `TypeCorrect`, `OwnersTouch`, and beneath it
`GrantsAreAuthors`, that a grant over a post is always its author's. Assumptions:
`SiteAssumption` (accounts and posts are different identifiers, none is the
wildcard, the administrator role is in use) and `RolesAssumption`. The invariant
says that every call that is pending, in a plan or late, may take effect whenever
it likes: a change of a post is asked for by its owner or a former administrator,
a grant goes to the author (`Settled`). The one exception is the creation of a
post, whose grant follows it: the post is drawn and has no other author
(`Fresh`), and nobody else is creating it (`OneCreator`). `CanMeansOwns` is where
the matching of `Authz` comes in: the author role only creates, so that a yes
over an existing post stems from a grant or from the administrator role.

`SiteRestProofs` proves what `Site` promises at rest, each theorem under the
hypothesis its run has, and no other bound. Assumptions: those of `SiteProofs`
and `NoneIsNoRequest`.

- `AdministratorStays`, for one request at a time and every fault. Its invariant
  (`AdminInv`) says that the visitor of the request has an account, and that the
  calls left spare the account and the role of a visitor who is an administrator,
  or are calls about posts only (`InCharge`). That whoever may assign roles or
  delete accounts *is* an administrator is `CanMeansAdmin`; that the plans they
  begin spare them is `RolePlanSpares` and `DeleteUserPlanSpares`, the two checks
  of `admin_users.go`. With two requests it is false: the run `site_lockout`.
- `NothingOrphaned`, for one request at a time and every fault, late calls
  included. The tables are clean at every step (`Clean`), and the next call of a
  request is one that leaves them so whenever it takes effect (`Ready`): the first
  call of each plan makes the second one ready. A late call is about posts and
  accounts in `belated`, which the property excepts (`LateIsOnward`).
- `AuthorsOwn`, for any number of racing requests whose calls succeed
  (`Faults = FALSE`). A post is always in the hands of its author, or some request
  has exactly one call left that gives it to the author or deletes either
  (`InHands`, `Finishes`): whoever takes grants away goes on to delete what they
  are over, or whose they are (`FirstOfTwo`). With faults it is false by design: a
  deletion that stops half way leaves a post only an administrator can delete.

`MigrateProofs` proves, for any replicas and any releases: `TypeCorrect`,
`ReplicasDoNotCollide`, `SchemaStays` and `StartsRight`. Assumption:
`MigrateAssumption` (versions are naturals, the two marks of the lock are no
replicas). The invariant rests on `LockDiscipline`, that a replica holds the lock
exactly from the read to the unlock, and on `Scanning`, that while it does the
table consists of the records read and not yet recognised and of its own files
looked at so far. At the end of the loop an empty copy therefore means that the
table *is* its release (`Finished`), and the lock keeps that true until `Up`
returns; a stopped replica gives up the lock only together with its copy.

`RemoteProofs` proves, for any requests and tokens: `TypeCorrect`,
`NobodySignedOut`, `PermissionFirst`, `ContractKept` and `AnswersTrue`, and
beneath them `SameAnswerOfAuth`, `SameAnswerOfAuthz` and `SameAnswerOfContent`: whatever a
service returns, the way over its API, the client and `web/remote` ends in the
very answer the single binary's adapter gives, `SetupOpen` with its untranslated
error included. Assumption: `NoneIsNoValue`. The invariant says that a page goes
through its calls in one order, so that each is made, decided and told at most
once (`OnceEach`); that a response under way, and what a page was told, is the
verdict of its call or a failure, or is owed to another page under status 200,
which happens to calls in `Blind` only (`Truthful`); and that a page past its guard was
told yes (`Permitted`) and one past its session was recognised (`Recognised`).
The crux is that `DecodeError` makes a code of a response only when the status,
the content type and the envelope all say so, which nothing in `Foreign` does,
and that no page of something else decodes as a response (`OtherPageIs`).
`AnswersTrue` needs the other direction, from what a page was told to what is
stored: a call that was told a value was applied or is one of the mistaken calls
in `Blind`, and one that was refused was not,
nor is it under way (`Decided`), and the answer a page ends with fits what its
calls were told (`OnCourse`); the tables of the pages (`StepsOf`, `Gained`,
`Refusals`) are checked step by step for each kind of page.

`ServeProofs` proves, for any number of requests, connections and statements:
`TypeCorrect`, `ExitCodeIsTrue` and `GoodOrder`. Assumptions:
`PoolsHoldConnections`, `NoneIsNoValue`, `SweeperIsNoRequest`. The invariant says
that every pool a process has opened stays open until `Run` has returned
(`PoolsAreOpen`), that a probe never asks for a pool it does not have
(`WorkIsLeft`), and what the stage says of the result and the requests
(`ResultIsTrue`). From the first two, whatever a handler asks for while the
process serves is open (`AskedIsOpen`).

Model-checked only: liveness (`EveryRequestAnswered`, `EverySessionEnds`,
`EveryStartEnds`, `EveryPageIsAnswered`, `SignalEnds`, `ProbesAreAnswered`,
`PagesAreAnswered`), which is beyond this prover. Every invariant and every
action property of the passing runs is a theorem; four of them, `ChosenStays`,
`AdministratorStays`, `NothingOrphaned` and `AuthorsOwn`, and `Implementation` of
`ContentProofs`, under the hypothesis that the code needs too: one request at a
time, or calls that succeed. The runs check them on instances that meet it.

## Plan

Done: `Setup`, `Content`, `Auth`, `Authz` with `Site`, `Migrate`, `Wire` with
`Remote`, `Serve`; proofs of every one of them. Next, in this order:

1. A composition of `Setup` and `Site`: two administrators who delete each
   other open first-run setup again. Until then `site_lockout` shows that no
   administrator may remain.
2. `Ref`: references and redirect targets as pure operators against a reference
   definition.

Not modelled: rendering and templates, which lay out; configuration, connection
strings and request identifiers, which are read once; bcrypt itself; the pages
that only list; and the Postgres backends beside the SQLite ones, whose
statements they repeat and whose repository tests they share.

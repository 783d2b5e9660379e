------------------------------- MODULE Migrate ------------------------------
(***************************************************************************)
(* Schema migrations: Runner.Up of pkg/sqlmigrate over the Postgres        *)
(* dialect, run by replicas of one service that start together, stop at    *)
(* any moment and start again with another release.  One database, one     *)
(* bookkeeping table, one advisory lock.                                   *)
(*                                                                         *)
(* A release is the migration files built into a binary: a function from   *)
(* versions to contents, a content standing for its checksum.  A file and  *)
(* its record are committed in one transaction, so the table is also the   *)
(* history of the schema.  CREATE TABLE IF NOT EXISTS goes with the read   *)
(* of the table; a directory load refuses ends Up before the lock and is   *)
(* left out.                                                               *)
(***************************************************************************)
EXTENDS Naturals

CONSTANTS
  Replicas,
  Releases,
  Files,     \* the migrations of each release
  Nobody,    \* nobody holds the lock
  Lingering  \* the session of a stopped process holds it, until it is dropped

Versions == UNION {DOMAIN Files[x] : x \in Releases}

Contents == UNION {{Files[x][v] : v \in DOMAIN Files[x]} : x \in Releases}

Ledger == UNION {[S -> Contents] : S \in SUBSET Versions}

ASSUME MigrateAssumption ==
  /\ Files \in [Releases -> Ledger]
  /\ Versions \subseteq Nat
  /\ Nobody # Lingering
  /\ {Nobody, Lingering} \cap Replicas = {}

VARIABLES
  records,    \* the bookkeeping table, and so the schema
  holder,     \* whose session holds the advisory lock
  pc,         \* where Up stands in each replica
  release,    \* the release each replica was last started with
  byVersion,  \* Up: the records read, less those recognised
  left,       \* Up: the versions still to be looked at
  result      \* Up: its error, if any

vars == <<records, holder, pc, release, byVersion, left, result>>

locals == <<release, byVersion, left, result>>

Steps == {"down", "lock", "read", "scan", "unlock", "serving", "refused"}

Results == {"ok", "failed", "mismatch", "missing", "conflict"}

Empty == [v \in {} |-> Nobody]

TypeOK ==
  /\ records \in Ledger
  /\ holder \in Replicas \cup {Nobody, Lingering}
  /\ pc \in [Replicas -> Steps]
  /\ release \in [Replicas -> Releases]
  /\ byVersion \in [Replicas -> Ledger]
  /\ left \in [Replicas -> SUBSET Versions]
  /\ result \in [Replicas -> Results]

Init ==
  /\ records = Empty
  /\ holder = Nobody
  /\ pc = [r \in Replicas |-> "down"]
  /\ release \in [Replicas -> Releases]
  /\ byVersion = [r \in Replicas |-> Empty]
  /\ left = [r \in Replicas |-> {}]
  /\ result = [r \in Replicas |-> "ok"]

-----------------------------------------------------------------------------
Goto(r, step) == pc' = [pc EXCEPT ![r] = step]

Own(r) == Files[release[r]]

Put(f, v, c) == [w \in DOMAIN f \cup {v} |-> IF w = v THEN c ELSE f[w]]

Drop(f, v) == [w \in DOMAIN f \ {v} |-> f[w]]

Forget(r) ==
  /\ byVersion' = [byVersion EXCEPT ![r] = Empty]
  /\ left' = [left EXCEPT ![r] = {}]

\* Up returns, through the deferred Unlock.
Return(r, res) ==
  /\ Goto(r, "unlock")
  /\ result' = [result EXCEPT ![r] = res]
  /\ Forget(r)

\* A process starts, with the release it was deployed as, and opens its stores.
Start(r, x) ==
  /\ pc[r] \in {"down", "refused"}
  /\ Goto(r, "lock")
  /\ release' = [release EXCEPT ![r] = x]
  /\ result' = [result EXCEPT ![r] = "ok"]
  /\ UNCHANGED <<records, holder, byVersion, left>>

\* pg_advisory_lock waits for the session that holds the lock.
LockAtOnce(r) == TRUE
LockFree(r) == holder = Nobody

Lock(r) ==
  /\ pc[r] = "lock"
  /\ LockFree(r)
  /\ holder' = r
  /\ Goto(r, "read")
  /\ UNCHANGED <<records, locals>>

\* No connection, or the statement fails: Up returns before its deferred Unlock.
\* Granted without an answer, the lock stays with a session that is lost.
LockFails(r) ==
  /\ pc[r] = "lock"
  /\ \/ UNCHANGED holder
     \/ LockFree(r) /\ holder' = Lingering
  /\ Goto(r, "refused")
  /\ result' = [result EXCEPT ![r] = "failed"]
  /\ UNCHANGED <<records, release, byVersion, left>>

ReadApplied(r) ==
  /\ pc[r] = "read"
  /\ byVersion' = [byVersion EXCEPT ![r] = records]
  /\ left' = [left EXCEPT ![r] = DOMAIN Own(r)]
  /\ Goto(r, "scan")
  /\ UNCHANGED <<records, holder, release, result>>

\* The loop takes the files in version order.
Turn(r, v) == pc[r] = "scan" /\ v \in left[r] /\ \A w \in left[r] : v <= w

Trusted(r, v) == TRUE
Unchanged(r, v) == byVersion[r][v] = Own(r)[v]

Recognise(r, v) ==
  /\ Turn(r, v)
  /\ v \in DOMAIN byVersion[r] /\ Unchanged(r, v)
  /\ byVersion' = [byVersion EXCEPT ![r] = Drop(@, v)]
  /\ left' = [left EXCEPT ![r] = @ \ {v}]
  /\ UNCHANGED <<records, holder, pc, release, result>>

RefuseEdited(r, v) ==
  /\ Turn(r, v)
  /\ v \in DOMAIN byVersion[r] /\ ~Unchanged(r, v)
  /\ Return(r, "mismatch")
  /\ UNCHANGED <<records, holder, release>>

\* The transaction of one file: its statements and its record, or neither.
RecordNext(r, v) == records' = Put(records, v + 1, Own(r)[v])
Record(r, v) == records' = Put(records, v, Own(r)[v])

Apply(r, v) ==
  /\ Turn(r, v)
  /\ v \notin DOMAIN byVersion[r]
  /\ \/ /\ v \notin DOMAIN records
        /\ Record(r, v)
        /\ left' = [left EXCEPT ![r] = @ \ {v}]
        /\ UNCHANGED <<pc, byVersion, result>>
     \/ /\ v \in DOMAIN records
        /\ Return(r, "conflict")
        /\ UNCHANGED records
  /\ UNCHANGED <<holder, release>>

\* Records without a file mean that the schema is newer than the binary.
Accepted(r) == TRUE
NothingMissing(r) == byVersion[r] = Empty

FinishScan(r) ==
  /\ pc[r] = "scan" /\ left[r] = {}
  /\ Return(r, IF NothingMissing(r) THEN "ok" ELSE "missing")
  /\ UNCHANGED <<records, holder, release>>

\* A statement fails; one that did may have been committed all the same.
StatementFails(r) ==
  /\ pc[r] \in {"read", "scan"}
  /\ \/ UNCHANGED records
     \/ \E v \in left[r] \ (DOMAIN byVersion[r] \cup DOMAIN records) :
          Turn(r, v) /\ Record(r, v)
  /\ Return(r, "failed")
  /\ UNCHANGED <<holder, release>>

\* Unlock's own error is dropped; it fails when the session is lost already.
KeepLock(r) == UNCHANGED holder
ReleaseLock(r) == holder' \in {Nobody, Lingering}

Unlock(r) ==
  /\ pc[r] = "unlock"
  /\ ReleaseLock(r)
  /\ Goto(r, IF result[r] = "ok" THEN "serving" ELSE "refused")
  /\ UNCHANGED <<records, locals>>

\* The process is killed, or its start is cancelled: then every later statement
\* fails, Unlock too, and the lock goes back to the pool with its connection
\* until the process exits.  A transaction under way may still be committed
\* before the server drops the session.
Stop(r) ==
  /\ pc[r] \notin {"down", "refused"}
  /\ \/ UNCHANGED records
     \/ \E v \in left[r] \ (DOMAIN byVersion[r] \cup DOMAIN records) :
          Turn(r, v) /\ Record(r, v)
  /\ holder' = IF holder = r THEN Lingering ELSE holder
  /\ Goto(r, "down")
  /\ result' = [result EXCEPT ![r] = "ok"]
  /\ Forget(r)
  /\ UNCHANGED release

DropSession ==
  /\ holder = Lingering
  /\ holder' = Nobody
  /\ UNCHANGED <<records, pc, locals>>

-----------------------------------------------------------------------------
UpStep(r) ==
  \/ ReadApplied(r)
  \/ \E v \in Versions : Recognise(r, v) \/ RefuseEdited(r, v) \/ Apply(r, v)
  \/ FinishScan(r) \/ StatementFails(r) \/ Unlock(r)

Next ==
  \/ \E r \in Replicas, x \in Releases : Start(r, x)
  \/ \E r \in Replicas : Lock(r) \/ LockFails(r) \/ UpStep(r) \/ Stop(r)
  \/ DropSession

Spec == Init /\ [][Next]_vars

\* Statements return or fail, the server drops the session of a process that is
\* gone, and the lock is granted in the order it was asked for.
Fairness ==
  /\ \A r \in Replicas : WF_vars(UpStep(r)) /\ SF_vars(Lock(r))
  /\ WF_vars(DropSession)

FairSpec == Spec /\ Fairness

-----------------------------------------------------------------------------
(* Properties.                                                             *)

\* Replicas that start together do not collide: the one that comes second waits
\* and then finds the records of the first (dialect.go:58-60,
\* postgres_test.go:97-98).
NoCollision == \A r \in Replicas : result[r] # "conflict"

\* A replica begins to serve on exactly the schema its binary was built for,
\* and not on a newer or an edited one, whoever migrated it
\* (sqlmigrate.go:125-144).
StartsOnItsSchema ==
  [][\A r \in Replicas :
       pc[r] # "serving" /\ pc'[r] = "serving" => records' = Own(r)]_vars

\* What a serving replica was built for stays in place under it, while others
\* stop in the middle of a migration, fail, or bring a newer schema.
ServedSchemaStays ==
  \A r \in Replicas : pc[r] = "serving" =>
    \A v \in DOMAIN Own(r) : v \in DOMAIN records /\ records[v] = Own(r)[v]

\* No start waits for ever, whoever stops with the lock in its hands
\* (dialect.go:19-21).
EveryStartEnds ==
  \A r \in Replicas : pc[r] = "lock" ~> pc[r] \in {"serving", "refused", "down"}
=============================================================================

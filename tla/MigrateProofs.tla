---------------------------- MODULE MigrateProofs ---------------------------
(***************************************************************************)
(* What module Migrate promises, for any number of replicas, any releases  *)
(* and any mix of stops, failures and restarts.                            *)
(*                                                                         *)
(* The lock is held from the read of the table to the end of Up.  While it *)
(* is, the records are those that were read and not yet recognised, plus   *)
(* one for each file of the release already looked at: that is Scanning,   *)
(* and it makes the stale copy the loop works on as good as the table.     *)
(***************************************************************************)
EXTENDS Migrate, TLAPS

LockDiscipline ==
  \A r \in Replicas : holder = r <=> pc[r] \in {"read", "scan", "unlock"}

\* The table, as the copy and the loop's position describe it.
Scanning(r) ==
  pc[r] = "scan" =>
    /\ left[r] \subseteq DOMAIN Own(r)
    /\ \A v \in DOMAIN records : v \in DOMAIN byVersion[r] \cup (DOMAIN Own(r) \ left[r])
    /\ \A v \in DOMAIN byVersion[r] :
         /\ v \in DOMAIN records /\ byVersion[r][v] = records[v]
         /\ v \in DOMAIN Own(r) => v \in left[r]
    /\ \A v \in DOMAIN Own(r) \ left[r] :
         v \in DOMAIN records /\ records[v] = Own(r)[v]

\* Outside the loop nothing is left of it.
Elsewhere(r) == pc[r] # "scan" => left[r] = {}

Finished(r) == pc[r] = "unlock" /\ result[r] = "ok" => records = Own(r)

\* Up has an error only while it returns it.
Errors(r) == pc[r] \notin {"unlock", "refused"} => result[r] = "ok"

IInv ==
  /\ TypeOK
  /\ LockDiscipline
  /\ \A r \in Replicas : Scanning(r) /\ Elsewhere(r) /\ Finished(r) /\ Errors(r)
  /\ NoCollision
  /\ ServedSchemaStays

-----------------------------------------------------------------------------
\* The files of a release are a ledger of their own.
LEMMA OwnLedger ==
  ASSUME TypeOK, NEW r \in Replicas
  PROVE  Own(r) \in Ledger /\ DOMAIN Own(r) \subseteq Versions
BY MigrateAssumption DEF TypeOK, Own, Versions, Ledger

\* Recording a file of the release keeps the table a ledger.
LEMMA PutLedger ==
  ASSUME NEW f \in Ledger, NEW v \in Versions, NEW c \in Contents
  PROVE  Put(f, v, c) \in Ledger
<1>1. PICK S \in SUBSET Versions : f \in [S -> Contents]
  BY DEF Ledger
<1>2. Put(f, v, c) \in [S \cup {v} -> Contents]
  BY <1>1 DEF Put
<1>3. S \cup {v} \in SUBSET Versions
  OBVIOUS
<1>4. QED
  BY <1>2, <1>3 DEF Ledger

\* Forgetting a record keeps the copy a ledger.
LEMMA DropLedger ==
  ASSUME NEW f \in Ledger, NEW v
  PROVE  Drop(f, v) \in Ledger
<1>1. PICK S \in SUBSET Versions : f \in [S -> Contents]
  BY DEF Ledger
<1>2. Drop(f, v) \in [S \ {v} -> Contents]
  BY <1>1 DEF Drop
<1>3. S \ {v} \in SUBSET Versions
  OBVIOUS
<1>4. QED
  BY <1>2, <1>3 DEF Ledger

\* The empty function is a ledger.
LEMMA EmptyLedger == Empty \in Ledger
<1>1. Empty \in [{} -> Contents]
  BY DEF Empty
<1>2. QED
  BY <1>1 DEF Ledger

\* Two ledgers with the same domain and the same contents are the same.
LEMMA LedgerExtensionality ==
  ASSUME NEW f \in Ledger, NEW g \in Ledger, DOMAIN f = DOMAIN g,
         \A v \in DOMAIN f : f[v] = g[v]
  PROVE  f = g
<1>1. PICK S \in SUBSET Versions : f \in [S -> Contents]
  BY DEF Ledger
<1>2. PICK T \in SUBSET Versions : g \in [T -> Contents]
  BY DEF Ledger
<1>3. S = DOMAIN f /\ T = DOMAIN f
  BY <1>1, <1>2
<1>4. f = [v \in DOMAIN f |-> f[v]] /\ g = [v \in DOMAIN f |-> g[v]]
  BY <1>1, <1>2, <1>3
<1>5. [v \in DOMAIN f |-> f[v]] = [v \in DOMAIN f |-> g[v]]
  OBVIOUS
<1>6. QED
  BY <1>4, <1>5

\* The invariant holds before the first start.
LEMMA Initially == Init => IInv
BY MigrateAssumption, EmptyLedger
DEF Init, IInv, TypeOK, LockDiscipline, Scanning, Elsewhere, Finished, Errors,
    NoCollision, ServedSchemaStays, Steps, Results

\* What the transaction of one file does to the table.
LEMMA RecordEffect ==
  ASSUME TypeOK, NEW r \in Replicas, NEW v \in DOMAIN Own(r),
         v \notin DOMAIN records, Record(r, v)
  PROVE  /\ records' \in Ledger
         /\ DOMAIN records' = DOMAIN records \cup {v}
         /\ records'[v] = Own(r)[v]
         /\ \A w \in DOMAIN records : records'[w] = records[w]
<1>1. v \in Versions /\ Own(r)[v] \in Contents
  BY MigrateAssumption DEF TypeOK, Own, Versions, Contents
<1>2. records' \in Ledger
  BY <1>1, PutLedger DEF Record, TypeOK
<1>3. QED
  BY <1>2 DEF Record, Put

\* The table only grows, and only by a step of the replica that holds the lock.
LEMMA TableGrows ==
  ASSUME IInv, NEW r \in Replicas, Lock(r) \/ LockFails(r) \/ UpStep(r) \/ Stop(r)
  PROVE  /\ records' \in Ledger
         /\ DOMAIN records \subseteq DOMAIN records'
         /\ \A v \in DOMAIN records : records'[v] = records[v]
         /\ pc[r] # "scan" => records' = records
<1> DEFINE Grown ==
  /\ records' \in Ledger
  /\ DOMAIN records \subseteq DOMAIN records'
  /\ \A v \in DOMAIN records : records'[v] = records[v]
<1>1. ASSUME NEW v \in left[r], Turn(r, v), v \notin DOMAIN records, Record(r, v)
      PROVE  Grown /\ pc[r] = "scan"
  <2>1. pc[r] = "scan" /\ v \in DOMAIN Own(r)
    BY <1>1 DEF IInv, Scanning, Turn
  <2>2. TypeOK
    BY DEF IInv
  <2>3. QED
    BY <1>1, <2>1, <2>2, RecordEffect
<1>2. CASE UNCHANGED records
  BY <1>2 DEF IInv, TypeOK
<1>3. CASE StatementFails(r) \/ Stop(r)
  BY <1>1, <1>2, <1>3 DEF StatementFails, Stop
<1>4. ASSUME NEW v \in Versions, Apply(r, v)
      PROVE  Grown /\ (pc[r] # "scan" => records' = records)
  BY <1>1, <1>2, <1>4 DEF Apply, Turn
<1>5. QED
  BY <1>2, <1>3, <1>4 DEF UpStep, Lock, LockFails, ReadApplied, Recognise, RefuseEdited,
     FinishScan, Unlock

-----------------------------------------------------------------------------
\* A step of one replica.
Step(r) ==
  \/ \E x \in Releases : Start(r, x)
  \/ Lock(r) \/ LockFails(r) \/ UpStep(r) \/ Stop(r)

\* No step takes a variable out of its type.
LEMMA TypePreserved ==
  ASSUME IInv, NEW r \in Replicas, Step(r)
  PROVE  TypeOK'
<1> USE EmptyLedger DEF IInv, TypeOK, Steps, Results, Goto, Forget, Return, locals
<1>1. ASSUME NEW x \in Releases, Start(r, x)
      PROVE  TypeOK'
  BY <1>1 DEF Start
<1>2. CASE Lock(r) \/ LockFails(r)
  BY <1>2 DEF Lock, LockFails
<1>3. CASE ReadApplied(r)
  BY <1>3, OwnLedger DEF ReadApplied
<1>4. ASSUME NEW v \in Versions, Recognise(r, v)
      PROVE  TypeOK'
  <2>1. Drop(byVersion[r], v) \in Ledger
    BY DropLedger
  <2>2. QED
    BY <1>4, <2>1 DEF Recognise
<1>5. ASSUME NEW v \in Versions, RefuseEdited(r, v)
      PROVE  TypeOK'
  BY <1>5 DEF RefuseEdited
<1>6. ASSUME NEW v \in Versions, Apply(r, v)
      PROVE  TypeOK'
  <2>1. UpStep(r)
    BY <1>6 DEF UpStep
  <2>2. records' \in Ledger
    BY <2>1, TableGrows
  <2>3. QED
    BY <1>6, <2>2 DEF Apply
<1>7. CASE FinishScan(r)
  BY <1>7 DEF FinishScan
<1>8. CASE StatementFails(r)
  <2>1. records' \in Ledger
    BY <1>8, TableGrows DEF UpStep
  <2>2. QED
    BY <1>8, <2>1 DEF StatementFails
<1>9. CASE Unlock(r)
  BY <1>9 DEF Unlock, ReleaseLock
<1>10. CASE Stop(r)
  <2>1. records' \in Ledger
    BY <1>10, TableGrows
  <2>2. QED
    BY <1>10, <2>1 DEF Stop
<1>11. QED
  BY <1>1, <1>2, <1>3, <1>4, <1>5, <1>6, <1>7, <1>8, <1>9, <1>10
  DEF Step, UpStep

\* A step of one replica leaves the variables of the others alone.
LEMMA OthersStay ==
  ASSUME IInv, NEW r \in Replicas, Step(r), NEW s \in Replicas \ {r}
  PROVE  /\ pc'[s] = pc[s] /\ release'[s] = release[s] /\ result'[s] = result[s]
         /\ byVersion'[s] = byVersion[s] /\ left'[s] = left[s]
<1> USE DEF IInv, TypeOK, Goto, Forget, Return, locals
<1>1. ASSUME NEW v \in Versions, Recognise(r, v) \/ RefuseEdited(r, v) \/ Apply(r, v)
      PROVE  /\ pc'[s] = pc[s] /\ release'[s] = release[s] /\ result'[s] = result[s]
             /\ byVersion'[s] = byVersion[s] /\ left'[s] = left[s]
  BY <1>1 DEF Recognise, RefuseEdited, Apply
<1>2. QED
  BY <1>1 DEF Step, UpStep, Start, Lock, LockFails, ReadApplied, FinishScan,
     StatementFails, Unlock, Stop

\* The lock is held from the read to the unlock, and by one replica.
LEMMA LockPreserved ==
  ASSUME IInv, NEW r \in Replicas, Step(r)
  PROVE  LockDiscipline'
<1> SUFFICES ASSUME NEW s \in Replicas
             PROVE  holder' = s <=> pc'[s] \in {"read", "scan", "unlock"}
  BY DEF LockDiscipline
<1> USE MigrateAssumption DEF IInv, TypeOK, LockDiscipline, Goto, Return, locals
<1>1. CASE s # r
  <2>1. pc'[s] = pc[s]
    BY <1>1, OthersStay
  <2>2. holder' = s <=> holder = s
    <3>1. ASSUME NEW v \in Versions,
                 Recognise(r, v) \/ RefuseEdited(r, v) \/ Apply(r, v)
          PROVE  holder' = holder
      BY <3>1 DEF Recognise, RefuseEdited, Apply
    <3>2. CASE Lock(r) \/ LockFails(r)
      BY <1>1, <3>2 DEF Lock, LockFails, LockFree
    <3>3. CASE Unlock(r)
      BY <1>1, <3>3 DEF Unlock, ReleaseLock
    <3>4. CASE Stop(r)
      BY <1>1, <3>4 DEF Stop
    <3>5. QED
      BY <3>1, <3>2, <3>3, <3>4 DEF Step, UpStep, Start, ReadApplied, FinishScan,
         StatementFails
  <2>3. QED
    BY <2>1, <2>2
<1>2. CASE s = r
  <2>1. ASSUME NEW v \in Versions,
               Recognise(r, v) \/ RefuseEdited(r, v) \/ Apply(r, v)
        PROVE  holder' = s <=> pc'[s] \in {"read", "scan", "unlock"}
    BY <1>2, <2>1 DEF Recognise, RefuseEdited, Apply, Turn
  <2>2. ASSUME NEW x \in Releases, Start(r, x)
        PROVE  holder' = s <=> pc'[s] \in {"read", "scan", "unlock"}
    BY <1>2, <2>2 DEF Start
  <2>3. CASE Lock(r) \/ LockFails(r) \/ ReadApplied(r) \/ FinishScan(r)
    BY <1>2, <2>3 DEF Lock, LockFails, LockFree, ReadApplied, FinishScan
  <2>4. CASE StatementFails(r) \/ Unlock(r) \/ Stop(r)
    BY <1>2, <2>4 DEF StatementFails, Unlock, ReleaseLock, Stop
  <2>5. QED
    BY <2>1, <2>2, <2>3, <2>4 DEF Step, UpStep
<1>3. QED
  BY <1>1, <1>2

\* Where a replica stands says what it knows of the table.
Local(r) == Scanning(r) /\ Elsewhere(r) /\ Finished(r) /\ Errors(r)

\* Nobody else's step spoils what a replica knows: while it is in the loop or
\* about to unlock, it holds the lock and the table does not change.
LEMMA LocalOfOthers ==
  ASSUME IInv, NEW r \in Replicas, Step(r), NEW s \in Replicas \ {r}
  PROVE  Local(s)'
<1>1. /\ pc'[s] = pc[s] /\ release'[s] = release[s] /\ result'[s] = result[s]
      /\ byVersion'[s] = byVersion[s] /\ left'[s] = left[s]
  BY OthersStay
<1>2. Own(s)' = Own(s)
  BY <1>1 DEF Own
<1>3. pc[s] \in {"scan", "unlock"} => records' = records
  <2>1. pc[s] \in {"scan", "unlock"} => pc[r] # "scan"
    BY MigrateAssumption DEF IInv, LockDiscipline
  <2>2. ASSUME NEW x \in Releases, Start(r, x)
        PROVE  records' = records
    BY <2>2 DEF Start
  <2>3. QED
    BY <2>1, <2>2, TableGrows DEF Step
<1>4. QED
  BY <1>1, <1>2, <1>3 DEF IInv, Local, Scanning, Elsewhere, Finished, Errors

\* An own step: reading makes the copy equal to the table, recognising and
\* applying move one file from the part to come to the part looked at, and the
\* end of the loop is the equality that Finished asks for.
LEMMA LocalOfOwn ==
  ASSUME IInv, NEW r \in Replicas, Step(r)
  PROVE  Local(r)'
<1> USE DEF IInv, TypeOK, Goto, Forget, Return, locals, Local, Elsewhere, Errors
<1>1. ASSUME NEW x \in Releases, Start(r, x)
      PROVE  Local(r)'
  BY <1>1 DEF Start, Scanning, Finished
<1>2. CASE Lock(r) \/ LockFails(r)
  BY <1>2 DEF Lock, LockFails, Scanning, Finished
<1>3. CASE ReadApplied(r)
  <2>1. /\ byVersion'[r] = records /\ records' = records
        /\ left'[r] = DOMAIN Own(r) /\ release' = release
        /\ pc'[r] = "scan" /\ result'[r] = result[r]
    BY <1>3 DEF ReadApplied
  <2>2. Own(r)' = Own(r)
    BY <2>1 DEF Own
  <2>3. Scanning(r)'
    BY <2>1, <2>2 DEF Scanning
  <2>4. QED
    BY <1>3, <2>1, <2>3 DEF ReadApplied, Finished
<1>4. ASSUME NEW v \in Versions, Recognise(r, v)
      PROVE  Local(r)'
  <2>1. /\ pc[r] = "scan" /\ pc' = pc /\ records' = records
        /\ release' = release /\ result' = result
        /\ byVersion'[r] = Drop(byVersion[r], v) /\ left'[r] = left[r] \ {v}
        /\ v \in left[r] /\ v \in DOMAIN byVersion[r]
        /\ byVersion[r][v] = Own(r)[v]
    BY <1>4 DEF Recognise, Turn, Unchanged
  <2>2. Own(r)' = Own(r)
    BY <2>1 DEF Own
  <2>3. /\ DOMAIN (byVersion'[r]) = DOMAIN byVersion[r] \ {v}
        /\ \A w \in DOMAIN byVersion[r] \ {v} : byVersion'[r][w] = byVersion[r][w]
    BY <2>1 DEF Drop
  <2>4. Scanning(r)'
    BY <2>1, <2>2, <2>3 DEF Scanning
  <2>5. QED
    BY <2>1, <2>4 DEF Finished
<1>5. ASSUME NEW v \in Versions, RefuseEdited(r, v)
      PROVE  Local(r)'
  BY <1>5 DEF RefuseEdited, Scanning, Finished
<1>6. ASSUME NEW v \in Versions, Apply(r, v)
      PROVE  Local(r)'
  <2>1. /\ pc[r] = "scan" /\ v \in left[r] /\ v \in DOMAIN Own(r)
        /\ v \notin DOMAIN records
    BY <1>6 DEF Apply, Turn, Scanning
  <2>2. /\ Record(r, v) /\ pc' = pc /\ release' = release /\ result' = result
        /\ byVersion' = byVersion /\ left'[r] = left[r] \ {v}
    BY <1>6, <2>1 DEF Apply
  <2>3. /\ DOMAIN records' = DOMAIN records \cup {v}
        /\ records'[v] = Own(r)[v]
        /\ \A w \in DOMAIN records : records'[w] = records[w]
    BY <2>1, <2>2, RecordEffect
  <2>4. Own(r)' = Own(r)
    BY <2>2 DEF Own
  <2>5. Scanning(r)'
    BY <2>1, <2>2, <2>3, <2>4 DEF Scanning
  <2>6. QED
    BY <2>1, <2>2, <2>5 DEF Finished
<1>7. CASE FinishScan(r)
  <2>1. /\ pc[r] = "scan" /\ left[r] = {} /\ pc'[r] = "unlock" /\ left'[r] = {}
        /\ records' = records /\ release' = release
        /\ result'[r] = IF NothingMissing(r) THEN "ok" ELSE "missing"
    BY <1>7 DEF FinishScan
  <2>2. byVersion[r] = Empty => records = Own(r)
    <3>1. SUFFICES ASSUME byVersion[r] = Empty
                   PROVE  records = Own(r)
      OBVIOUS
    <3>2. DOMAIN byVersion[r] = {}
      BY <3>1 DEF Empty
    <3>3. DOMAIN records = DOMAIN Own(r) /\ \A v \in DOMAIN records : records[v] = Own(r)[v]
      BY <2>1, <3>2 DEF Scanning
    <3>4. QED
      BY <3>3, OwnLedger, LedgerExtensionality
  <2>3. Finished(r)'
    BY <2>1, <2>2 DEF Finished, NothingMissing, Own
  <2>4. QED
    BY <2>1, <2>3 DEF Scanning
<1>8. CASE StatementFails(r)
  BY <1>8 DEF StatementFails, Scanning, Finished
<1>9. CASE Unlock(r)
  BY <1>9 DEF Unlock, Scanning, Finished
<1>10. CASE Stop(r)
  BY <1>10 DEF Stop, Scanning, Finished
<1>11. QED
  BY <1>1, <1>2, <1>3, <1>4, <1>5, <1>6, <1>7, <1>8, <1>9, <1>10
  DEF Step, UpStep

\* No transaction meets a record its replica did not read.
LEMMA CollisionPreserved ==
  ASSUME IInv, NEW r \in Replicas, Step(r)
  PROVE  NoCollision'
<1> USE DEF IInv, TypeOK, NoCollision, Goto, Forget, Return, locals
<1>1. ASSUME NEW v \in Versions, Apply(r, v)
      PROVE  NoCollision'
  <2>1. v \notin DOMAIN records
    BY <1>1 DEF Apply, Turn, Scanning
  <2>2. QED
    BY <1>1, <2>1 DEF Apply
<1>2. ASSUME NEW v \in Versions, Recognise(r, v) \/ RefuseEdited(r, v)
      PROVE  NoCollision'
  BY <1>2 DEF Recognise, RefuseEdited
<1>3. QED
  BY <1>1, <1>2 DEF Step, UpStep, Start, Lock, LockFails, ReadApplied, FinishScan,
     StatementFails, Unlock, Stop

\* The table under a serving replica only grows, and a replica that begins to
\* serve has found it complete.
LEMMA ServedPreserved ==
  ASSUME IInv, NEW r \in Replicas, Step(r)
  PROVE  ServedSchemaStays'
<1> SUFFICES ASSUME NEW s \in Replicas, pc'[s] = "serving"
             PROVE  \A v \in DOMAIN Own(s)' :
                      v \in DOMAIN records' /\ records'[v] = Own(s)'[v]
  BY DEF ServedSchemaStays
<1> USE DEF IInv, TypeOK, Goto, Forget, Return, locals
<1>1. DOMAIN records \subseteq DOMAIN records' /\ \A v \in DOMAIN records : records'[v] = records[v]
  <2>1. ASSUME NEW x \in Releases, Start(r, x)
        PROVE  records' = records
    BY <2>1 DEF Start
  <2>2. QED
    BY <2>1, TableGrows DEF Step
<1>2. CASE pc[s] = "serving" /\ release'[s] = release[s]
  BY <1>1, <1>2 DEF ServedSchemaStays, Own
<1>3. CASE pc[s] # "serving" \/ release'[s] # release[s]
  <2>1. s = r
    BY <1>3, OthersStay
  <2>2. ASSUME NEW v \in Versions, Recognise(r, v) \/ RefuseEdited(r, v) \/ Apply(r, v)
        PROVE  pc'[r] # "serving"
    BY <2>2 DEF Recognise, RefuseEdited, Apply, Turn
  <2>3. Unlock(r)
    BY <1>3, <2>1, <2>2 DEF Step, UpStep, Start, Lock, LockFails, ReadApplied, FinishScan,
       StatementFails, Stop
  <2>4. result[r] = "ok" /\ pc[r] = "unlock" /\ records' = records /\ release' = release
    BY <2>1, <2>3 DEF Unlock
  <2>5. records = Own(r)
    BY <2>4 DEF Finished
  <2>6. QED
    BY <2>1, <2>4, <2>5 DEF Own
<1>4. QED
  BY <1>2, <1>3

\* Every step keeps the invariant: those of a replica, and the end of a session.
LEMMA Preserved == IInv /\ [Next]_vars => IInv'
<1>1. ASSUME IInv, NEW r \in Replicas, Step(r)
      PROVE  IInv'
  <2>1. \A s \in Replicas : Local(s)'
    BY <1>1, LocalOfOthers, LocalOfOwn
  <2>2. QED
    BY <1>1, <2>1, TypePreserved, LockPreserved, CollisionPreserved,
       ServedPreserved DEF IInv, Local
<1>2. ASSUME IInv, DropSession
      PROVE  IInv'
  BY <1>2, MigrateAssumption
  DEF DropSession, IInv, TypeOK, LockDiscipline, Scanning, Elsewhere, Finished,
      Errors, NoCollision, ServedSchemaStays, Own, locals
<1>3. ASSUME IInv, UNCHANGED vars
      PROVE  IInv'
  BY <1>3
  DEF vars, IInv, TypeOK, LockDiscipline, Scanning, Elsewhere, Finished, Errors,
      NoCollision, ServedSchemaStays, Own
<1>4. QED
  BY <1>1, <1>2, <1>3 DEF Next, Step

\* The invariant is inductive, so every reachable state satisfies it.
LEMMA Invariant == Spec => []IInv
BY Initially, Preserved, PTL DEF Spec

-----------------------------------------------------------------------------
\* Every state has the types the model gives it.
THEOREM TypeCorrect == Spec => []TypeOK
BY Invariant, PTL DEF IInv

\* However many replicas start together, stop and start again, none collides
\* with another over a migration.
THEOREM ReplicasDoNotCollide == Spec => []NoCollision
BY Invariant, PTL DEF IInv

\* What a serving replica was built for stays in the database, unchanged.
THEOREM SchemaStays == Spec => []ServedSchemaStays
BY Invariant, PTL DEF IInv

\* A replica begins to serve on exactly the schema of its release.
THEOREM StartsRight == Spec => StartsOnItsSchema
<1> DEFINE Begins == \A r \in Replicas :
             pc[r] # "serving" /\ pc'[r] = "serving" => records' = Own(r)
<1>1. IInv /\ [Next]_vars => [Begins]_vars
  <2> SUFFICES ASSUME IInv, Next, NEW s \in Replicas,
                      pc[s] # "serving", pc'[s] = "serving"
               PROVE  records' = Own(s)
    OBVIOUS
  <2> USE DEF IInv, TypeOK, Goto, Forget, Return, locals
  <2>1. PICK r \in Replicas : Step(r)
    BY DEF Next, Step, DropSession
  <2>2. s = r
    BY <2>1, OthersStay
  <2>3. ASSUME NEW v \in Versions, Recognise(r, v) \/ RefuseEdited(r, v) \/ Apply(r, v)
        PROVE  pc'[r] # "serving"
    BY <2>3 DEF Recognise, RefuseEdited, Apply, Turn
  <2>4. Unlock(r)
    BY <2>1, <2>2, <2>3 DEF Step, UpStep, Start, Lock, LockFails, ReadApplied, FinishScan,
       StatementFails, Stop
  <2>5. QED
    BY <2>2, <2>4 DEF Unlock, Finished
<1>2. QED
  BY <1>1, Invariant, PTL DEF Spec, StartsOnItsSchema
=============================================================================

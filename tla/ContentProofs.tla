---------------------------- MODULE ContentProofs ----------------------------
(***************************************************************************)
(* What module Content promises, for any number of posts and of concurrent *)
(* requests.                                                               *)
(*                                                                         *)
(* The rules of the lifecycle are checked against the copy a request has   *)
(* read, not against the row it overwrites.  The inductive invariant so    *)
(* says that every pending copy follows them from the row it was read as;  *)
(* what it is when it lands depends on who else was at work.               *)
(***************************************************************************)
EXTENDS Content, TLAPS

\* A row that satisfies the CHECK of the table.
Dated(row) == row.status = "published" => row.publishedAt # None

\* The changes SetStatus and UpdatePost make to the copy.
Obeys(old, new) ==
  /\ new.author = old.author
  /\ CanTransition(old.status, new.status)
  /\ IF new.status = "published" /\ old.publishedAt = None
     THEN new.publishedAt \in Time
     ELSE new.publishedAt = old.publishedAt

Pending(r) ==
  job[r] # None => /\ job[r] \in Job
                   /\ job[r].post \in drawn
                   /\ Dated(job[r].row)
                   /\ Obeys(job[r].seen, job[r].row)

IInv ==
  /\ TypeOK
  /\ PublishedHasDate
  /\ \A r \in Requests : Pending(r)

\* A pending copy is of the row that is in the table.
Current(r) ==
  (job[r] # None /\ job[r].post \in Live) => posts[job[r].post] = job[r].seen

-----------------------------------------------------------------------------
\* An empty table satisfies the invariant.
LEMMA Initially == Init => IInv
BY ContentAssumption
DEF Init, IInv, TypeOK, PublishedHasDate, Pending, Live, Time, Row

\* The copies UpdatePost and SetStatus make.
LEMMA EditObeys ==
  ASSUME IInv, NEW p \in DOMAIN posts, NEW b \in Bodies
  PROVE  LET row == [posts[p] EXCEPT !.body = b]
         IN  row \in Row /\ Dated(row) /\ Obeys(posts[p], row)
BY DEF IInv, TypeOK, PublishedHasDate, Live, Row, Dated, Obeys, CanTransition

\* The copy of a status change obeys the lifecycle, because it is checked
\* against the row it was made from.
LEMMA StatusObeys ==
  ASSUME IInv, NEW p \in DOMAIN posts, NEW to \in Status,
         CanTransition(posts[p].status, to)
  PROVE  LET row == [posts[p] EXCEPT !.status = to,
                       !.publishedAt = PublicationDate(posts[p], to)]
         IN  row \in Row /\ Dated(row) /\ Obeys(posts[p], row)
<1> DEFINE date == PublicationDate(posts[p], to)
           row == [posts[p] EXCEPT !.status = to, !.publishedAt = date]
<1>1. posts[p] \in Row
  BY DEF IInv, TypeOK
<1>2. date \in Time \cup {None}
  BY <1>1 DEF IInv, TypeOK, PublicationDate, Row
<1>3. to = "published" /\ posts[p].publishedAt = None => date \in Time
  BY DEF IInv, TypeOK, PublicationDate
<1>4. ~(to = "published" /\ posts[p].publishedAt = None)
        => date = posts[p].publishedAt
  BY DEF PublicationDate
<1>5. None \notin Time
  BY ContentAssumption DEF Time
<1> HIDE DEF date
<1>6. row \in Row /\ row.status = to /\ row.publishedAt = date
        /\ row.author = posts[p].author
  BY <1>1, <1>2 DEF Row
<1> HIDE DEF row
<1>7. row \in Row /\ Dated(row) /\ Obeys(posts[p], row)
  BY <1>3, <1>4, <1>5, <1>6 DEF Dated, Obeys
<1>8. QED
  BY <1>7 DEF row, date

\* Reading a row and keeping an obedient copy of it keeps the invariant.
LEMMA ReadPreserves ==
  ASSUME IInv, NEW r \in Requests, NEW p \in DOMAIN posts, NEW row \in Row,
         Dated(row), Obeys(posts[p], row), Read(r, p, row)
  PROVE  IInv'
BY DEF IInv, TypeOK, PublishedHasDate, Live, Pending, Job, Read, Dated, Obeys, Time

\* Every step keeps the invariant.
LEMMA Preserved == IInv /\ [Next]_vars => IInv'
<1> SUFFICES ASSUME IInv, [Next]_vars
             PROVE  IInv'
  OBVIOUS
<1> USE DEF IInv, TypeOK, PublishedHasDate, Live, Pending
<1>1. ASSUME NEW p \in Posts, NEW a \in Authors, NEW b \in Bodies,
             CreatePost(p, a, b)
      PROVE  IInv'
  BY <1>1, ContentAssumption DEF CreatePost, Row, Status, Obeys, Dated
<1>2. ASSUME NEW r \in Requests, NEW p \in Posts, NEW b \in Bodies,
             UpdatePost(r, p, b)
      PROVE  IInv'
  BY <1>2, EditObeys, ReadPreserves DEF UpdatePost
<1>3. ASSUME NEW r \in Requests, NEW p \in Posts, NEW to \in Status,
             SetStatus(r, p, to)
      PROVE  IInv'
  BY <1>3, StatusObeys, ReadPreserves DEF SetStatus
<1>4. ASSUME NEW r \in Requests, Write(r)
      PROVE  IInv'
  BY <1>4 DEF Write, WriteRow, Job, Row, Dated, Obeys
<1>5. ASSUME NEW r \in Requests, AbandonWrite(r)
      PROVE  IInv'
  BY <1>5 DEF AbandonWrite, Obeys, Dated
<1>6. ASSUME NEW p \in Posts, DeletePost(p)
      PROVE  IInv'
  BY <1>6 DEF DeletePost, Obeys, Dated
<1>7. CASE Tick
  BY <1>7, ContentAssumption DEF Tick, Time, Obeys, Dated
<1>8. CASE UNCHANGED vars
  BY <1>8 DEF vars, Obeys, Dated
<1>9. QED
  BY <1>1, <1>2, <1>3, <1>4, <1>5, <1>6, <1>7, <1>8 DEF Next

\* The invariant is inductive, so every reachable state satisfies it.
LEMMA Invariant == Spec => []IInv
BY Initially, Preserved, PTL DEF Spec

-----------------------------------------------------------------------------
\* Every state has the types the model gives it.
THEOREM TypeCorrect == Spec => []TypeOK
BY Invariant, PTL DEF IInv

\* Every published post has a date, whatever interleaving of edits, status
\* changes and deletions produced its row: the CHECK of the table never fires.
THEOREM PublishedIsDated == Spec => []PublishedHasDate
BY Invariant, PTL DEF IInv

\* No late write, however many requests are at work, brings a post back.
THEOREM NoResurrection == Spec => DeletedStaysDeleted
<1>1. [Next]_vars => [\A p \in drawn : p \notin Live => p \notin Live']_vars
  BY DEF Next, vars, Live, CreatePost, UpdatePost, SetStatus, Read, Write,
         WriteRow, AbandonWrite, DeletePost, Tick
<1>2. QED
  BY <1>1, PTL DEF Spec, DeletedStaysDeleted

\* What a copy obeys, its write does to the row it was read from.
LEMMA ObeysFollows ==
  ASSUME NEW old \in Row, NEW new \in Row, Obeys(old, new)
  PROVE  FollowsLifecycle(old, new)
BY DEF Obeys, FollowsLifecycle, CanTransition, transitions, Row, Status

\* A write over the row its request read follows the lifecycle.
LEMMA CurrentWrite ==
  ASSUME IInv, [Next]_vars, NEW r \in Requests,
         job[r] # None, job'[r] = None, job[r].post \in Live \cap Live',
         posts[job[r].post] = job[r].seen
  PROVE  FollowsLifecycle(posts[job[r].post], posts'[job[r].post])
<1> USE DEF IInv, TypeOK, Live
<1> DEFINE p == job[r].post
<1>1. job[r] \in Job /\ Obeys(job[r].seen, job[r].row)
  BY DEF Pending
<1>2. posts[p] \in Row
  OBVIOUS
<1>3. CASE Write(r)
  <2>1. posts'[p] = [job[r].row EXCEPT !.author = posts[p].author]
    BY <1>3 DEF Write, WriteRow
  <2>2. posts'[p] = job[r].row
    BY <1>1, <2>1 DEF Obeys, Job, Row
  <2>3. QED
    BY <1>1, <2>2, ObeysFollows DEF Job
<1>4. CASE ~Write(r)
  <2>1. posts'[p] = posts[p]
    BY <1>4 DEF Next, vars, CreatePost, UpdatePost, SetStatus, Read, Write,
                AbandonWrite, DeletePost, Tick
  <2>2. QED
    BY <2>1 DEF FollowsLifecycle
<1>5. QED
  BY <1>3, <1>4

\* Only a stale copy can break the lifecycle: a write over the row its request
\* read keeps the author, follows a transition and never moves a date.
THEOREM CurrentWritesAreSound == Spec => CurrentWriteFollowsLifecycle
<1>1. IInv /\ [Next]_vars =>
        [\A r \in Requests :
           (/\ job[r] # None /\ job'[r] = None
            /\ job[r].post \in Live \cap Live'
            /\ posts[job[r].post] = job[r].seen)
           => FollowsLifecycle(posts[job[r].post], posts'[job[r].post])]_vars
  BY CurrentWrite
<1>2. QED
  BY <1>1, Invariant, PTL DEF Spec, CurrentWriteFollowsLifecycle

-----------------------------------------------------------------------------
\* One request at a time holds the only copy, and nobody else writes: until it
\* is written, or its post deleted, the copy is of the row in the table.
AllCurrent == \A r \in Requests : Current(r)

\* While one request is at work, nobody changes the row it has read but a
\* deletion.
LEMMA CurrentPreserved ==
  ASSUME NEW q, Requests = {q}, IInv, AllCurrent, [Next]_vars
  PROVE  AllCurrent'
<1> USE DEF IInv, TypeOK, AllCurrent, Current, Live, Pending
<1>1. ASSUME NEW p \in Posts, NEW a \in Authors, NEW b \in Bodies,
             CreatePost(p, a, b)
      PROVE  AllCurrent'
  BY <1>1 DEF CreatePost
<1>2. ASSUME NEW r \in Requests, NEW p \in DOMAIN posts, NEW row, Read(r, p, row)
      PROVE  AllCurrent'
  BY <1>2 DEF Read, Job
<1>3. ASSUME NEW r \in Requests, Write(r) \/ AbandonWrite(r)
      PROVE  AllCurrent'
  BY <1>3 DEF Write, AbandonWrite
<1>4. ASSUME NEW p \in Posts, DeletePost(p)
      PROVE  AllCurrent'
  BY <1>4 DEF DeletePost
<1>5. CASE Tick \/ UNCHANGED vars
  BY <1>5 DEF Tick, vars
<1>6. QED
  BY <1>1, <1>2, <1>3, <1>4, <1>5 DEF Next, UpdatePost, SetStatus

\* The abstract state of the lifecycle.
status == [p \in Posts |->
             IF p \in Live THEN posts[p].status
             ELSE IF p \in drawn THEN "gone" ELSE "unborn"]
dated == [p \in Posts |-> IF p \in Live THEN posts[p].publishedAt ELSE None]

\* A write that obeys the lifecycle is a move, or changes neither the status
\* nor the date.
LEMMA WriteMoves ==
  ASSUME IInv, NEW r \in Requests, Current(r), Write(r)
  PROVE  Lifecycle!Next \/ UNCHANGED <<status, dated>>
<1> USE DEF IInv, TypeOK, Live
<1>1. PICK p, new : p = job[r].post /\ new = job[r].row
  OBVIOUS
<1>2. job[r] \in Job /\ Obeys(job[r].seen, new)
  BY <1>1 DEF Write, Pending
<1>3. p \in Posts /\ new \in Row /\ drawn' = drawn /\ DOMAIN posts' = DOMAIN posts
  BY <1>1, <1>2 DEF Job, Write, WriteRow
<1>4. CASE p \notin Live
  BY <1>1, <1>3, <1>4 DEF Write, WriteRow, status, dated
<1>5. CASE p \in Live
  <2>1. posts[p] \in Row /\ Obeys(posts[p], new)
    BY <1>1, <1>2, <1>5 DEF Current, Write
  <2>2. posts'[p].status = new.status /\ posts'[p].publishedAt = new.publishedAt
    BY <1>1, <1>3, <1>5 DEF Write, WriteRow, Row
  <2>3. \A x \in DOMAIN posts \ {p} : posts'[x] = posts[x]
    BY <1>1 DEF Write, WriteRow
  <2>4. /\ status' = [status EXCEPT ![p] = new.status]
        /\ dated' = [dated EXCEPT ![p] = new.publishedAt]
    BY <1>3, <1>5, <2>2, <2>3 DEF status, dated
  <2>5. status[p] = posts[p].status /\ dated[p] = posts[p].publishedAt
    BY <1>3, <1>5 DEF status, dated
  <2>6. CASE new.status = posts[p].status
    <3>1. new.publishedAt = posts[p].publishedAt
      BY <1>5, <2>1, <2>6 DEF Obeys, PublishedHasDate
    <3>2. status' = status /\ dated' = dated
      BY <2>4, <2>5, <2>6, <3>1 DEF status, dated
    <3>3. QED
      BY <3>2
  <2>7. CASE new.status # posts[p].status
    <3>1. /\ status[p] \in DOMAIN Lifecycle!Transitions
          /\ new.status \in Lifecycle!Transitions[status[p]]
      BY <2>1, <2>5, <2>7
      DEF Obeys, CanTransition, transitions, Lifecycle!Transitions, Row, Status
    <3>2. IF new.status = "published" /\ dated[p] = None
          THEN \E t \in Time : dated' = [dated EXCEPT ![p] = t]
          ELSE UNCHANGED dated
      BY <1>3, <2>1, <2>4, <2>5 DEF Obeys, dated
    <3>3. new.status \in Lifecycle!Statuses
      BY <1>3 DEF Row, Status, Lifecycle!Statuses
    <3>4. Lifecycle!Move(p, new.status)
      BY <2>4, <3>1, <3>2 DEF Lifecycle!Move, status, dated
    <3>5. QED
      BY <1>3, <3>3, <3>4 DEF Lifecycle!Next
  <2>8. QED
    BY <2>6, <2>7
<1>6. QED
  BY <1>4, <1>5

\* While one request is at work, every step is one of the abstract lifecycle or
\* changes nothing it shows.
LEMMA LifecycleStep ==
  ASSUME IInv, AllCurrent, [Next]_vars
  PROVE  Lifecycle!Next \/ UNCHANGED <<status, dated>>
<1> USE DEF IInv, TypeOK, Live
<1>1. ASSUME NEW p \in Posts, NEW a \in Authors, NEW b \in Bodies,
             CreatePost(p, a, b)
      PROVE  Lifecycle!Next
  <2>1. /\ status[p] = "unborn"
        /\ status' = [status EXCEPT ![p] = "draft"]
        /\ UNCHANGED dated
    BY <1>1 DEF CreatePost, status, dated
  <2>2. QED
    BY <2>1 DEF Lifecycle!Next, Lifecycle!Create, status, dated
<1>2. ASSUME NEW r \in Requests, NEW p, NEW row, Read(r, p, row)
      PROVE  UNCHANGED <<status, dated>>
  BY <1>2 DEF Read, status, dated
<1>3. ASSUME NEW r \in Requests, Write(r)
      PROVE  Lifecycle!Next \/ UNCHANGED <<status, dated>>
  BY <1>3, WriteMoves DEF AllCurrent
<1>4. ASSUME NEW p \in Posts, DeletePost(p)
      PROVE  Lifecycle!Next
  <2>1. /\ status[p] \in Status
        /\ status' = [status EXCEPT ![p] = "gone"]
        /\ dated' = [dated EXCEPT ![p] = None]
    BY <1>4 DEF DeletePost, status, dated, Row
  <2>2. QED
    BY <2>1
    DEF Lifecycle!Next, Lifecycle!Delete, Lifecycle!Transitions, status, dated, Status
<1>5. CASE Tick \/ (\E r \in Requests : AbandonWrite(r)) \/ UNCHANGED vars
  BY <1>5 DEF Tick, AbandonWrite, vars, status, dated
<1>6. QED
  BY <1>1, <1>2, <1>3, <1>4, <1>5 DEF Next, UpdatePost, SetStatus

\* With one request at a time the service implements the lifecycle.
THEOREM Implementation ==
  ASSUME NEW q, Requests = {q}
  PROVE  Spec => LifecycleHolds
<1>1. Init => AllCurrent
  BY DEF Init, AllCurrent, Current
<1>2. IInv /\ AllCurrent /\ [Next]_vars => AllCurrent'
  BY CurrentPreserved
<1>3. Init => Lifecycle!Init
  BY DEF Init, Lifecycle!Init, Live
<1>4. IInv /\ AllCurrent /\ [Next]_vars => [Lifecycle!Next]_<<status, dated>>
  BY LifecycleStep
<1>5. QED
  BY <1>1, <1>2, <1>3, <1>4, Invariant, PTL
  DEF Spec, LifecycleHolds, Lifecycle!Spec, status, dated
=============================================================================

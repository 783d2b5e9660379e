------------------------------ MODULE Content -------------------------------
(***************************************************************************)
(* The content service: content/service.go over content/sqlite/post.go (the*)
(* Postgres backend runs the same statements).  One table of posts.        *)
(*                                                                         *)
(* CreatePost and DeletePost are one statement each.  UpdatePost and       *)
(* SetStatus read the whole row, change the copy and write every column    *)
(* but the author back, in two statements with no transaction and no       *)
(* version check, so requests interleave between them.  Rejected input     *)
(* changes nothing and is left out.                                        *)
(***************************************************************************)
EXTENDS Naturals

CONSTANTS
  Posts,     \* post identifiers, each drawn at most once (UUIDv7)
  Authors,   \* user references
  Bodies,    \* title, body and content type that pass validation
  Requests,  \* requests the service handles at the same time
  MaxTime,   \* bound: how far the clock runs
  None       \* NULL; also an idle request

ASSUME ContentAssumption ==
  /\ MaxTime \in Nat
  /\ None \notin Nat

VARIABLES
  posts,  \* the table: a function from the identifiers in it to rows
  drawn,  \* identifiers drawn so far
  job,    \* what each request has read and is about to write
  now     \* the clock

vars == <<posts, drawn, job, now>>

Status == {"draft", "published", "archived"}

Time == 0 .. MaxTime

Row == [author : Authors, body : Bodies, status : Status,
        publishedAt : Time \cup {None}]

Job == [post : Posts, seen : Row, row : Row]

TypeOK ==
  /\ drawn \subseteq Posts
  /\ DOMAIN posts \subseteq drawn
  /\ posts \in [DOMAIN posts -> Row]
  /\ job \in [Requests -> Job \cup {None}]
  /\ now \in Time

Init ==
  /\ posts = [p \in {} |-> None]
  /\ drawn = {}
  /\ job = [r \in Requests |-> None]
  /\ now = 0

-----------------------------------------------------------------------------
LooseTransitions == [draft     |-> {"published", "archived"},
                     published |-> {"archived"},
                     archived  |-> {"draft", "published"}]

transitions == [draft     |-> {"published", "archived"},
                published |-> {"archived"},
                archived  |-> {"draft"}]

\* Staying put is allowed, so a resubmitted form does not fail.
CanTransition(from, to) == from = to \/ to \in transitions[from]

RedatePublication(row, to) == IF to = "published" THEN now ELSE row.publishedAt
LatePublication(row, to) ==
  IF to = "published" /\ row.publishedAt = None THEN now + 1 ELSE row.publishedAt
UndatedPublication(row, to) == row.publishedAt
PublicationDate(row, to) ==
  IF to = "published" /\ row.publishedAt = None THEN now ELSE row.publishedAt

CreatePost(p, a, b) ==
  /\ p \notin drawn
  /\ drawn' = drawn \cup {p}
  /\ posts' = [q \in DOMAIN posts \cup {p} |->
                 IF q = p
                 THEN [author |-> a, body |-> b, status |-> "draft",
                       publishedAt |-> None]
                 ELSE posts[q]]
  /\ UNCHANGED <<job, now>>

\* GetPost, the checks and the changed copy: the first half of both updates.
Read(r, p, row) ==
  /\ job[r] = None
  /\ job' = [job EXCEPT ![r] = [post |-> p, seen |-> posts[p], row |-> row]]
  /\ UNCHANGED <<posts, drawn, now>>

UpdatePost(r, p, b) ==
  /\ p \in DOMAIN posts
  /\ Read(r, p, [posts[p] EXCEPT !.body = b])

SetStatus(r, p, to) ==
  /\ p \in DOMAIN posts
  /\ CanTransition(posts[p].status, to)
  /\ Read(r, p, [posts[p] EXCEPT !.status = to,
                                 !.publishedAt = PublicationDate(posts[p], to)])

\* The UPDATE statement: every column but author_ref, and no row means
\* ErrPostNotFound.
Upsert(p, row) ==
  posts' = [q \in DOMAIN posts \cup {p} |-> IF q = p THEN row ELSE posts[q]]

WriteRow(p, row) ==
  posts' = [q \in DOMAIN posts |->
              IF q = p THEN [row EXCEPT !.author = posts[p].author] ELSE posts[q]]

Write(r) ==
  /\ job[r] # None
  /\ WriteRow(job[r].post, job[r].row)
  /\ job' = [job EXCEPT ![r] = None]
  /\ UNCHANGED <<drawn, now>>

\* The statement fails or the request is cancelled before it.
AbandonWrite(r) ==
  /\ job[r] # None
  /\ job' = [job EXCEPT ![r] = None]
  /\ UNCHANGED <<posts, drawn, now>>

DeletePost(p) ==
  /\ p \in DOMAIN posts
  /\ posts' = [q \in DOMAIN posts \ {p} |-> posts[q]]
  /\ UNCHANGED <<drawn, job, now>>

Tick ==
  /\ now < MaxTime
  /\ now' = now + 1
  /\ UNCHANGED <<posts, drawn, job>>

Next ==
  \/ \E p \in Posts, a \in Authors, b \in Bodies : CreatePost(p, a, b)
  \/ \E r \in Requests, p \in Posts, b \in Bodies : UpdatePost(r, p, b)
  \/ \E r \in Requests, p \in Posts, to \in Status : SetStatus(r, p, to)
  \/ \E r \in Requests : Write(r) \/ AbandonWrite(r)
  \/ \E p \in Posts : DeletePost(p)
  \/ Tick

Spec == Init /\ [][Next]_vars

-----------------------------------------------------------------------------
(* Properties.                                                             *)

Live == DOMAIN posts

\* Every published post has a date, whatever interleaving of edits, status
\* changes and deletions produced the row: the CHECK of 0001_posts.sql:17 is
\* never what makes a request fail (service.go:120-123).
PublishedHasDate ==
  \A p \in Live : posts[p].status = "published" => posts[p].publishedAt # None

\* A write that arrives after its post was deleted does not bring it back
\* (sqlite/post.go:74-80).
DeletedStaysDeleted ==
  [][\A p \in drawn : p \notin Live => p \notin Live']_vars

\* The row a write may leave behind when it follows the lifecycle.
FollowsLifecycle(old, new) ==
  /\ new.author = old.author
  /\ \/ new.status = old.status
     \/ <<old.status, new.status>> \in
          {<<"draft", "published">>, <<"draft", "archived">>,
           <<"published", "archived">>, <<"archived", "draft">>}
  /\ old.publishedAt # None => new.publishedAt = old.publishedAt

\* Only a stale copy can break the lifecycle: a write whose row has not
\* changed since it was read obeys it, whoever else is at work elsewhere.
CurrentWriteFollowsLifecycle ==
  [][\A r \in Requests :
       (/\ job[r] # None /\ job'[r] = None
        /\ job[r].post \in Live \cap Live'
        /\ posts[job[r].post] = job[r].seen)
       => FollowsLifecycle(posts[job[r].post], posts'[job[r].post])]_vars

\* With one request at a time the service implements the lifecycle.
Lifecycle == INSTANCE PostLifecycle WITH
  Times  <- Time,
  status <- [p \in Posts |->
               IF p \in Live THEN posts[p].status
               ELSE IF p \in drawn THEN "gone" ELSE "unborn"],
  dated  <- [p \in Posts |-> IF p \in Live THEN posts[p].publishedAt ELSE None]

LifecycleHolds == Lifecycle!Spec
=============================================================================

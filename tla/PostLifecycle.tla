---------------------------- MODULE PostLifecycle ---------------------------
(***************************************************************************)
(* What the content service promises about the publication of its posts    *)
(* (content/content.go:37-62, content/post.go:21): a post begins as a      *)
(* draft, moves along the transitions, is dated when it is first published *)
(* and keeps that date, and once deleted is gone for good.                 *)
(***************************************************************************)
CONSTANTS Posts, Times, None

VARIABLES status, dated  \* status per post; date of first publication or None

Statuses == {"unborn", "draft", "published", "archived", "gone"}

Transitions == [draft     |-> {"published", "archived"},
                published |-> {"archived"},
                archived  |-> {"draft"}]

Init ==
  /\ status = [p \in Posts |-> "unborn"]
  /\ dated = [p \in Posts |-> None]

Create(p) ==
  /\ status[p] = "unborn"
  /\ status' = [status EXCEPT ![p] = "draft"]
  /\ UNCHANGED dated

Move(p, to) ==
  /\ status[p] \in DOMAIN Transitions
  /\ to \in Transitions[status[p]]
  /\ status' = [status EXCEPT ![p] = to]
  /\ IF to = "published" /\ dated[p] = None
     THEN \E t \in Times : dated' = [dated EXCEPT ![p] = t]
     ELSE UNCHANGED dated

Delete(p) ==
  /\ status[p] \in DOMAIN Transitions
  /\ status' = [status EXCEPT ![p] = "gone"]
  /\ dated' = [dated EXCEPT ![p] = None]

Next == \E p \in Posts :
  Create(p) \/ Delete(p) \/ \E to \in Statuses : Move(p, to)

Spec == Init /\ [][Next]_<<status, dated>>
=============================================================================

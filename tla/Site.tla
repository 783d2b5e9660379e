-------------------------------- MODULE Site --------------------------------
(***************************************************************************)
(* The site's administration pages over the three services: the handlers   *)
(* of web/admin_posts.go and web/admin_users.go with the guards of         *)
(* web/guard.go and web/session.go.  The site keeps nothing; a handler is  *)
(* a few checks, each a call to a service, and then a fixed sequence of    *)
(* calls that change one service each, with no transaction across them.    *)
(* Handlers interleave between any two calls.  Sign-in is module Auth's,   *)
(* the rows of a post module Content's and the first account Setup's: here *)
(* accounts and posts are the sets of those that exist.  A call that       *)
(* reports success has succeeded: another page under status 200, which a   *)
(* client that wants no response would believe, is in Remote only.         *)
(***************************************************************************)
EXTENDS Authz, Naturals, FiniteSets

CONSTANTS
  Users, Posts,  \* identifiers, each drawn at most once
  Requests,      \* requests the site handles at the same time
  Faults,        \* may a call fail, or a process stop?
  MaxLate,       \* bound: calls that timed out and may yet take effect
  None

\* Identifiers are UUIDs, and no wildcard; the seeded administrator is in use.
ASSUME SiteAssumption ==
  /\ Users \cap Posts = {}
  /\ None \notin Users \cup Posts
  /\ Wildcard \notin Users \cup Posts
  /\ "admin" \in Roles

VARIABLES
  accounts,   \* the accounts that exist, in auth
  posts,      \* the posts that exist, in content
  author,     \* the author column of every post ever created
  drawn,      \* identifiers drawn so far
  req,        \* what each request is doing
  late,       \* calls given up on that may still take effect
  belated,    \* history: posts and accounts such a call was about
  touched,    \* history: who has changed or deleted each post
  everAdmin   \* history: who has ever been an administrator

history == <<belated, touched, everAdmin>>

vars == <<authzVars, accounts, posts, author, drawn, req, late, history>>

Ops == {"createPost", "updatePost", "setPostStatus", "deletePost",
        "setUserRoles", "deleteUser"}

Administrator == "admin"

ownershipActions == {PostAction(verb) : verb \in {"read", "update", "delete", "publish"}}

Calls ==
  [op : {"CreatePost", "Grant", "UpdatePost", "DeletePost", "PurgeResource"},
   user : Users, arg : Posts]
  \cup [op : {"AssignRole", "RevokeRole"}, user : Users, arg : Roles]
  \cup [op : {"PurgeSubject", "DeleteUser"}, user : Users, arg : {None}]

\* A request under way: the visitor and what they ask for, where the handler is
\* and the calls it has left.
RequestType ==
  [op : Ops, at : {"can", "load", "held", "call"}, viewer : Users,
   target : Users \cup Posts \cup {None}, plan : Seq(Calls), retried : BOOLEAN]

ASSUME NoneIsNoRequest == None \notin RequestType

TypeOK ==
  /\ subjectRoles \subseteq ({UserRef(u) : u \in Users} \X Roles)
  /\ grants \subseteq ({UserRef(u) : u \in Users} \X ownershipActions
                         \X {PostRef(p) : p \in Posts})
  /\ accounts \subseteq drawn \cap Users
  /\ posts \subseteq drawn \cap Posts
  /\ author \in [Posts -> Users \cup {None}]
  /\ late \subseteq Calls
  /\ req \in [Requests -> RequestType \cup {None}]
  /\ belated \subseteq Users \cup Posts
  /\ touched \in [Posts -> SUBSET Users]
  /\ everAdmin \subseteq Users

\* An instance whose setup is complete: one account, the administrator's.
Init ==
  /\ \E founder \in Users :
       /\ accounts = {founder}
       /\ drawn = {founder}
       /\ subjectRoles = {<<UserRef(founder), Administrator>>}
       /\ everAdmin = {founder}
  /\ grants = {}
  /\ posts = {}
  /\ author = [p \in Posts |-> None]
  /\ req = [q \in Requests |-> None]
  /\ late = {}
  /\ belated = {}
  /\ touched = [p \in Posts |-> {}]

-----------------------------------------------------------------------------
(* What the calls do.                                                      *)

Call(op, u, arg) == [op |-> op, user |-> u, arg |-> arg]

AuthzEffect(c) ==
  /\ \/ c.op = "Grant" /\ Grant(UserRef(c.user), ownershipActions, PostRef(c.arg))
     \/ c.op = "PurgeResource" /\ PurgeResource(PostRef(c.arg))
     \/ c.op = "AssignRole" /\ AssignRole(UserRef(c.user), c.arg)
     \/ c.op = "RevokeRole" /\ RevokeRole(UserRef(c.user), c.arg)
     \/ c.op = "PurgeSubject" /\ PurgeSubject(UserRef(c.user))
  /\ everAdmin' = everAdmin \cup
       {u \in Users : <<UserRef(u), Administrator>> \in subjectRoles'}
  /\ UNCHANGED <<accounts, posts, author, touched>>

\* user is the author of a new post, and whoever changes an existing one.
ContentEffect(c) ==
  /\ \/ /\ c.op = "CreatePost"
        /\ posts' = posts \cup {c.arg}
        /\ author' = [author EXCEPT ![c.arg] = c.user]
        /\ UNCHANGED touched
     \/ /\ c.op \in {"UpdatePost", "DeletePost"}
        /\ posts' = IF c.op = "DeletePost" THEN posts \ {c.arg} ELSE posts
        /\ touched' = IF c.arg \in posts
                      THEN [touched EXCEPT ![c.arg] = @ \cup {c.user}]
                      ELSE touched
        /\ UNCHANGED author
  /\ UNCHANGED <<authzVars, accounts, everAdmin>>

AuthEffect(c) ==
  /\ c.op = "DeleteUser"
  /\ accounts' = accounts \ {c.user}
  /\ UNCHANGED <<authzVars, posts, author, touched, everAdmin>>

Effect(c) == AuthzEffect(c) \/ ContentEffect(c) \/ AuthEffect(c)

NoEffect == UNCHANGED <<authzVars, accounts, posts, author, touched, everAdmin>>

-----------------------------------------------------------------------------
(* The handlers: the permission each asks for and the calls it makes.      *)

Required(op, target) ==
  CASE op = "createPost"    -> <<PostAction("create"), AnyPost>>
    [] op = "updatePost"    -> <<PostAction("update"), PostRef(target)>>
    [] op = "setPostStatus" -> <<PostAction("publish"), PostRef(target)>>
    [] op = "deletePost"    -> <<PostAction("delete"), PostRef(target)>>
    [] op = "setUserRoles"  -> <<RoleAssign, UserRef(target)>>
    [] op = "deleteUser"    -> <<UserAction("delete"), UserRef(target)>>

CreatePlan(v, p) == <<Call("CreatePost", v, p), Call("Grant", v, p)>>

EditPlan(v, p) == <<Call("UpdatePost", v, p)>>

\* Grants go first.
DeleteThenPurge(v, p) == <<Call("DeletePost", v, p), Call("PurgeResource", v, p)>>
DeletePlan(v, p) == <<Call("PurgeResource", v, p), Call("DeletePost", v, p)>>

DeleteUserPlan(u) == <<Call("PurgeSubject", u, None), Call("DeleteUser", u, None)>>

\* The whole role set is replaced, one call for each difference, in the order
\* ListRoles answers.
RolePlan(u, held, requested) ==
  LET differs(role) == (role \in held) # (role \in requested)
      change(role) ==
        IF role \in Roles /\ differs(role)
        THEN <<Call(IF role \in requested THEN "AssignRole" ELSE "RevokeRole", u, role)>>
        ELSE <<>>
  IN  change(RoleOrder[1]) \o change(RoleOrder[2]) \o change(RoleOrder[3])

\* Nobody removes their own administrator role.
NeverRefused(v, u, held, requested) == FALSE
Refused(v, u, held, requested) ==
  u = v /\ Administrator \in held /\ Administrator \notin requested

-----------------------------------------------------------------------------
End(q) == req' = [req EXCEPT ![q] = None]

Goto(q, at) == req' = [req EXCEPT ![q].at = at]

Perform(q, plan) == req' = [req EXCEPT ![q].at = "call", ![q].plan = plan]

stores == <<authzVars, accounts, posts, author, touched, everAdmin>>

\* withSession resolves the visitor once; the request keeps the result.
Begin(q, op, v, target) ==
  /\ req[q] = None
  /\ v \in accounts
  /\ req' = [req EXCEPT ![q] = [op |-> op, at |-> "can", viewer |-> v,
               target |-> target, plan |-> <<>>, retried |-> FALSE]]
  /\ UNCHANGED <<stores, drawn, late, belated>>

\* requirePermission.
MayProceed(q) ==
  LET need == Required(req[q].op, req[q].target)
  IN  Can(UserRef(req[q].viewer), need[1], need[2])

CheckPermission(q) ==
  /\ req[q] # None /\ req[q].at = "can"
  /\ \/ ~MayProceed(q) /\ End(q) /\ UNCHANGED drawn
     \/ /\ MayProceed(q) /\ req[q].op # "createPost"
        /\ Goto(q, "load") /\ UNCHANGED drawn
     \/ /\ MayProceed(q) /\ req[q].op = "createPost"
        /\ \E p \in Posts \ drawn :
             /\ Perform(q, CreatePlan(req[q].viewer, p))
             /\ drawn' = drawn \cup {p}
  /\ UNCHANGED <<stores, late, belated>>

\* GetPost, or GetUserByRef; nobody deletes their own account here.
LoadTarget(q) ==
  /\ req[q] # None /\ req[q].at = "load"
  /\ LET v == req[q].viewer
         x == req[q].target
     IN CASE x \notin posts \cup accounts -> End(q)
          [] x \in posts /\ req[q].op = "deletePost" -> Perform(q, DeletePlan(v, x))
          [] x \in posts /\ req[q].op # "deletePost" -> Perform(q, EditPlan(v, x))
          [] x \in accounts /\ req[q].op = "setUserRoles" -> Goto(q, "held")
          [] x \in accounts /\ req[q].op = "deleteUser" ->
               IF x = v THEN End(q) ELSE Perform(q, DeleteUserPlan(x))
  /\ UNCHANGED <<stores, drawn, late, belated>>

\* SubjectRoles, against the roles the form asks for.
ReadRoles(q, requested) ==
  /\ req[q] # None /\ req[q].at = "held"
  /\ LET u == req[q].target
         held == RolesOf(UserRef(u))
         plan == RolePlan(u, held, requested)
     IN IF Refused(req[q].viewer, u, held, requested) \/ plan = <<>>
        THEN End(q)
        ELSE Perform(q, plan)
  /\ UNCHANGED <<stores, drawn, late, belated>>

CallSucceeds(q) ==
  /\ req[q] # None /\ req[q].at = "call"
  /\ Effect(Head(req[q].plan))
  /\ IF Len(req[q].plan) = 1 THEN End(q) ELSE Perform(q, Tail(req[q].plan))
  /\ UNCHANGED <<drawn, late, belated>>

\* A call fails before or after its effect, or times out with it under way.
\* Only the grant of a new post is tried again, once.
CallFails(q) ==
  /\ Faults
  /\ req[q] # None /\ req[q].at = "call"
  /\ LET c == Head(req[q].plan) IN
     /\ \/ NoEffect /\ UNCHANGED <<late, belated>>
        \/ Effect(c) /\ UNCHANGED <<late, belated>>
        \/ /\ Cardinality(late) < MaxLate
           /\ NoEffect
           /\ late' = late \cup {c}
           /\ belated' = belated \cup ({c.user, c.arg} \cap (Users \cup Posts))
     /\ IF c.op = "Grant" /\ ~req[q].retried
        THEN req' = [req EXCEPT ![q].retried = TRUE]
        ELSE End(q)
  /\ UNCHANGED drawn

\* The process handling the request stops.
Crash(q) ==
  /\ Faults
  /\ req[q] # None
  /\ End(q)
  /\ UNCHANGED <<stores, drawn, late, belated>>

Land(c) ==
  /\ Effect(c)
  /\ late' = late \ {c}
  /\ UNCHANGED <<drawn, req, belated>>

\* Somebody registers, or an administrator adds them.
Register(u) ==
  /\ u \notin drawn
  /\ accounts' = accounts \cup {u}
  /\ drawn' = drawn \cup {u}
  /\ UNCHANGED <<authzVars, posts, author, req, late, history>>

Next ==
  \/ \E q \in Requests, v \in Users :
       \/ Begin(q, "createPost", v, None)
       \/ \E p \in Posts, op \in {"updatePost", "setPostStatus", "deletePost"} :
            Begin(q, op, v, p)
       \/ \E u \in Users, op \in {"setUserRoles", "deleteUser"} : Begin(q, op, v, u)
  \/ \E q \in Requests :
       \/ CheckPermission(q) \/ LoadTarget(q)
       \/ CallSucceeds(q) \/ CallFails(q) \/ Crash(q)
  \/ \E q \in Requests, requested \in SUBSET Roles : ReadRoles(q, requested)
  \/ \E c \in late : Land(c)
  \/ \E u \in Users : Register(u)

Spec == Init /\ [][Next]_vars

-----------------------------------------------------------------------------
(* Properties.                                                             *)

Quiet == late = {} /\ \A q \in Requests : req[q] = None

\* Only its author, or somebody who has been an administrator, ever changes or
\* deletes a post, though no handler compares authors: ownership is a set of
\* grants (admin_posts.go:64-67).
OnlyOwnersTouch ==
  \A p \in Posts : touched[p] \subseteq {author[p]} \cup everAdmin

\* Calls that succeed leave every post in the hands of its author: requests
\* that race cannot take the ownership of a post that stays
\* (admin_posts.go:95-115).
AuthorOwnsPost ==
  Quiet => \A p \in posts : author[p] \in accounts =>
             \A a \in ownershipActions : Can(UserRef(author[p]), a, PostRef(p))

\* At rest nothing is held over a post, or by an account, that is gone, though
\* any call may have failed and any process stopped between two calls: what
\* README.md:159 says of the order of the deletions.  Calls that take effect
\* after they were given up on are the exception.
NoOrphans ==
  Quiet =>
    /\ \A g \in grants :
         /\ \E p \in posts \cup belated : g[3] = PostRef(p)
         /\ \E u \in accounts \cup belated : g[1] = UserRef(u)
    /\ \A x \in subjectRoles : \E u \in accounts \cup belated : x[1] = UserRef(u)

\* Some account can administer the site, unless a call took effect late: what
\* the checks of admin_users.go:117-119 and 224-237 are for.
AdministratorRemains ==
  belated = {} => \E u \in accounts : Administrator \in RolesOf(UserRef(u))
=============================================================================

----------------------------- MODULE SiteProofs ------------------------------
(***************************************************************************)
(* Proofs about Site, for any accounts, posts, requests, roles in use, and *)
(* under every fault: whoever changes or deletes a post owns it or has     *)
(* been an administrator.                                                  *)
(*                                                                         *)
(* What a request or a call knows is said relative to the author column a, *)
(* the accounts e that have been administrators and the identifiers d      *)
(* drawn, so that the same words serve before a step and after it.         *)
(***************************************************************************)
EXTENDS Site, SequenceTheorems, TLAPS

PostOps == {"updatePost", "setPostStatus", "deletePost"}

UserOps == {"setUserRoles", "deleteUser"}

Owns(v, p, a, e) == v = a[p] \/ v \in e

\* A call that may take effect whenever it likes, but for the one that creates
\* a post: it changes a post for somebody who owns it, and grants a post to
\* its author.
Settled(c, a, e) ==
  /\ c \in Calls
  /\ c.op # "CreatePost"
  /\ c.op \in {"UpdatePost", "DeletePost"} => Owns(c.user, c.arg, a, e)
  /\ c.op = "Grant" => c.user = a[c.arg]

\* A post that is created has no other author.
Fresh(v, p, a, d) == p \in d /\ (a[p] = None \/ a[p] = v)

\* The only plan that is not settled creates a post and grants it.
PlanOK(r, a, e, d) ==
  \/ /\ r.plan # <<>>
     /\ \A i \in DOMAIN r.plan : Settled(r.plan[i], a, e)
  \/ \E p \in Posts : r.plan = CreatePlan(r.viewer, p) /\ Fresh(r.viewer, p, a, d)

RequestOK(r, a, e, d) ==
  /\ r \in RequestType
  /\ r.op \in PostOps => r.target \in Posts
  /\ r.op \in UserOps => r.target \in Users
  /\ r.at = "load" =>
       /\ r.op # "createPost"
       /\ r.op \in PostOps => Owns(r.viewer, r.target, a, e)
  /\ r.at = "held" => r.op = "setUserRoles"
  /\ r.at = "call" => PlanOK(r, a, e, d)

RequestsOK == \A q \in Requests : req[q] # None => RequestOK(req[q], author, everAdmin, drawn)

CallOK(c, a, e, d) ==
  \/ Settled(c, a, e)
  \/ c \in Calls /\ c.op = "CreatePost" /\ Fresh(c.user, c.arg, a, d)

LateOK == \A c \in late : CallOK(c, author, everAdmin, drawn)

\* v is about to create p.
Creates(r, v, p) == r.at = "call" /\ r.plan = CreatePlan(v, p)

Creating(v, p) ==
  \/ Call("CreatePost", v, p) \in late
  \/ \E q \in Requests : req[q] # None /\ Creates(req[q], v, p)

OneCreator ==
  \A p \in Posts : \A v, w \in Users : Creating(v, p) /\ Creating(w, p) => v = w

AdminsRecorded ==
  \A u \in Users : <<UserRef(u), Administrator>> \in subjectRoles => u \in everAdmin

\* A grant over a post is its author's.
GrantsFollowAuthors ==
  \A g \in grants : \A p \in Posts : g[3] = PostRef(p) => g[1] = UserRef(author[p])

StoresType ==
  /\ subjectRoles \subseteq ({UserRef(u) : u \in Users} \X Roles)
  /\ grants \subseteq ({UserRef(u) : u \in Users} \X ownershipActions
                         \X {PostRef(p) : p \in Posts})
  /\ accounts \subseteq drawn \cap Users
  /\ posts \subseteq drawn \cap Posts
  /\ author \in [Posts -> Users \cup {None}]
  /\ \A p \in Posts : author[p] # None => p \in drawn
  /\ touched \in [Posts -> SUBSET Users]
  /\ everAdmin \subseteq Users

StoresOK ==
  /\ StoresType
  /\ AdminsRecorded
  /\ GrantsFollowAuthors
  /\ OnlyOwnersTouch

IInv ==
  /\ StoresOK
  /\ req \in [Requests -> RequestType \cup {None}]
  /\ RequestsOK
  /\ LateOK
  /\ OneCreator
  /\ belated \subseteq Users \cup Posts

-----------------------------------------------------------------------------
(* Permissions.                                                            *)

LEMMA RefsDiffer ==
  ASSUME NEW x, NEW y
  PROVE  /\ UserRef(x) = UserRef(y) => x = y
         /\ PostRef(x) = PostRef(y) => x = y
BY DEF UserRef, PostRef

\* A pattern without a wildcard matches itself only.
LEMMA NoWildcardTwo ==
  ASSUME NEW x, NEW y, y # Wildcard, NEW value, Matches(<<x, y>>, value)
  PROVE  value = <<x, y>>
<1>1. Last(<<x, y>>) = y
  BY DEF Last
<1>2. QED BY <1>1 DEF Matches

LEMMA NoWildcardThree ==
  ASSUME NEW x, NEW y, NEW z, z # Wildcard, NEW value, Matches(<<x, y, z>>, value)
  PROVE  value = <<x, y, z>>
<1>1. Last(<<x, y, z>>) = z
  BY DEF Last
<1>2. QED BY <1>1 DEF Matches

\* What a subject may do comes from a role or from a grant.
LEMMA PatternOrigin ==
  ASSUME NEW s, NEW pattern \in SubjectPatterns(s)
  PROVE  \/ \E role \in RolesOf(s) : pattern \in RolePermissions[role]
         \/ \E g \in grants : g[1] = s /\ pattern = <<g[2], g[3]>>
BY DEF SubjectPatterns

\* The author role may only create posts, so whoever may change a post has a
\* grant over it or is an administrator.
LEMMA CanMeansOwns ==
  ASSUME StoresOK, NEW v \in Users, NEW p \in Posts,
         NEW verb \in {"update", "publish", "delete"},
         Can(UserRef(v), PostAction(verb), PostRef(p))
  PROVE  Owns(v, p, author, everAdmin)
<1>1. PICK pattern \in SubjectPatterns(UserRef(v)) :
        Matches(pattern[1], PostAction(verb)) /\ Matches(pattern[2], PostRef(p))
  BY DEF Can
<1>2. CASE \E role \in RolesOf(UserRef(v)) : pattern \in RolePermissions[role]
  <2>1. PICK role \in RolesOf(UserRef(v)) : pattern \in RolePermissions[role]
    BY <1>2
  <2>2. role \in {"admin", "author", "reader"}
    BY RolesAssumption DEF RolesOf, RolePermissions
  <2>3. CASE role = "admin"
    BY <2>1, <2>3 DEF RolesOf, StoresOK, AdminsRecorded, Administrator, Owns
  <2>4. CASE role = "author"
    <3>1. pattern[1] = <<"post", "create">>
      BY <2>1, <2>4 DEF RolePermissions, PostAction
    <3>2. PostAction(verb) = <<"post", "create">>
      BY <1>1, <3>1, NoWildcardTwo DEF Wildcard
    <3>3. QED BY <3>2 DEF PostAction
  <2>5. CASE role = "reader"
    BY <2>1, <2>5 DEF RolePermissions
  <2>6. QED BY <2>2, <2>3, <2>4, <2>5
<1>3. CASE \E g \in grants : g[1] = UserRef(v) /\ pattern = <<g[2], g[3]>>
  <2>1. PICK g \in grants : g[1] = UserRef(v) /\ pattern = <<g[2], g[3]>>
    BY <1>3
  <2>2. PICK x \in Posts : g[3] = PostRef(x)
    BY DEF StoresOK, StoresType
  <2>3. x # Wildcard
    BY <2>2, SiteAssumption
  <2>4. Matches(PostRef(x), PostRef(p))
    BY <1>1, <2>1, <2>2
  <2>5. PostRef(p) = PostRef(x)
    BY <2>3, <2>4, NoWildcardThree DEF PostRef
  <2>6. UserRef(v) = UserRef(author[p])
    BY <2>1, <2>2, <2>5 DEF StoresOK, GrantsFollowAuthors
  <2>7. v = author[p]
    BY <2>6, RefsDiffer
  <2>8. QED BY <2>7 DEF Owns
<1>4. \/ \E role \in RolesOf(UserRef(v)) : pattern \in RolePermissions[role]
      \/ \E g \in grants : g[1] = UserRef(v) /\ pattern = <<g[2], g[3]>>
  BY PatternOrigin
<1>5. QED BY <1>2, <1>3, <1>4, Zenon

-----------------------------------------------------------------------------
(* What the calls do.                                                      *)

\* The fields of each kind of call.
LEMMA CallTypes ==
  ASSUME NEW c \in Calls
  PROVE  /\ c.user \in Users
         /\ c.op \in {"CreatePost", "Grant", "UpdatePost", "DeletePost", "PurgeResource"}
              => c.arg \in Posts
         /\ c.op \in {"AssignRole", "RevokeRole"} => c.arg \in Roles
         /\ c.op \in {"PurgeSubject", "DeleteUser"} => c.arg = None
         /\ c = Call(c.op, c.user, c.arg)
BY DEF Calls, Call

\* Nobody is given a grant over a post but its author.
LEMMA AuthzKeepsStores ==
  ASSUME StoresOK, NEW c, Settled(c, author, everAdmin), AuthzEffect(c),
         UNCHANGED drawn
  PROVE  StoresOK'
<1>1. c \in Calls /\ c.user \in Users
  BY CallTypes DEF Settled
<1>2. /\ \A g \in grants' \ grants :
           /\ c.op = "Grant" /\ g[1] = UserRef(c.user) /\ g[3] = PostRef(c.arg)
           /\ g \in ({UserRef(u) : u \in Users} \X ownershipActions
                       \X {PostRef(p) : p \in Posts})
      /\ subjectRoles' \subseteq ({UserRef(u) : u \in Users} \X Roles)
  <2>1. CASE c.op = "Grant" /\ Grant(UserRef(c.user), ownershipActions, PostRef(c.arg))
    <3>1. c.arg \in Posts
      BY <1>1, <2>1, CallTypes
    <3>2. \A g \in grants' \ grants : \E a \in ownershipActions :
            g = <<UserRef(c.user), a, PostRef(c.arg)>>
      BY <2>1 DEF Grant
    <3>3. QED BY <1>1, <2>1, <3>1, <3>2 DEF Grant, StoresOK, StoresType
  <2>2. CASE c.op = "PurgeResource" /\ PurgeResource(PostRef(c.arg))
    BY <2>2 DEF PurgeResource, StoresOK, StoresType
  <2>3. CASE c.op = "AssignRole" /\ AssignRole(UserRef(c.user), c.arg)
    BY <1>1, <2>3 DEF AssignRole, StoresOK, StoresType
  <2>4. CASE c.op = "RevokeRole" /\ RevokeRole(UserRef(c.user), c.arg)
    BY <2>4 DEF RevokeRole, StoresOK, StoresType
  <2>5. CASE c.op = "PurgeSubject" /\ PurgeSubject(UserRef(c.user))
    BY <2>5 DEF PurgeSubject, StoresOK, StoresType
  <2>6. QED BY <2>1, <2>2, <2>3, <2>4, <2>5 DEF AuthzEffect
<1>3. /\ everAdmin' = everAdmin \cup
           {u \in Users : <<UserRef(u), Administrator>> \in subjectRoles'}
      /\ UNCHANGED <<accounts, posts, author, touched>>
  BY DEF AuthzEffect
<1>4. StoresType'
  BY <1>2, <1>3 DEF StoresOK, StoresType
<1>5. AdminsRecorded'
  BY <1>3 DEF AdminsRecorded
<1>6. GrantsFollowAuthors'
  <2> SUFFICES ASSUME NEW g \in grants', NEW p \in Posts, g[3] = PostRef(p)
               PROVE  g[1] = UserRef(author[p])
    BY <1>3 DEF GrantsFollowAuthors
  <2>1. CASE g \in grants
    BY <2>1 DEF StoresOK, GrantsFollowAuthors
  <2>2. CASE g \notin grants
    <3>1. c.op = "Grant" /\ g[1] = UserRef(c.user) /\ g[3] = PostRef(c.arg)
      BY <1>2, <2>2
    <3>2. p = c.arg
      BY <3>1, RefsDiffer
    <3>3. QED BY <3>1, <3>2 DEF Settled
  <2>3. QED BY <2>1, <2>2
<1>7. OnlyOwnersTouch'
  BY <1>3 DEF StoresOK, OnlyOwnersTouch
<1>8. QED BY <1>4, <1>5, <1>6, <1>7 DEF StoresOK

\* A post that has no author yet has nothing over it, and nobody touched it
\* but administrators.
LEMMA CreateKeepsStores ==
  ASSUME StoresOK, NEW c \in Calls, c.op = "CreatePost",
         Fresh(c.user, c.arg, author, drawn), ContentEffect(c),
         UNCHANGED drawn
  PROVE  /\ StoresOK'
         /\ author' = [author EXCEPT ![c.arg] = c.user]
<1>1. c.user \in Users /\ c.arg \in Posts
  BY CallTypes
<1>2. /\ posts' = posts \cup {c.arg}
      /\ author' = [author EXCEPT ![c.arg] = c.user]
      /\ UNCHANGED <<touched, authzVars, accounts, everAdmin>>
  BY DEF ContentEffect
<1>3. StoresType'
  BY <1>1, <1>2 DEF StoresOK, StoresType, Fresh, authzVars
<1>4. AdminsRecorded'
  BY <1>2 DEF StoresOK, AdminsRecorded, authzVars
<1>5. GrantsFollowAuthors'
  <2> SUFFICES ASSUME NEW g \in grants, NEW p \in Posts, g[3] = PostRef(p)
               PROVE  g[1] = UserRef(author'[p])
    BY <1>2 DEF GrantsFollowAuthors, authzVars
  <2>1. g[1] = UserRef(author[p])
    BY DEF StoresOK, GrantsFollowAuthors
  <2>2. PICK u \in Users : g[1] = UserRef(u)
    BY DEF StoresOK, StoresType
  <2>3. author[p] \in Users
    BY <2>1, <2>2, RefsDiffer
  <2>4. author'[p] = author[p]
    BY <1>1, <1>2, <2>3, SiteAssumption DEF Fresh, StoresOK, StoresType
  <2>5. QED BY <2>1, <2>4
<1>6. OnlyOwnersTouch'
  <2> SUFFICES ASSUME NEW p \in Posts, NEW u \in touched[p]
               PROVE  u \in {author'[p]} \cup everAdmin
    BY <1>2 DEF OnlyOwnersTouch
  <2>1. u \in {author[p]} \cup everAdmin
    BY DEF StoresOK, OnlyOwnersTouch
  <2>2. u \in Users
    BY DEF StoresOK, StoresType
  <2>3. QED BY <1>1, <1>2, <2>1, <2>2, SiteAssumption DEF Fresh, StoresOK, StoresType
<1>7. QED BY <1>2, <1>3, <1>4, <1>5, <1>6 DEF StoresOK

LEMMA ChangeKeepsStores ==
  ASSUME StoresOK, NEW c, Settled(c, author, everAdmin), ContentEffect(c) \/ AuthEffect(c),
         UNCHANGED drawn
  PROVE  StoresOK' /\ UNCHANGED <<author, everAdmin>>
<1>1. c \in Calls /\ c.op # "CreatePost" /\ c.user \in Users
  BY CallTypes DEF Settled
<1>2. CASE ContentEffect(c)
  <2>1. c.op \in {"UpdatePost", "DeletePost"}
    BY <1>1, <1>2 DEF ContentEffect
  <2>2. /\ c.arg \in Posts
        /\ c.user = author[c.arg] \/ c.user \in everAdmin
    BY <1>1, <2>1, CallTypes DEF Settled, Owns
  <2>3. /\ posts' \subseteq posts
        /\ \/ touched' = [touched EXCEPT ![c.arg] = @ \cup {c.user}]
           \/ touched' = touched
        /\ UNCHANGED <<author, subjectRoles, grants, accounts, everAdmin>>
    BY <1>1, <1>2 DEF ContentEffect, authzVars
  <2>4. StoresType'
    BY <1>1, <2>2, <2>3 DEF StoresOK, StoresType
  <2>5. AdminsRecorded' /\ GrantsFollowAuthors'
    BY <2>3 DEF StoresOK, AdminsRecorded, GrantsFollowAuthors
  <2>6. OnlyOwnersTouch'
    BY <2>2, <2>3 DEF StoresOK, StoresType, OnlyOwnersTouch
  <2>7. QED BY <2>3, <2>4, <2>5, <2>6 DEF StoresOK
<1>3. CASE AuthEffect(c)
  <2>1. /\ accounts' \subseteq accounts
        /\ UNCHANGED <<subjectRoles, grants, posts, author, touched, everAdmin>>
    BY <1>3 DEF AuthEffect, authzVars
  <2>2. StoresType' /\ AdminsRecorded' /\ GrantsFollowAuthors' /\ OnlyOwnersTouch'
    BY <2>1 DEF StoresOK, StoresType, AdminsRecorded, GrantsFollowAuthors, OnlyOwnersTouch
  <2>3. QED BY <2>1, <2>2 DEF StoresOK
<1>4. QED BY <1>2, <1>3

\* A call of a request, or a late one, that takes effect leaves everybody
\* else's in order: nobody else is creating the same post.
LEMMA SettledForward ==
  ASSUME NEW a, NEW b, NEW e, NEW f, NEW c, Settled(c, a, e), e \subseteq f,
         \A p \in Posts : a[p] \in Users => b[p] = a[p]
  PROVE  Settled(c, b, f)
<1>1. c \in Calls /\ c.user \in Users
  BY CallTypes DEF Settled
<1>2. c.op \in {"UpdatePost", "DeletePost", "Grant"} => c.arg \in Posts
  BY <1>1, CallTypes
<1>3. QED BY <1>1, <1>2 DEF Settled, Owns

LEMMA RequestForward ==
  ASSUME NEW a, NEW b, NEW e, NEW f, NEW d, NEW g, NEW r,
         RequestOK(r, a, e, d), e \subseteq f,
         \A p \in Posts : a[p] \in Users => b[p] = a[p],
         \A p \in Posts : Creates(r, r.viewer, p) /\ Fresh(r.viewer, p, a, d)
                            => Fresh(r.viewer, p, b, g)
  PROVE  RequestOK(r, b, f, g)
<1>1. r \in RequestType
  BY DEF RequestOK
<1>2. r.viewer \in Users
  BY <1>1 DEF RequestType
<1>3. r.op \in PostOps /\ Owns(r.viewer, r.target, a, e) => Owns(r.viewer, r.target, b, f)
  BY <1>2 DEF RequestOK, Owns
<1>4. r.at = "call" => PlanOK(r, b, f, g)
  <2> SUFFICES ASSUME r.at = "call"
               PROVE  PlanOK(r, b, f, g)
    OBVIOUS
  <2>1. CASE r.plan # <<>> /\ \A i \in DOMAIN r.plan : Settled(r.plan[i], a, e)
    <3>1. \A i \in DOMAIN r.plan : Settled(r.plan[i], b, f)
      BY <2>1, SettledForward
    <3>2. QED BY <2>1, <3>1 DEF PlanOK
  <2>2. CASE \E p \in Posts : r.plan = CreatePlan(r.viewer, p) /\ Fresh(r.viewer, p, a, d)
    BY <2>2 DEF PlanOK, Creates
  <2>3. QED BY <2>1, <2>2 DEF RequestOK, PlanOK
<1>5. QED BY <1>1, <1>3, <1>4 DEF RequestOK

\* What a step must leave for the invariant to hold after it.
RequestsStep ==
  /\ req' \in [Requests -> RequestType \cup {None}]
  /\ \A q \in Requests : req'[q] # None =>
       /\ RequestOK(req'[q], author', everAdmin', drawn')
       /\ \A v \in Users, p \in Posts : Creates(req'[q], v, p) => Creating(v, p)

LateStep ==
  \A c \in late' :
    /\ CallOK(c, author', everAdmin', drawn')
    /\ \A v \in Users, p \in Posts : c = Call("CreatePost", v, p) => Creating(v, p)

LEMMA StepInv ==
  ASSUME IInv, StoresOK', RequestsStep, LateStep, belated' \subseteq Users \cup Posts
  PROVE  IInv'
<1>1. RequestsOK'
  BY DEF RequestsStep, RequestsOK
<1>2. LateOK'
  BY DEF LateStep, LateOK
<1>3. \A v \in Users, p \in Posts : Creating(v, p)' => Creating(v, p)
  <2> SUFFICES ASSUME NEW v \in Users, NEW p \in Posts, Creating(v, p)'
               PROVE  Creating(v, p)
    OBVIOUS
  <2>1. CASE Call("CreatePost", v, p) \in late'
    BY <2>1 DEF LateStep
  <2>2. CASE \E q \in Requests : req'[q] # None /\ Creates(req'[q], v, p)
    BY <2>2 DEF RequestsStep
  <2>3. QED BY <2>1, <2>2 DEF Creating
<1>4. OneCreator'
  BY <1>3 DEF IInv, OneCreator
<1>5. QED BY <1>1, <1>2, <1>4 DEF IInv, RequestsStep

LEMMA SameStores ==
  ASSUME StoresOK, UNCHANGED stores, drawn \subseteq drawn'
  PROVE  StoresOK' /\ UNCHANGED <<author, everAdmin>>
BY DEF StoresOK, StoresType, AdminsRecorded, GrantsFollowAuthors, OnlyOwnersTouch,
   stores, authzVars

\* One request goes on with r, or ends, and is not about to create a post
\* unless it was; nothing else changes.
LEMMA OneRequest ==
  ASSUME IInv, UNCHANGED <<stores, drawn, late, belated>>,
         NEW q \in Requests, NEW r, req' = [req EXCEPT ![q] = r],
         \/ r = None
         \/ /\ RequestOK(r, author, everAdmin, drawn)
            /\ \A v \in Users, p \in Posts :
                 Creates(r, v, p) => req[q] # None /\ Creates(req[q], v, p)
  PROVE  IInv'
<1>1. StoresOK' /\ UNCHANGED <<author, everAdmin>>
  BY SameStores DEF IInv
<1>2. r \in RequestType \cup {None}
  BY DEF RequestOK
<1>3. RequestsStep
  <2>1. req' \in [Requests -> RequestType \cup {None}]
    BY <1>2 DEF IInv
  <2>2. ASSUME NEW p \in Requests, req'[p] # None
        PROVE  /\ RequestOK(req'[p], author', everAdmin', drawn')
               /\ \A v \in Users, x \in Posts : Creates(req'[p], v, x) => Creating(v, x)
    <3>1. CASE p = q
      BY <1>1, <2>2, <3>1 DEF IInv, Creating
    <3>2. CASE p # q
      BY <1>1, <2>2, <3>2 DEF IInv, RequestsOK, Creating
    <3>3. QED BY <3>1, <3>2
  <2>3. QED BY <2>1, <2>2 DEF RequestsStep
<1>4. LateStep
  BY <1>1 DEF IInv, LateOK, LateStep, Creating
<1>5. QED BY <1>1, <1>3, <1>4, StepInv DEF IInv

LEMMA EndInv ==
  ASSUME IInv, UNCHANGED <<stores, drawn, late, belated>>, NEW q \in Requests, End(q)
  PROVE  IInv'
BY OneRequest DEF End

LEMMA Working ==
  ASSUME IInv, NEW q \in Requests, req[q] # None
  PROVE  /\ RequestOK(req[q], author, everAdmin, drawn)
         /\ req[q] \in RequestType
         /\ req[q].viewer \in Users
BY DEF IInv, RequestsOK, RequestOK, RequestType

\* A plan whose calls are all settled is no creation.
LEMMA PerformInv ==
  ASSUME IInv, UNCHANGED <<stores, drawn, late, belated>>,
         NEW q \in Requests, req[q] # None, NEW plan \in Seq(Calls), plan # <<>>,
         \A i \in DOMAIN plan : Settled(plan[i], author, everAdmin),
         Perform(q, plan)
  PROVE  IInv'
<1> DEFINE r == [[req[q] EXCEPT !.at = "call"] EXCEPT !.plan = plan]
<1>1. RequestOK(req[q], author, everAdmin, drawn) /\ req[q] \in RequestType
  BY Working
<1>2. req' = [req EXCEPT ![q] = r]
  BY DEF Perform, IInv
<1>3. r \in RequestType /\ r.plan = plan /\ r.at = "call"
  BY <1>1 DEF RequestType
<1>4. r.op = req[q].op /\ r.target = req[q].target
  BY <1>1 DEF RequestType
<1> HIDE DEF r
<1>5. PlanOK(r, author, everAdmin, drawn)
  BY <1>3 DEF PlanOK
<1>6. RequestOK(r, author, everAdmin, drawn)
  BY <1>1, <1>3, <1>4, <1>5 DEF RequestOK
<1>7. ASSUME NEW v \in Users, NEW p \in Posts, Creates(r, v, p)
      PROVE  FALSE
  <2>1. plan[1] = Call("CreatePost", v, p) /\ 1 \in DOMAIN plan
    BY <1>3, <1>7 DEF Creates, CreatePlan
  <2>2. QED BY <2>1 DEF Settled, Call
<1>8. QED BY <1>2, <1>6, <1>7, OneRequest

\* A creation is determined by its plan, and its post is drawn.
LEMMA PlanDetermines ==
  ASSUME NEW v, NEW w, NEW p, NEW x, CreatePlan(v, p) = CreatePlan(w, x)
  PROVE  v = w /\ p = x
<1>1. Call("CreatePost", v, p) = Call("CreatePost", w, x)
  BY DEF CreatePlan
<1>2. QED BY <1>1 DEF Call

LEMMA CreatingIsFresh ==
  ASSUME IInv, NEW v \in Users, NEW p \in Posts, Creating(v, p)
  PROVE  Fresh(v, p, author, drawn)
<1>1. CASE Call("CreatePost", v, p) \in late
  BY <1>1 DEF IInv, LateOK, CallOK, Settled, Call
<1>2. CASE \E q \in Requests : req[q] # None /\ Creates(req[q], v, p)
  <2>1. PICK q \in Requests : req[q] # None /\ Creates(req[q], v, p)
    BY <1>2
  <2>2. PlanOK(req[q], author, everAdmin, drawn) /\ req[q].plan = CreatePlan(v, p)
    BY <2>1, Working DEF RequestOK, Creates
  <2>3. 1 \in DOMAIN req[q].plan /\ req[q].plan[1] = Call("CreatePost", v, p)
    BY <2>2 DEF CreatePlan
  <2>4. PICK x \in Posts : /\ CreatePlan(v, p) = CreatePlan(req[q].viewer, x)
                          /\ Fresh(req[q].viewer, x, author, drawn)
    BY <2>2, <2>3 DEF PlanOK, Settled, Call
  <2>5. QED BY <2>4, PlanDetermines
<1>3. QED BY <1>1, <1>2 DEF Creating

-----------------------------------------------------------------------------
(* The actions, each preserving the invariant.                             *)

LEMMA BeginInv ==
  ASSUME IInv, NEW q \in Requests, NEW op \in Ops, NEW v \in Users,
         NEW target \in Users \cup Posts \cup {None},
         op \in PostOps => target \in Posts,
         op \in UserOps => target \in Users,
         Begin(q, op, v, target)
  PROVE  IInv'
<1> DEFINE r == [op |-> op, at |-> "can", viewer |-> v, target |-> target,
                 plan |-> <<>>, retried |-> FALSE]
<1>1. r \in RequestType
  BY DEF RequestType
<1>2. RequestOK(r, author, everAdmin, drawn)
  BY <1>1 DEF RequestOK
<1>3. \A w \in Users, p \in Posts : ~Creates(r, w, p)
  BY DEF Creates
<1>4. req' = [req EXCEPT ![q] = r]
  BY DEF Begin
<1> HIDE DEF r
<1>5. QED BY <1>2, <1>3, <1>4, OneRequest DEF Begin

\* Going on to a check.
LEMMA GotoInv ==
  ASSUME IInv, UNCHANGED <<stores, drawn, late, belated>>,
         NEW q \in Requests, req[q] # None, NEW at \in {"load", "held"}, Goto(q, at),
         at = "load" =>
           /\ req[q].op # "createPost"
           /\ req[q].op \in PostOps => Owns(req[q].viewer, req[q].target, author, everAdmin),
         at = "held" => req[q].op = "setUserRoles"
  PROVE  IInv'
<1> DEFINE r == [req[q] EXCEPT !.at = at]
<1>1. RequestOK(req[q], author, everAdmin, drawn) /\ req[q] \in RequestType
  BY Working
<1>2. req' = [req EXCEPT ![q] = r]
  BY DEF Goto
<1>3. /\ r \in RequestType /\ r.at = at /\ r.op = req[q].op
      /\ r.target = req[q].target /\ r.viewer = req[q].viewer
  BY <1>1 DEF RequestType
<1> HIDE DEF r
<1>4. RequestOK(r, author, everAdmin, drawn)
  BY <1>1, <1>3 DEF RequestOK
<1>5. \A v \in Users, p \in Posts : ~Creates(r, v, p)
  BY <1>3 DEF Creates
<1>6. QED BY <1>2, <1>4, <1>5, OneRequest

LEMMA CheckPermissionInv ==
  ASSUME IInv, NEW q \in Requests, CheckPermission(q)
  PROVE  IInv'
<1>1. req[q] # None /\ UNCHANGED <<stores, late, belated>>
  BY DEF CheckPermission
<1>2. /\ RequestOK(req[q], author, everAdmin, drawn)
      /\ req[q] \in RequestType /\ req[q].viewer \in Users
  BY <1>1, Working
<1>3. CASE End(q) /\ UNCHANGED drawn
  BY <1>1, <1>3, EndInv
<1>4. CASE MayProceed(q) /\ req[q].op # "createPost" /\ Goto(q, "load") /\ UNCHANGED drawn
  <2>1. ASSUME req[q].op \in PostOps
        PROVE  Owns(req[q].viewer, req[q].target, author, everAdmin)
    <3>1. req[q].target \in Posts
      BY <1>2, <2>1 DEF RequestOK
    <3>2. PICK verb \in {"update", "publish", "delete"} :
            Required(req[q].op, req[q].target) =
              <<PostAction(verb), PostRef(req[q].target)>>
      BY <2>1 DEF PostOps, Required
    <3>3. Can(UserRef(req[q].viewer), PostAction(verb), PostRef(req[q].target))
      BY <1>4, <3>2 DEF MayProceed
    <3>4. QED BY <1>2, <3>1, <3>3, CanMeansOwns DEF IInv
  <2>2. QED BY <1>1, <1>4, <2>1, GotoInv
<1>5. ASSUME NEW p \in Posts \ drawn,
             Perform(q, CreatePlan(req[q].viewer, p)), drawn' = drawn \cup {p},
             req[q].op = "createPost"
      PROVE  IInv'
  <2> DEFINE v == req[q].viewer
             r == [[req[q] EXCEPT !.at = "call"] EXCEPT !.plan = CreatePlan(v, p)]
  <2>1. StoresOK' /\ UNCHANGED <<author, everAdmin>>
    BY <1>1, <1>5, SameStores DEF IInv
  <2>2. author[p] = None
    BY <1>5 DEF IInv, StoresOK, StoresType
  <2>3. CreatePlan(v, p) \in Seq(Calls)
    BY <1>2 DEF CreatePlan, Call, Calls
  <2>4. /\ r \in RequestType /\ r.plan = CreatePlan(v, p) /\ r.at = "call"
        /\ r.op = "createPost" /\ r.viewer = v
    BY <1>2, <1>5, <2>3 DEF RequestType
  <2>5. req' = [req EXCEPT ![q] = r]
    BY <1>5 DEF Perform, IInv
  <2> HIDE DEF r
  <2>6. RequestOK(r, author, everAdmin, drawn')
    BY <1>5, <2>2, <2>4 DEF RequestOK, PlanOK, Fresh, PostOps, UserOps
  <2>7. RequestsOK'
    <3> SUFFICES ASSUME NEW x \in Requests, req'[x] # None
                 PROVE  RequestOK(req'[x], author', everAdmin', drawn')
      BY DEF RequestsOK
    <3>1. CASE x = q
      BY <2>1, <2>5, <2>6, <3>1 DEF IInv
    <3>2. CASE x # q
      <4>1. req'[x] = req[x] /\ RequestOK(req[x], author, everAdmin, drawn)
        BY <2>5, <3>2 DEF IInv, RequestsOK
      <4>2. RequestOK(req[x], author, everAdmin, drawn')
        BY <1>5, <4>1, RequestForward DEF Fresh
      <4>3. QED BY <2>1, <4>1, <4>2
    <3>3. QED BY <3>1, <3>2
  <2>8. LateOK'
    BY <1>1, <1>5, <2>1 DEF IInv, LateOK, CallOK, Fresh
  <2>9. ASSUME NEW w \in Users, NEW x \in Posts, Creating(w, x)'
        PROVE  (x = p /\ w = v) \/ (x # p /\ Creating(w, x))
    <3>1. Creating(w, x) => x # p
      BY <1>5, CreatingIsFresh DEF Fresh
    <3>2. CASE Call("CreatePost", w, x) \in late'
      BY <1>1, <3>1, <3>2 DEF Creating
    <3>3. CASE \E y \in Requests : req'[y] # None /\ Creates(req'[y], w, x)
      <4>1. PICK y \in Requests : req'[y] # None /\ Creates(req'[y], w, x)
        BY <3>3
      <4>2. CASE y = q
        <5>1. CreatePlan(w, x) = CreatePlan(v, p)
          BY <2>4, <2>5, <4>1, <4>2 DEF Creates, IInv
        <5>2. QED BY <5>1, PlanDetermines
      <4>3. CASE y # q
        BY <2>5, <3>1, <4>1, <4>3 DEF IInv, Creating
      <4>4. QED BY <4>2, <4>3
    <3>4. QED BY <3>2, <3>3, <2>9 DEF Creating
  <2>10. OneCreator'
    <3> SUFFICES ASSUME NEW x \in Posts, NEW w \in Users, NEW y \in Users,
                        Creating(w, x)', Creating(y, x)'
                 PROVE  w = y
      BY DEF OneCreator
    <3>1. QED BY <2>9 DEF IInv, OneCreator
  <2>11. req' \in [Requests -> RequestType \cup {None}]
    BY <2>4, <2>5 DEF IInv
  <2>12. QED BY <1>1, <2>1, <2>7, <2>8, <2>10, <2>11 DEF IInv
<1>6. QED BY <1>3, <1>4, <1>5 DEF CheckPermission

LEMMA LoadTargetInv ==
  ASSUME IInv, NEW q \in Requests, LoadTarget(q)
  PROVE  IInv'
<1> DEFINE v == req[q].viewer
           x == req[q].target
<1>1. req[q] # None /\ req[q].at = "load" /\ UNCHANGED <<stores, drawn, late, belated>>
  BY DEF LoadTarget
<1>2. RequestOK(req[q], author, everAdmin, drawn) /\ v \in Users /\ req[q].op \in Ops
  BY <1>1, Working DEF RequestType
<1>3. accounts \subseteq Users /\ posts \subseteq Posts
  BY DEF IInv, StoresOK, StoresType
<1>4. CASE x \notin posts \cup accounts
  BY <1>1, <1>4, EndInv DEF LoadTarget
<1>5. CASE x \in posts
  <2>1. x \in Posts /\ Owns(v, x, author, everAdmin)
    BY <1>1, <1>2, <1>3, <1>5, SiteAssumption DEF RequestOK, Ops, PostOps, UserOps
  <2>2. Perform(q, DeletePlan(v, x)) \/ Perform(q, EditPlan(v, x))
    BY <1>3, <1>5, <2>1, SiteAssumption DEF LoadTarget
  <2>3. /\ Settled(Call("PurgeResource", v, x), author, everAdmin)
        /\ Settled(Call("DeletePost", v, x), author, everAdmin)
        /\ Settled(Call("UpdatePost", v, x), author, everAdmin)
    BY <1>2, <2>1 DEF Settled, Call, Calls
  <2>4. CASE Perform(q, DeletePlan(v, x))
    <3> DEFINE plan == DeletePlan(v, x)
    <3>1. plan \in Seq(Calls) /\ plan # <<>>
      BY <2>3 DEF DeletePlan, Settled
    <3>2. \A i \in DOMAIN plan : Settled(plan[i], author, everAdmin)
      BY <2>3 DEF DeletePlan
    <3> HIDE DEF plan
    <3>3. QED BY <1>1, <2>4, <3>1, <3>2, PerformInv DEF plan
  <2>5. CASE Perform(q, EditPlan(v, x))
    <3>1. EditPlan(v, x) \in Seq(Calls) /\ EditPlan(v, x) # <<>>
      BY <2>3 DEF EditPlan, Settled
    <3>2. \A i \in DOMAIN EditPlan(v, x) : Settled(EditPlan(v, x)[i], author, everAdmin)
      BY <2>3 DEF EditPlan
    <3>3. QED BY <1>1, <2>5, <3>1, <3>2, PerformInv
  <2>6. QED BY <2>2, <2>4, <2>5
<1>6. CASE x \in accounts
  <2>1. x \in Users /\ x \notin posts
    BY <1>3, <1>6, SiteAssumption
  <2>2. req[q].op \in UserOps
    BY <1>1, <1>2, <2>1, SiteAssumption DEF RequestOK, Ops, PostOps, UserOps
  <2>3. CASE req[q].op = "setUserRoles"
    <3>1. Goto(q, "held")
      BY <1>6, <2>1, <2>3 DEF LoadTarget
    <3>2. QED BY <1>1, <2>3, <3>1, GotoInv
  <2>4. CASE req[q].op = "deleteUser"
    <3>1. End(q) \/ Perform(q, DeleteUserPlan(x))
      BY <1>6, <2>1, <2>4 DEF LoadTarget
    <3>2. /\ Settled(Call("PurgeSubject", x, None), author, everAdmin)
          /\ Settled(Call("DeleteUser", x, None), author, everAdmin)
      BY <2>1 DEF Settled, Call, Calls
    <3>3. DeleteUserPlan(x) \in Seq(Calls) /\ DeleteUserPlan(x) # <<>>
      BY <3>2 DEF DeleteUserPlan, Settled
    <3>4. \A i \in DOMAIN DeleteUserPlan(x) :
            Settled(DeleteUserPlan(x)[i], author, everAdmin)
      BY <3>2 DEF DeleteUserPlan
    <3>5. CASE End(q)
      BY <1>1, <3>5, EndInv
    <3>6. CASE Perform(q, DeleteUserPlan(x))
      BY <1>1, <3>3, <3>4, <3>6, PerformInv
    <3>7. QED BY <3>1, <3>5, <3>6
  <2>5. QED BY <2>2, <2>3, <2>4 DEF UserOps
<1>7. QED BY <1>4, <1>5, <1>6

\* A change of roles consists of calls about the roles of the account, and
\* takes none away that the form asks for.
RoleChanges(u, requested) ==
  {c \in Calls : /\ c.op \in {"AssignRole", "RevokeRole"}
                 /\ c.user = u
                 /\ c.op = "RevokeRole" => c.arg \notin requested}

LEMMA RolePlanCalls ==
  ASSUME NEW u \in Users, NEW held, NEW requested
  PROVE  RolePlan(u, held, requested) \in Seq(RoleChanges(u, requested))
<1> DEFINE differs(role) == (role \in held) # (role \in requested)
           change(role) ==
             IF role \in Roles /\ differs(role)
             THEN <<Call(IF role \in requested THEN "AssignRole" ELSE "RevokeRole", u, role)>>
             ELSE <<>>
<1>1. ASSUME NEW role
      PROVE  change(role) \in Seq(RoleChanges(u, requested))
  <2> DEFINE op == IF role \in requested THEN "AssignRole" ELSE "RevokeRole"
  <2>1. CASE role \in Roles /\ differs(role)
    <3>1. op \in {"AssignRole", "RevokeRole"} /\ (op = "RevokeRole" => role \notin requested)
      OBVIOUS
    <3> HIDE DEF op, differs
    <3>2. Call(op, u, role) \in RoleChanges(u, requested)
      BY <2>1, <3>1 DEF Call, Calls, RoleChanges
    <3>3. <<Call(op, u, role)>> \in Seq(RoleChanges(u, requested))
      BY <3>2
    <3>4. change(role) = <<Call(op, u, role)>>
      BY <2>1 DEF op
    <3>5. QED BY <3>3, <3>4
  <2>2. CASE ~(role \in Roles /\ differs(role))
    <3> HIDE DEF differs
    <3>1. change(role) = <<>>
      BY <2>2
    <3>2. QED BY <3>1
  <2>3. QED BY <2>1, <2>2
<1>2. RolePlan(u, held, requested)
        = change(RoleOrder[1]) \o change(RoleOrder[2]) \o change(RoleOrder[3])
  BY DEF RolePlan
<1> HIDE DEF change
<1>3. QED BY <1>1, <1>2

LEMMA ReadRolesInv ==
  ASSUME IInv, NEW q \in Requests, NEW requested \in SUBSET Roles, ReadRoles(q, requested)
  PROVE  IInv'
<1> DEFINE u == req[q].target
           plan == RolePlan(u, RolesOf(UserRef(u)), requested)
<1>1. req[q] # None /\ req[q].at = "held" /\ UNCHANGED <<stores, drawn, late, belated>>
  BY DEF ReadRoles
<1>2. u \in Users
  BY <1>1, Working DEF RequestOK, UserOps
<1>3. End(q) \/ (plan # <<>> /\ Perform(q, plan))
  BY DEF ReadRoles
<1>4. plan \in Seq(RoleChanges(u, requested))
  BY <1>2, RolePlanCalls
<1> HIDE DEF plan
<1>5. plan \in Seq(Calls) /\ \A i \in DOMAIN plan : Settled(plan[i], author, everAdmin)
  BY <1>4 DEF Settled, RoleChanges
<1>6. CASE End(q)
  BY <1>1, <1>6, EndInv
<1>7. CASE plan # <<>> /\ Perform(q, plan)
  BY <1>1, <1>5, <1>7, PerformInv
<1>8. QED BY <1>3, <1>6, <1>7

LEMMA CrashInv ==
  ASSUME IInv, NEW q \in Requests, Crash(q)
  PROVE  IInv'
BY EndInv DEF Crash

LEMMA RegisterInv ==
  ASSUME IInv, NEW u \in Users, Register(u)
  PROVE  IInv'
<1>1. /\ UNCHANGED <<subjectRoles, grants, posts, author, touched, everAdmin>>
      /\ UNCHANGED <<req, late, belated>>
      /\ accounts' = accounts \cup {u} /\ drawn' = drawn \cup {u}
  BY DEF Register, history, authzVars
<1>2. StoresOK'
  BY <1>1 DEF IInv, StoresOK, StoresType, AdminsRecorded, GrantsFollowAuthors, OnlyOwnersTouch
<1>3. RequestsStep
  <2>1. \A q \in Requests : req[q] # None => RequestOK(req[q], author, everAdmin, drawn')
    <3> SUFFICES ASSUME NEW q \in Requests, req[q] # None
                 PROVE  RequestOK(req[q], author, everAdmin, drawn')
      OBVIOUS
    <3>1. RequestOK(req[q], author, everAdmin, drawn)
      BY Working
    <3>2. QED BY <1>1, <3>1, RequestForward DEF Fresh
  <2>2. QED BY <1>1, <2>1 DEF IInv, RequestsStep, Creating
<1>4. LateStep
  BY <1>1 DEF IInv, LateOK, LateStep, CallOK, Fresh, Creating
<1>5. QED BY <1>1, <1>2, <1>3, <1>4, StepInv DEF IInv

LEMMA StutterInv ==
  ASSUME IInv, UNCHANGED vars
  PROVE  IInv'
<1>1. UNCHANGED <<stores, drawn, req, late, belated>>
  BY DEF vars, stores, history
<1>2. StoresOK' /\ UNCHANGED <<author, everAdmin>>
  BY <1>1, SameStores DEF IInv
<1>3. RequestsStep /\ LateStep
  BY <1>1, <1>2 DEF IInv, RequestsOK, LateOK, RequestsStep, LateStep, Creating
<1>4. QED BY <1>1, <1>2, <1>3, StepInv DEF IInv

-----------------------------------------------------------------------------
(* The actions in which a call takes effect, or may.                       *)

\* The call is one of those that are pending.
Pending(c) ==
  /\ CallOK(c, author, everAdmin, drawn)
  /\ \A v \in Users, p \in Posts : c = Call("CreatePost", v, p) => Creating(v, p)

\* What it leaves: the stores in order, and everything pending too.
Left ==
  /\ StoresOK'
  /\ everAdmin \subseteq everAdmin'
  /\ \A p \in Posts : author[p] \in Users => author'[p] = author[p]
  /\ \A v \in Users, p \in Posts :
       Creating(v, p) => Fresh(v, p, author', drawn)

LEMMA EffectLeft ==
  ASSUME IInv, NEW c, Pending(c), Effect(c), UNCHANGED drawn
  PROVE  /\ Left
         /\ c.op = "CreatePost" => author'[c.arg] = c.user
<1>1. c \in Calls /\ c.user \in Users /\ StoresOK
  BY CallTypes DEF Pending, CallOK, Settled, IInv
<1>2. \A v \in Users, p \in Posts : Creating(v, p) => Fresh(v, p, author, drawn)
  BY CreatingIsFresh
<1>3. CASE c.op # "CreatePost"
  <2>1. Settled(c, author, everAdmin)
    BY <1>3 DEF Pending, CallOK
  <2>2. StoresOK' /\ author' = author /\ everAdmin \subseteq everAdmin'
    <3>1. CASE AuthzEffect(c)
      BY <1>1, <2>1, <3>1, AuthzKeepsStores DEF AuthzEffect
    <3>2. CASE ContentEffect(c) \/ AuthEffect(c)
      BY <1>1, <2>1, <3>2, ChangeKeepsStores
    <3>3. QED BY <3>1, <3>2 DEF Effect
  <2>3. QED BY <1>2, <1>3, <2>2 DEF Left
<1>4. CASE c.op = "CreatePost"
  <2>1. c.arg \in Posts /\ c = Call("CreatePost", c.user, c.arg)
    BY <1>1, <1>4, CallTypes
  <2>2. Creating(c.user, c.arg) /\ Fresh(c.user, c.arg, author, drawn)
    BY <1>1, <1>2, <2>1 DEF Pending
  <2>3. ContentEffect(c)
    BY <1>4 DEF Effect, AuthzEffect, AuthEffect
  <2>4. StoresOK' /\ author' = [author EXCEPT ![c.arg] = c.user]
    BY <1>1, <1>4, <2>2, <2>3, CreateKeepsStores
  <2>5. UNCHANGED everAdmin
    BY <2>3 DEF ContentEffect
  <2>6. \A p \in Posts : author[p] \in Users => author'[p] = author[p]
    BY <2>1, <2>2, <2>4, SiteAssumption DEF Fresh, StoresOK, StoresType
  <2>7. ASSUME NEW v \in Users, NEW p \in Posts, Creating(v, p)
        PROVE  Fresh(v, p, author', drawn)
    <3>1. CASE p = c.arg
      BY <1>1, <1>2, <2>2, <2>4, <2>7, <3>1 DEF IInv, OneCreator, StoresOK, StoresType, Fresh
    <3>2. CASE p # c.arg
      BY <1>2, <2>4, <2>7, <3>2 DEF Fresh
    <3>3. QED BY <3>1, <3>2
  <2>8. author'[c.arg] = c.user
    BY <1>1, <2>1, <2>4 DEF StoresOK, StoresType
  <2>9. QED BY <2>4, <2>5, <2>6, <2>7, <2>8 DEF Left
<1>5. QED BY <1>3, <1>4

LEMMA NoEffectLeft ==
  ASSUME IInv, NoEffect, UNCHANGED drawn
  PROVE  Left
<1>1. UNCHANGED stores
  BY DEF NoEffect, stores
<1>2. StoresOK' /\ UNCHANGED <<author, everAdmin>>
  BY <1>1, SameStores DEF IInv
<1>3. \A v \in Users, p \in Posts : Creating(v, p) => Fresh(v, p, author, drawn)
  BY CreatingIsFresh
<1>4. QED BY <1>2, <1>3 DEF Left

\* Every request and every late call is in order after it.
LEMMA RequestsLeft ==
  ASSUME IInv, Left, UNCHANGED drawn, NEW q \in Requests, req[q] # None
  PROVE  RequestOK(req[q], author', everAdmin', drawn')
<1>1. RequestOK(req[q], author, everAdmin, drawn) /\ req[q].viewer \in Users
  BY Working
<1>2. \A p \in Posts : Creates(req[q], req[q].viewer, p)
                         => Fresh(req[q].viewer, p, author', drawn')
  BY <1>1 DEF Left, Creating
<1>3. QED BY <1>1, <1>2, RequestForward DEF Left

LEMMA CallsLeft ==
  ASSUME IInv, Left, UNCHANGED drawn, NEW c, Pending(c)
  PROVE  /\ CallOK(c, author', everAdmin', drawn')
         /\ \A v \in Users, p \in Posts : c = Call("CreatePost", v, p) => Creating(v, p)
<1>1. CASE Settled(c, author, everAdmin)
  BY <1>1, SettledForward DEF Left, CallOK, Pending
<1>2. CASE c \in Calls /\ c.op = "CreatePost"
  <2>1. c.user \in Users /\ c.arg \in Posts /\ c = Call("CreatePost", c.user, c.arg)
    BY <1>2, CallTypes
  <2>2. QED BY <1>2, <2>1 DEF Pending, Left, CallOK
<1>3. QED BY <1>1, <1>2 DEF Pending, CallOK

LEMMA LateArePending ==
  ASSUME IInv, NEW c \in late
  PROVE  Pending(c)
BY DEF IInv, LateOK, Pending, Creating

\* One request goes on with r, or ends; calls may be given up on or land.
LEMMA OneRequestLeft ==
  ASSUME IInv, Left, UNCHANGED drawn, NEW q \in Requests, NEW r,
         req' = [req EXCEPT ![q] = r],
         \/ r = None
         \/ /\ RequestOK(r, author', everAdmin', drawn')
            /\ \A v \in Users, p \in Posts : Creates(r, v, p) => Creating(v, p),
         \A c \in late' : Pending(c),
         belated' \subseteq Users \cup Posts
  PROVE  IInv'
<1>1. RequestsStep
  <2>1. req' \in [Requests -> RequestType \cup {None}]
    BY DEF IInv, RequestOK
  <2>2. ASSUME NEW p \in Requests, req'[p] # None
        PROVE  /\ RequestOK(req'[p], author', everAdmin', drawn')
               /\ \A v \in Users, x \in Posts : Creates(req'[p], v, x) => Creating(v, x)
    <3>1. CASE p = q
      BY <2>2, <3>1 DEF IInv
    <3>2. CASE p # q
      <4>1. req'[p] = req[p] /\ req[p] # None
        BY <2>2, <3>2 DEF IInv
      <4>2. RequestOK(req[p], author', everAdmin', drawn')
        BY <4>1, RequestsLeft
      <4>3. QED BY <4>1, <4>2 DEF Creating
    <3>3. QED BY <3>1, <3>2
  <2>3. QED BY <2>1, <2>2 DEF RequestsStep
<1>2. LateStep
  BY CallsLeft DEF LateStep
<1>3. QED BY <1>1, <1>2, StepInv DEF Left

\* The call a request makes next is pending.
LEMMA HeadPending ==
  ASSUME IInv, NEW q \in Requests, req[q] # None, req[q].at = "call"
  PROVE  /\ Pending(Head(req[q].plan))
         /\ req[q].plan \in Seq(Calls) /\ req[q].plan # <<>>
<1>1. /\ RequestOK(req[q], author, everAdmin, drawn)
      /\ req[q].plan \in Seq(Calls) /\ req[q].viewer \in Users
  BY Working DEF RequestType
<1>2. PlanOK(req[q], author, everAdmin, drawn)
  BY <1>1 DEF RequestOK
<1>3. CASE /\ req[q].plan # <<>>
           /\ \A i \in DOMAIN req[q].plan : Settled(req[q].plan[i], author, everAdmin)
  <2>1. 1 \in DOMAIN req[q].plan /\ Head(req[q].plan) = req[q].plan[1]
    BY <1>1, <1>3
  <2>2. Settled(Head(req[q].plan), author, everAdmin)
    BY <1>3, <2>1
  <2>3. QED BY <1>1, <1>3, <2>2 DEF Pending, CallOK, Settled, Call
<1>4. ASSUME NEW p \in Posts, req[q].plan = CreatePlan(req[q].viewer, p),
             Fresh(req[q].viewer, p, author, drawn)
      PROVE  /\ Pending(Head(req[q].plan))
             /\ req[q].plan # <<>>
  <2>1. /\ Head(req[q].plan) = Call("CreatePost", req[q].viewer, p)
        /\ req[q].plan # <<>>
    BY <1>4 DEF CreatePlan
  <2>2. Creating(req[q].viewer, p)
    BY <1>4 DEF Creating, Creates
  <2>3. Call("CreatePost", req[q].viewer, p) \in Calls
    BY <1>1 DEF Call, Calls
  <2>4. QED BY <1>4, <2>1, <2>2, <2>3 DEF Pending, CallOK, Call
<1>5. QED BY <1>1, <1>2, <1>3, <1>4 DEF PlanOK

\* What is left of a plan after its first call.
LEMMA TailOfPlan ==
  ASSUME NEW plan \in Seq(Calls), plan # <<>>, Len(plan) # 1
  PROVE  /\ Tail(plan) \in Seq(Calls) /\ Tail(plan) # <<>>
         /\ 1 \in DOMAIN Tail(plan)
         /\ \A i \in DOMAIN Tail(plan) :
              i + 1 \in DOMAIN plan /\ Tail(plan)[i] = plan[i + 1]
<1>0. Len(plan) \in Nat /\ DOMAIN plan = 1 .. Len(plan) /\ Len(plan) # 0
  BY LenProperties, EmptySeq
<1>1. Len(plan) \in Nat /\ Len(plan) > 1 /\ DOMAIN plan = 1 .. Len(plan)
  BY <1>0
<1>2. Tail(plan) \in Seq(Calls) /\ Len(Tail(plan)) = Len(plan) - 1
  BY <1>1, HeadTailProperties
<1>3. DOMAIN Tail(plan) = 1 .. Len(plan) - 1
  BY <1>2, LenProperties
<1>4. \A i \in 1 .. Len(plan) - 1 : Tail(plan)[i] = plan[i + 1]
  BY <1>1, HeadTailProperties
<1>5. QED BY <1>1, <1>2, <1>3, <1>4

\* The rest of a plan is settled once its first call has taken effect: the
\* author of a post that has just been created is the one it is granted to.
LEMMA CallSucceedsInv ==
  ASSUME IInv, NEW q \in Requests, CallSucceeds(q)
  PROVE  IInv'
<1> DEFINE plan == req[q].plan
           c == Head(plan)
           r == [[req[q] EXCEPT !.at = "call"] EXCEPT !.plan = Tail(plan)]
<1>1. req[q] # None /\ req[q].at = "call" /\ UNCHANGED <<drawn, late, belated>>
  BY DEF CallSucceeds
<1>2. Pending(c) /\ plan \in Seq(Calls) /\ plan # <<>>
  BY <1>1, HeadPending
<1>3. Effect(c)
  BY DEF CallSucceeds
<1>4. Left /\ (c.op = "CreatePost" => author'[c.arg] = c.user)
  <2> HIDE DEF c
  <2> QED BY <1>1, <1>2, <1>3, EffectLeft
<1>5. (\A d \in late' : Pending(d)) /\ belated' \subseteq Users \cup Posts
  BY <1>1, LateArePending DEF IInv
<1>6. CASE Len(plan) = 1
  BY <1>1, <1>4, <1>5, <1>6, OneRequestLeft DEF CallSucceeds, End
<1>7. CASE Len(plan) # 1
  <2>1. req' = [req EXCEPT ![q] = r]
    BY <1>7 DEF CallSucceeds, Perform, IInv
  <2>2. RequestOK(req[q], author', everAdmin', drawn') /\ req[q] \in RequestType
    BY <1>1, <1>4, RequestsLeft, Working
  <2>3. /\ Tail(plan) \in Seq(Calls) /\ Tail(plan) # <<>> /\ 1 \in DOMAIN Tail(plan)
        /\ \A i \in DOMAIN Tail(plan) :
             i + 1 \in DOMAIN plan /\ Tail(plan)[i] = plan[i + 1]
    <3> HIDE DEF plan
    <3> QED BY <1>2, <1>7, TailOfPlan
  <2>4. /\ r \in RequestType /\ r.plan = Tail(plan) /\ r.at = "call"
        /\ r.op = req[q].op /\ r.target = req[q].target /\ r.viewer = req[q].viewer
    <3> DEFINE rest == Tail(plan)
    <3> HIDE DEF rest
    <3>1. rest \in Seq(Calls) /\ r = [[req[q] EXCEPT !.at = "call"] EXCEPT !.plan = rest]
      BY <2>3 DEF rest
    <3> HIDE DEF r
    <3>2. QED BY <2>2, <3>1 DEF RequestType, rest
  <2>5. \A i \in DOMAIN Tail(plan) : Settled(Tail(plan)[i], author', everAdmin')
    <3>1. PlanOK(req[q], author, everAdmin, drawn)
      BY <1>1, Working DEF RequestOK
    <3>2. CASE \A i \in DOMAIN plan : Settled(plan[i], author, everAdmin)
      <4>1. \A i \in DOMAIN plan : Settled(plan[i], author', everAdmin')
        BY <1>4, <3>2, SettledForward DEF Left
      <4>2. QED BY <2>3, <4>1
    <3>3. ASSUME NEW p \in Posts, plan = CreatePlan(req[q].viewer, p)
          PROVE  \A i \in DOMAIN Tail(plan) : Settled(Tail(plan)[i], author', everAdmin')
      <4> DEFINE v == req[q].viewer
      <4>1. v \in Users
        BY <2>2 DEF RequestType
      <4>2. c = Call("CreatePost", v, p) /\ Tail(plan) = <<Call("Grant", v, p)>>
        BY <3>3 DEF CreatePlan
      <4>3. author'[p] = v
        BY <1>4, <4>2 DEF Call
      <4>4. Settled(Call("Grant", v, p), author', everAdmin')
        BY <4>1, <4>3 DEF Settled, Call, Calls
      <4> DEFINE g == Call("Grant", v, p)
      <4> HIDE DEF g
      <4>5. \A i \in DOMAIN <<g>> : <<g>>[i] = g
        OBVIOUS
      <4>6. QED BY <4>2, <4>4, <4>5 DEF g
    <3>4. QED BY <3>1, <3>2, <3>3 DEF PlanOK
  <2> HIDE DEF r
  <2>6. PlanOK(r, author', everAdmin', drawn')
    BY <2>3, <2>4, <2>5 DEF PlanOK
  <2>7. RequestOK(r, author', everAdmin', drawn')
    BY <2>2, <2>4, <2>6 DEF RequestOK
  <2>8. ASSUME NEW v \in Users, NEW p \in Posts, Creates(r, v, p)
        PROVE  FALSE
    <3>1. Tail(plan)[1] = Call("CreatePost", v, p)
      <4> DEFINE x == Call("CreatePost", v, p)
                 g == Call("Grant", v, p)
      <4>1. Tail(plan) = <<x, g>>
        BY <2>4, <2>8 DEF Creates, CreatePlan
      <4> HIDE DEF plan, x, g
      <4>2. <<x, g>>[1] = x
        OBVIOUS
      <4>3. QED BY <4>1, <4>2 DEF x
    <3>2. Settled(Call("CreatePost", v, p), author', everAdmin')
      <4> HIDE DEF plan
      <4> QED BY <2>3, <2>5, <3>1
    <3>3. QED BY <3>2 DEF Settled, Call
  <2>9. QED BY <1>1, <1>4, <1>5, <2>1, <2>7, <2>8, OneRequestLeft
<1>8. QED BY <1>6, <1>7

\* The grant of a new post is tried again with the same plan.
LEMMA CallFailsInv ==
  ASSUME IInv, NEW q \in Requests, CallFails(q)
  PROVE  IInv'
<1> DEFINE c == Head(req[q].plan)
           r == [req[q] EXCEPT !.retried = TRUE]
<1>1. req[q] # None /\ req[q].at = "call" /\ UNCHANGED drawn
  BY DEF CallFails
<1>2. Pending(c) /\ c \in Calls
  BY <1>1, HeadPending
<1>3. Left /\ (\A d \in late' : Pending(d)) /\ belated' \subseteq Users \cup Posts
  <2>1. CASE NoEffect /\ UNCHANGED <<late, belated>>
    BY <1>1, <2>1, NoEffectLeft, LateArePending DEF IInv
  <2>2. CASE Effect(c) /\ UNCHANGED <<late, belated>>
    <3> HIDE DEF c
    <3> QED BY <1>1, <1>2, <2>2, EffectLeft, LateArePending DEF IInv
  <2>3. CASE /\ NoEffect
             /\ late' = late \cup {c}
             /\ belated' = belated \cup ({c.user, c.arg} \cap (Users \cup Posts))
    <3> HIDE DEF c
    <3>1. Left
      BY <1>1, <2>3, NoEffectLeft
    <3>2. QED BY <1>2, <2>3, <3>1, LateArePending DEF IInv
  <2>4. QED BY <2>1, <2>2, <2>3 DEF CallFails
<1>4. CASE End(q)
  BY <1>1, <1>3, <1>4, OneRequestLeft DEF End
<1>5. CASE req' = [req EXCEPT ![q].retried = TRUE]
  <2>1. RequestOK(req[q], author', everAdmin', drawn') /\ req[q] \in RequestType
    BY <1>1, <1>3, RequestsLeft, Working
  <2>2. req' = [req EXCEPT ![q] = r]
    BY <1>5
  <2>3. /\ r \in RequestType /\ r.plan = req[q].plan /\ r.at = req[q].at
        /\ r.op = req[q].op /\ r.target = req[q].target /\ r.viewer = req[q].viewer
    BY <2>1 DEF RequestType
  <2> HIDE DEF r
  <2>4. RequestOK(r, author', everAdmin', drawn')
    BY <2>1, <2>3 DEF RequestOK, PlanOK
  <2>5. \A v \in Users, p \in Posts : Creates(r, v, p) => Creating(v, p)
    BY <1>1, <2>3 DEF Creates, Creating
  <2>6. QED BY <1>1, <1>3, <2>2, <2>4, <2>5, OneRequestLeft
<1>6. QED BY <1>4, <1>5 DEF CallFails

LEMMA LandInv ==
  ASSUME IInv, NEW c \in late, Land(c)
  PROVE  IInv'
<1>1. Effect(c) /\ late' \subseteq late /\ UNCHANGED <<drawn, req, belated>>
  BY DEF Land
<1>2. Left
  BY <1>1, LateArePending, EffectLeft
<1>3. RequestsStep
  BY <1>1, <1>2, RequestsLeft DEF IInv, RequestsStep, Creating
<1>4. LateStep
  BY <1>1, <1>2, LateArePending, CallsLeft DEF LateStep
<1>5. QED BY <1>1, <1>2, <1>3, <1>4, StepInv DEF IInv, Left

-----------------------------------------------------------------------------
LEMMA InitInv == Init => IInv
<1> SUFFICES ASSUME Init
             PROVE  IInv
  OBVIOUS
<1>1. PICK founder \in Users :
        /\ accounts = {founder}
        /\ drawn = {founder}
        /\ subjectRoles = {<<UserRef(founder), Administrator>>}
        /\ everAdmin = {founder}
  BY DEF Init
<1>2. StoresType
  BY <1>1, SiteAssumption DEF Init, StoresType, Administrator
<1>3. AdminsRecorded
  BY <1>1, RefsDiffer DEF AdminsRecorded
<1>4. GrantsFollowAuthors /\ OnlyOwnersTouch /\ RequestsOK /\ LateOK /\ OneCreator
  BY DEF Init, GrantsFollowAuthors, OnlyOwnersTouch, RequestsOK, LateOK, OneCreator, Creating
<1>5. req \in [Requests -> RequestType \cup {None}] /\ belated \subseteq Users \cup Posts
  BY DEF Init
<1>6. QED BY <1>2, <1>3, <1>4, <1>5 DEF IInv, StoresOK

LEMMA NextInv == IInv /\ [Next]_vars => IInv'
<1> SUFFICES ASSUME IInv, [Next]_vars
             PROVE  IInv'
  OBVIOUS
<1>1. ASSUME NEW q \in Requests, NEW v \in Users, Begin(q, "createPost", v, None)
      PROVE  IInv'
  BY <1>1, BeginInv DEF Ops, PostOps, UserOps
<1>2. ASSUME NEW q \in Requests, NEW v \in Users, NEW p \in Posts, NEW op \in PostOps,
             Begin(q, op, v, p)
      PROVE  IInv'
  BY <1>2, BeginInv DEF Ops, PostOps, UserOps
<1>3. ASSUME NEW q \in Requests, NEW v \in Users, NEW u \in Users, NEW op \in UserOps,
             Begin(q, op, v, u)
      PROVE  IInv'
  BY <1>3, BeginInv DEF Ops, PostOps, UserOps
<1>4. ASSUME NEW q \in Requests,
             \/ CheckPermission(q) \/ LoadTarget(q)
             \/ CallSucceeds(q) \/ CallFails(q) \/ Crash(q)
      PROVE  IInv'
  BY <1>4, CheckPermissionInv, LoadTargetInv, CallSucceedsInv, CallFailsInv, CrashInv
<1>5. CASE \E q \in Requests, requested \in SUBSET Roles : ReadRoles(q, requested)
  BY <1>5, ReadRolesInv
<1>6. CASE \E c \in late : Land(c)
  BY <1>6, LandInv
<1>7. CASE \E u \in Users : Register(u)
  BY <1>7, RegisterInv
<1>8. CASE UNCHANGED vars
  BY <1>8, StutterInv
<1>9. QED
  BY <1>1, <1>2, <1>3, <1>4, <1>5, <1>6, <1>7, <1>8 DEF Next, PostOps, UserOps

LEMMA SpecInv == Spec => []IInv
BY InitInv, NextInv, PTL DEF Spec

LEMMA InvTypes == IInv => TypeOK
<1> SUFFICES ASSUME IInv
             PROVE  TypeOK
  OBVIOUS
<1>1. late \subseteq Calls
  BY DEF IInv, LateOK, CallOK, Settled
<1>2. QED BY <1>1 DEF IInv, StoresOK, StoresType, TypeOK

-----------------------------------------------------------------------------
(* Theorems.                                                               *)

\* The services' tables, the requests and the calls under way keep their types
\* (Site, TypeOK).
THEOREM TypeCorrect == Spec => []TypeOK
BY SpecInv, InvTypes, PTL

\* Only its author, or somebody who has been an administrator, ever changes or
\* deletes a post, whatever call failed, was tried again or took effect late,
\* and however the requests interleave (admin_posts.go:64-67).
THEOREM OwnersTouch == Spec => []OnlyOwnersTouch
<1>1. IInv => OnlyOwnersTouch
  BY DEF IInv, StoresOK
<1>2. QED BY <1>1, SpecInv, PTL

\* Nobody is ever given the ownership of another's post: a grant over a post
\* is its author's (admin_posts.go:95-115).
THEOREM GrantsAreAuthors == Spec => []GrantsFollowAuthors
<1>1. IInv => GrantsFollowAuthors
  BY DEF IInv, StoresOK
<1>2. QED BY <1>1, SpecInv, PTL
=============================================================================

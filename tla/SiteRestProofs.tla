--------------------------- MODULE SiteRestProofs ----------------------------
(***************************************************************************)
(* More proofs about Site, for any accounts, posts and roles in use.  With *)
(* one request at a time, under every fault: nothing is held over what is  *)
(* gone, and somebody can administer the site.  With any requests, while   *)
(* no call fails: every post is in the hands of its author.                *)
(*                                                                         *)
(* Each invariant says what must hold wherever a request may stop, and     *)
(* what its plan still has to do.                                          *)
(***************************************************************************)
EXTENDS SiteProofs

RoleCalls == {"AssignRole", "RevokeRole"}

PostCalls == {"CreatePost", "Grant", "UpdatePost", "DeletePost", "PurgeResource"}

Calling(q) == req[q] # None /\ req[q].at = "call"

-----------------------------------------------------------------------------
(* What a step does to a request.                                          *)

\* Only the request q goes on, for the same visitor and the same target.
Moved(q, at, plan) ==
  /\ req[q] # None /\ req'[q] # None
  /\ req'[q].viewer = req[q].viewer
  /\ req'[q].op = req[q].op
  /\ req'[q].target = req[q].target
  /\ req'[q].at = at
  /\ req'[q].plan = plan
  /\ \A p \in Requests \ {q} : req'[p] = req[p]

Ended(q) ==
  /\ req'[q] = None
  /\ \A p \in Requests \ {q} : req'[p] = req[p]

LEMMA EndEnds ==
  ASSUME IInv, NEW q \in Requests, End(q)
  PROVE  Ended(q)
BY DEF IInv, End, Ended

LEMMA GotoMoves ==
  ASSUME IInv, NEW q \in Requests, req[q] # None, NEW at \in {"load", "held"}, Goto(q, at)
  PROVE  Moved(q, at, req[q].plan)
<1> DEFINE r == [req[q] EXCEPT !.at = at]
<1>1. req[q] \in RequestType
  BY Working
<1>2. /\ r \in RequestType /\ r.viewer = req[q].viewer /\ r.op = req[q].op
      /\ r.target = req[q].target /\ r.at = at /\ r.plan = req[q].plan
  BY <1>1 DEF RequestType
<1>3. req' = [req EXCEPT ![q] = r]
  BY DEF Goto
<1> HIDE DEF r
<1>4. QED BY <1>2, <1>3, NoneIsNoRequest DEF Moved, IInv

LEMMA PerformMoves ==
  ASSUME IInv, NEW q \in Requests, req[q] # None, NEW plan \in Seq(Calls), Perform(q, plan)
  PROVE  Moved(q, "call", plan)
<1> DEFINE r == [[req[q] EXCEPT !.at = "call"] EXCEPT !.plan = plan]
<1>1. req[q] \in RequestType
  BY Working
<1>2. /\ r \in RequestType /\ r.viewer = req[q].viewer /\ r.op = req[q].op
      /\ r.target = req[q].target /\ r.at = "call" /\ r.plan = plan
  BY <1>1 DEF RequestType
<1>3. req' = [req EXCEPT ![q] = r]
  BY DEF Perform, IInv
<1> HIDE DEF r
<1>4. QED BY <1>2, <1>3, NoneIsNoRequest DEF Moved, IInv

LEMMA PlanTypes ==
  ASSUME NEW v \in Users, NEW p \in Posts
  PROVE  /\ CreatePlan(v, p) \in Seq(Calls)
         /\ DeletePlan(v, p) \in Seq(Calls)
         /\ EditPlan(v, p) \in Seq(Calls)
         /\ DeleteUserPlan(v) \in Seq(Calls)
BY DEF CreatePlan, DeletePlan, EditPlan, DeleteUserPlan, Call, Calls

\* How a request goes on before its calls.
Advance(q) ==
  \/ CheckPermission(q)
  \/ LoadTarget(q)
  \/ \E requested \in SUBSET Roles : ReadRoles(q, requested)
  \/ Crash(q)

Asked(q, requested) == RolePlan(req[q].target, RolesOf(UserRef(req[q].target)), requested)

AdvancedTo(q) ==
  \/ Ended(q)
  \/ MayProceed(q) /\ Moved(q, "load", req[q].plan)
  \/ /\ req[q].at = "load" /\ req[q].op = "setUserRoles"
     /\ req[q].target \in accounts
     /\ Moved(q, "held", req[q].plan)
  \/ \E p \in Posts : Moved(q, "call", CreatePlan(req[q].viewer, p))
  \/ \E p \in Posts : Moved(q, "call", DeletePlan(req[q].viewer, p))
  \/ \E p \in Posts : Moved(q, "call", EditPlan(req[q].viewer, p))
  \/ /\ req[q].at = "load" /\ req[q].op = "deleteUser"
     /\ req[q].target \in accounts \ {req[q].viewer}
     /\ Moved(q, "call", DeleteUserPlan(req[q].target))
  \/ /\ req[q].at = "held"
     /\ \E requested \in SUBSET Roles :
          /\ ~Refused(req[q].viewer, req[q].target, RolesOf(UserRef(req[q].target)), requested)
          /\ Asked(q, requested) # <<>>
          /\ Moved(q, "call", Asked(q, requested))

LEMMA AdvanceSteps ==
  ASSUME IInv, NEW q \in Requests, Advance(q)
  PROVE  /\ UNCHANGED <<stores, late, belated>> /\ drawn \subseteq drawn'
         /\ req[q] # None
         /\ AdvancedTo(q)
<1>1. /\ UNCHANGED <<stores, late, belated>> /\ drawn \subseteq drawn'
      /\ req[q] # None
  BY DEF Advance, CheckPermission, LoadTarget, ReadRoles, Crash
<1>2. /\ RequestOK(req[q], author, everAdmin, drawn)
      /\ req[q] \in RequestType /\ req[q].viewer \in Users /\ req[q].op \in Ops
  BY <1>1, Working DEF RequestType
<1>3. accounts \subseteq Users /\ posts \subseteq Posts
  BY DEF IInv, StoresOK, StoresType
<1>4. CASE CheckPermission(q)
  <2>1. CASE End(q)
    BY <1>1, <2>1, EndEnds DEF AdvancedTo
  <2>2. CASE MayProceed(q) /\ Goto(q, "load")
    BY <1>1, <2>2, GotoMoves DEF AdvancedTo
  <2>3. CASE \E p \in Posts : Perform(q, CreatePlan(req[q].viewer, p))
    BY <1>1, <1>2, <2>3, PerformMoves, PlanTypes DEF AdvancedTo
  <2>4. QED BY <1>4, <2>1, <2>2, <2>3 DEF CheckPermission
<1>5. CASE LoadTarget(q)
  <2> DEFINE v == req[q].viewer
             x == req[q].target
  <2>1. CASE x \notin posts \cup accounts
    BY <1>1, <1>5, <2>1, EndEnds DEF LoadTarget, AdvancedTo
  <2>2. CASE x \in posts
    <3>1. x \in Posts
      BY <1>3, <2>2
    <3>2. Perform(q, DeletePlan(v, x)) \/ Perform(q, EditPlan(v, x))
      BY <1>3, <1>5, <2>2, SiteAssumption DEF LoadTarget
    <3>3. QED BY <1>1, <1>2, <3>1, <3>2, PerformMoves, PlanTypes DEF AdvancedTo
  <2>3. CASE x \in accounts
    <3>1. x \in Users /\ x \notin posts /\ req[q].at = "load"
      BY <1>3, <1>5, <2>3, SiteAssumption DEF LoadTarget
    <3>2. req[q].op \in UserOps
      BY <1>2, <3>1, SiteAssumption DEF RequestOK, Ops, PostOps, UserOps
    <3>3. CASE req[q].op = "setUserRoles"
      <4>1. Goto(q, "held")
        BY <1>5, <2>3, <3>1, <3>3 DEF LoadTarget
      <4>2. QED BY <1>1, <2>3, <3>1, <3>3, <4>1, GotoMoves DEF AdvancedTo
    <3>4. CASE req[q].op = "deleteUser"
      <4>1. IF x = v THEN End(q) ELSE Perform(q, DeleteUserPlan(x))
        BY <1>5, <2>3, <3>1, <3>4 DEF LoadTarget
      <4>2. CASE End(q)
        BY <1>1, <4>2, EndEnds DEF AdvancedTo
      <4>3. CASE x # v /\ Perform(q, DeleteUserPlan(x))
        <5>1. DeleteUserPlan(x) \in Seq(Calls)
          BY <3>1 DEF DeleteUserPlan, Call, Calls
        <5>2. QED BY <1>1, <2>3, <3>1, <3>4, <4>3, <5>1, PerformMoves DEF AdvancedTo
      <4>4. QED BY <4>1, <4>2, <4>3
    <3>5. QED BY <3>2, <3>3, <3>4 DEF UserOps
  <2>4. QED BY <2>1, <2>2, <2>3
<1>6. ASSUME NEW requested \in SUBSET Roles, ReadRoles(q, requested)
      PROVE  AdvancedTo(q)
  <2> DEFINE plan == Asked(q, requested)
  <2>1. req[q].at = "held" /\ req[q].target \in Users
    BY <1>2, <1>6 DEF ReadRoles, RequestOK, UserOps
  <2>2. plan \in Seq(RoleChanges(req[q].target, requested))
    BY <2>1, RolePlanCalls DEF Asked
  <2>3. plan \in Seq(Calls)
    <3> HIDE DEF plan
    <3> QED BY <2>2 DEF RoleChanges
  <2>4. \/ End(q)
        \/ /\ ~Refused(req[q].viewer, req[q].target, RolesOf(UserRef(req[q].target)), requested)
           /\ plan # <<>>
           /\ Perform(q, plan)
    BY <1>6 DEF ReadRoles, Asked
  <2>5. CASE End(q)
    BY <2>5, EndEnds DEF AdvancedTo
  <2>6. CASE ~End(q)
    <3>1. Moved(q, "call", plan)
      <4> HIDE DEF plan
      <4> QED BY <1>1, <2>3, <2>4, <2>6, PerformMoves
    <3>2. QED BY <2>1, <2>4, <2>6, <3>1 DEF AdvancedTo
  <2>7. QED BY <2>5, <2>6
<1>7. CASE Crash(q)
  BY <1>7, EndEnds DEF Crash, AdvancedTo
<1>8. QED BY <1>1, <1>4, <1>5, <1>6, <1>7 DEF Advance

\* What a call does to the tables.
tables == <<subjectRoles, grants, accounts, posts, author>>

LEMMA EffectIs ==
  ASSUME NEW c \in Calls, Effect(c)
  PROVE  /\ c.op = "CreatePost" =>
              /\ posts' = posts \cup {c.arg}
              /\ author' = [author EXCEPT ![c.arg] = c.user]
              /\ UNCHANGED <<subjectRoles, grants, accounts>>
         /\ c.op = "Grant" =>
              /\ grants' = grants \cup
                   {<<UserRef(c.user), a, PostRef(c.arg)>> : a \in ownershipActions}
              /\ UNCHANGED <<subjectRoles, accounts, posts, author>>
         /\ c.op = "UpdatePost" => UNCHANGED tables
         /\ c.op = "DeletePost" =>
              /\ posts' = posts \ {c.arg}
              /\ UNCHANGED <<subjectRoles, grants, accounts, author>>
         /\ c.op = "PurgeResource" =>
              /\ grants' = {g \in grants : g[3] # PostRef(c.arg)}
              /\ UNCHANGED <<subjectRoles, accounts, posts, author>>
         /\ c.op = "AssignRole" =>
              /\ subjectRoles' = subjectRoles \cup {<<UserRef(c.user), c.arg>>}
              /\ UNCHANGED <<grants, accounts, posts, author>>
         /\ c.op = "RevokeRole" =>
              /\ subjectRoles' = subjectRoles \ {<<UserRef(c.user), c.arg>>}
              /\ UNCHANGED <<grants, accounts, posts, author>>
         /\ c.op = "PurgeSubject" =>
              /\ grants' = {g \in grants : g[1] # UserRef(c.user)}
              /\ subjectRoles' = {x \in subjectRoles : x[1] # UserRef(c.user)}
              /\ UNCHANGED <<accounts, posts, author>>
         /\ c.op = "DeleteUser" =>
              /\ accounts' = accounts \ {c.user}
              /\ UNCHANGED <<subjectRoles, grants, posts, author>>
<1>1. CASE AuthzEffect(c)
  BY <1>1 DEF AuthzEffect, Grant, PurgeResource, AssignRole, RevokeRole, PurgeSubject
<1>2. CASE ContentEffect(c)
  BY <1>2 DEF ContentEffect, authzVars, tables
<1>3. CASE AuthEffect(c)
  BY <1>3 DEF AuthEffect, authzVars
<1>4. QED BY <1>1, <1>2, <1>3 DEF Effect

LEMMA CallOps ==
  ASSUME NEW c \in Calls
  PROVE  c.op \in PostCalls \cup RoleCalls \cup {"PurgeSubject", "DeleteUser"}
BY DEF Calls, PostCalls, RoleCalls

\* A call of the plan is made: it has succeeded, or failed, before or after its
\* effect, or it is still under way.
LEMMA SuccessSteps ==
  ASSUME IInv, NEW q \in Requests, CallSucceeds(q)
  PROVE  /\ Calling(q) /\ UNCHANGED <<drawn, late, belated>>
         /\ req[q].plan \in Seq(Calls) /\ req[q].plan # <<>> /\ Head(req[q].plan) \in Calls
         /\ Effect(Head(req[q].plan))
         /\ \/ Len(req[q].plan) = 1 /\ Ended(q)
            \/ Len(req[q].plan) # 1 /\ Moved(q, "call", Tail(req[q].plan))
<1> DEFINE plan == req[q].plan
<1>1. /\ Calling(q) /\ UNCHANGED <<drawn, late, belated>> /\ Effect(Head(plan))
      /\ IF Len(plan) = 1 THEN End(q) ELSE Perform(q, Tail(plan))
  BY DEF CallSucceeds, Calling
<1>2. plan \in Seq(Calls) /\ plan # <<>>
  BY <1>1, HeadPending DEF Calling
<1> HIDE DEF plan
<1>3. Head(plan) \in Calls
  BY <1>2
<1>4. CASE Len(plan) = 1
  BY <1>1, <1>2, <1>3, <1>4, EndEnds DEF plan
<1>5. CASE Len(plan) # 1
  <2>1. Tail(plan) \in Seq(Calls)
    BY <1>2, <1>5, TailOfPlan
  <2>2. Moved(q, "call", Tail(plan))
    BY <1>1, <1>5, <2>1, PerformMoves DEF Calling
  <2>3. QED BY <1>1, <1>2, <1>3, <1>5, <2>2 DEF plan
<1>6. QED BY <1>4, <1>5

LEMMA FailureSteps ==
  ASSUME IInv, NEW q \in Requests, CallFails(q)
  PROVE  /\ Faults /\ Calling(q) /\ UNCHANGED drawn
         /\ req[q].plan \in Seq(Calls) /\ req[q].plan # <<>> /\ Head(req[q].plan) \in Calls
         /\ LET c == Head(req[q].plan)
            IN \/ UNCHANGED tables /\ UNCHANGED <<late, belated>>
               \/ Effect(c) /\ UNCHANGED <<late, belated>>
               \/ /\ UNCHANGED tables
                  /\ late' = late \cup {c}
                  /\ belated' = belated \cup ({c.user, c.arg} \cap (Users \cup Posts))
         /\ \/ Ended(q)
            \/ Head(req[q].plan).op = "Grant" /\ Moved(q, "call", req[q].plan)
<1> DEFINE plan == req[q].plan
           r == [req[q] EXCEPT !.retried = TRUE]
<1>1. Faults /\ Calling(q) /\ UNCHANGED drawn
  BY DEF CallFails, Calling
<1>2. plan \in Seq(Calls) /\ plan # <<>> /\ req[q] \in RequestType
  BY <1>1, HeadPending, Working DEF Calling
<1>3. Head(plan) \in Calls
  <2> HIDE DEF plan
  <2> QED BY <1>2
<1>4. \/ UNCHANGED tables /\ UNCHANGED <<late, belated>>
      \/ Effect(Head(plan)) /\ UNCHANGED <<late, belated>>
      \/ /\ UNCHANGED tables
         /\ late' = late \cup {Head(plan)}
         /\ belated' = belated \cup ({Head(plan).user, Head(plan).arg} \cap (Users \cup Posts))
  BY DEF CallFails, NoEffect, authzVars, tables
<1>5. \/ End(q)
      \/ Head(plan).op = "Grant" /\ req' = [req EXCEPT ![q] = r]
  BY DEF CallFails
<1>6. CASE End(q)
  BY <1>1, <1>2, <1>3, <1>4, <1>6, EndEnds
<1>7. CASE Head(plan).op = "Grant" /\ req' = [req EXCEPT ![q] = r]
  <2>1. /\ r \in RequestType /\ r.viewer = req[q].viewer /\ r.op = req[q].op
        /\ r.target = req[q].target /\ r.at = req[q].at /\ r.plan = req[q].plan
    BY <1>2 DEF RequestType
  <2> HIDE DEF r
  <2>2. Moved(q, "call", req[q].plan)
    BY <1>1, <1>7, <2>1, NoneIsNoRequest DEF Moved, IInv, Calling
  <2>3. QED BY <1>1, <1>2, <1>3, <1>4, <1>7, <2>2
<1>8. QED BY <1>5, <1>6, <1>7

\* The other steps leave the tables alone, but for a call that lands and an
\* account that is made.
LEMMA Steps ==
  ASSUME [Next]_vars
  PROVE  \/ \E q \in Requests, op \in Ops, v \in Users, x \in Users \cup Posts \cup {None} :
              Begin(q, op, v, x)
         \/ \E q \in Requests : Advance(q)
         \/ \E q \in Requests : CallSucceeds(q)
         \/ \E q \in Requests : CallFails(q)
         \/ \E c \in late : Land(c)
         \/ \E u \in Users : Register(u)
         \/ UNCHANGED vars
BY Zenon DEF Next, Advance, Ops

LEMMA BeginIs ==
  ASSUME IInv, NEW q \in Requests, NEW op, NEW v, NEW x, Begin(q, op, v, x)
  PROVE  /\ UNCHANGED <<stores, drawn, late, belated>> /\ v \in accounts
         /\ req[q] = None
         /\ req'[q].viewer = v /\ req'[q].at = "can"
         /\ \A p \in Requests \ {q} : req'[p] = req[p]
BY DEF Begin, IInv

LEMMA RegisterIs ==
  ASSUME NEW u \in Users, Register(u)
  PROVE  /\ UNCHANGED <<subjectRoles, grants, posts, author, req, late, belated>>
         /\ accounts' = accounts \cup {u} /\ drawn' = drawn \cup {u} /\ u \notin drawn
BY DEF Register, authzVars, history

-----------------------------------------------------------------------------
(* One request, and an administrator.                                      *)

IsAdmin(v) == <<UserRef(v), Administrator>> \in subjectRoles

\* A call that leaves v its account and its administrator role.
Spares(c, v) ==
  /\ c.op \in {"PurgeSubject", "DeleteUser"} => c.user # v
  /\ c.op = "RevokeRole" => c.user # v \/ c.arg # Administrator

InCharge(q) ==
  /\ req[q].viewer \in accounts
  /\ req[q].at \in {"load", "held"} /\ req[q].op \in UserOps => IsAdmin(req[q].viewer)
  /\ req[q].at = "call" =>
       /\ \A i \in DOMAIN req[q].plan : Spares(req[q].plan[i], req[q].viewer)
       /\ \/ IsAdmin(req[q].viewer)
          \/ \A i \in DOMAIN req[q].plan : req[q].plan[i].op \in PostCalls

AdminInv ==
  belated = {} =>
    /\ late = {}
    /\ \E u \in accounts : IsAdmin(u)
    /\ \A q \in Requests : req[q] # None => InCharge(q)

\* Only an administrator assigns roles or deletes accounts: no grant and no
\* other role allows it.
LEMMA CanMeansAdmin ==
  ASSUME StoresOK, NEW v \in Users, NEW x,
         NEW action \in {RoleAssign, UserAction("delete")},
         Can(UserRef(v), action, x)
  PROVE  IsAdmin(v)
<1>1. PICK pattern \in SubjectPatterns(UserRef(v)) : Matches(pattern[1], action)
  BY DEF Can
<1>2. \A verb : action # PostAction(verb)
  BY DEF RoleAssign, UserAction, PostAction
<1>3. CASE \E role \in RolesOf(UserRef(v)) : pattern \in RolePermissions[role]
  <2>1. PICK role \in RolesOf(UserRef(v)) : pattern \in RolePermissions[role]
    BY <1>3
  <2>2. role \in {"admin", "author", "reader"}
    BY RolesAssumption DEF RolesOf, RolePermissions
  <2>3. role # "author"
    <3> SUFFICES ASSUME role = "author"
                 PROVE  FALSE
      OBVIOUS
    <3>1. pattern[1] = <<"post", "create">>
      BY <2>1 DEF RolePermissions, PostAction
    <3>2. action = <<"post", "create">>
      BY <1>1, <3>1, NoWildcardTwo DEF Wildcard
    <3>3. QED BY <1>2, <3>2 DEF PostAction
  <2>4. role # "reader"
    BY <2>1 DEF RolePermissions
  <2>5. QED BY <2>2, <2>3, <2>4 DEF RolesOf, IsAdmin, Administrator
<1>4. CASE \E g \in grants : g[1] = UserRef(v) /\ pattern = <<g[2], g[3]>>
  <2>1. PICK g \in grants : pattern = <<g[2], g[3]>>
    BY <1>4
  <2>2. PICK verb \in {"read", "update", "delete", "publish"} : pattern[1] = PostAction(verb)
    BY <2>1 DEF StoresOK, StoresType, ownershipActions
  <2>3. action = PostAction(verb)
    BY <1>1, <2>2, NoWildcardTwo DEF Wildcard, PostAction
  <2>4. QED BY <1>2, <2>3
<1>5. QED BY <1>1, <1>3, <1>4, PatternOrigin, Zenon

LEMMA SparedStays ==
  ASSUME NEW c \in Calls, Effect(c), NEW v \in accounts, Spares(c, v)
  PROVE  v \in accounts' /\ (IsAdmin(v) => IsAdmin(v)')
<1>1. c.op \in PostCalls \cup RoleCalls \cup {"PurgeSubject", "DeleteUser"}
  BY CallOps
<1>2. CASE c.op \in PostCalls
  BY <1>2, EffectIs DEF PostCalls, IsAdmin, tables
<1>3. CASE c.op = "AssignRole"
  BY <1>3, EffectIs DEF IsAdmin
<1>4. CASE c.op = "RevokeRole"
  <2>1. <<UserRef(c.user), c.arg>> # <<UserRef(v), Administrator>>
    BY <1>4, RefsDiffer DEF Spares
  <2>2. QED BY <1>4, <2>1, EffectIs DEF IsAdmin
<1>5. CASE c.op = "PurgeSubject"
  <2>1. UserRef(v) # UserRef(c.user)
    BY <1>5, RefsDiffer DEF Spares
  <2>2. QED BY <1>5, <2>1, EffectIs DEF IsAdmin
<1>6. CASE c.op = "DeleteUser"
  BY <1>6, EffectIs DEF IsAdmin, Spares
<1>7. QED BY <1>1, <1>2, <1>3, <1>4, <1>5, <1>6 DEF RoleCalls

LEMMA PostCallsSpareAll ==
  ASSUME NEW c \in Calls, Effect(c), c.op \in PostCalls
  PROVE  UNCHANGED <<accounts, subjectRoles>>
BY EffectIs DEF PostCalls, tables

\* The plans a request can begin, by what they spare.
LEMMA PostPlansSpare ==
  ASSUME NEW v, NEW w, NEW p, NEW plan \in {CreatePlan(w, p), DeletePlan(w, p), EditPlan(w, p)}
  PROVE  \A i \in DOMAIN plan : plan[i].op \in PostCalls /\ Spares(plan[i], v)
BY DEF CreatePlan, DeletePlan, EditPlan, Call, PostCalls, Spares

LEMMA DeleteUserPlanSpares ==
  ASSUME NEW v, NEW u, u # v
  PROVE  \A i \in DOMAIN DeleteUserPlan(u) : Spares(DeleteUserPlan(u)[i], v)
BY DEF DeleteUserPlan, Call, Spares

\* Nobody takes away their own administrator role.
LEMMA RolePlanSpares ==
  ASSUME NEW v \in Users, NEW u \in Users, NEW requested \in SUBSET Roles, IsAdmin(v),
         ~Refused(v, u, RolesOf(UserRef(u)), requested)
  PROVE  LET plan == RolePlan(u, RolesOf(UserRef(u)), requested)
         IN  \A i \in DOMAIN plan : Spares(plan[i], v)
<1> DEFINE plan == RolePlan(u, RolesOf(UserRef(u)), requested)
<1>1. plan \in Seq(RoleChanges(u, requested))
  BY RolePlanCalls
<1>2. u = v => Administrator \in requested
  BY SiteAssumption DEF Refused, RolesOf, IsAdmin, Administrator
<1> HIDE DEF plan
<1>3. \A i \in DOMAIN plan : plan[i] \in RoleChanges(u, requested)
  BY <1>1
<1>4. \A i \in DOMAIN plan : Spares(plan[i], v)
  BY <1>2, <1>3 DEF RoleChanges, Spares
<1>5. QED BY <1>4 DEF plan

LEMMA InitAdmin == Init => AdminInv
<1> SUFFICES ASSUME Init PROVE AdminInv
  OBVIOUS
<1>1. \E u \in accounts : IsAdmin(u)
  BY DEF Init, IsAdmin
<1>2. QED BY <1>1 DEF Init, AdminInv

\* One request goes on while accounts and roles stay.
LEMMA AdminStays ==
  ASSUME AdminInv, UNCHANGED <<accounts, subjectRoles, late, belated>>,
         belated = {} =>
           \A q \in Requests : req'[q] # None => InCharge(q)' \/ req'[q] = req[q]
  PROVE  AdminInv'
<1> SUFFICES ASSUME belated = {}
             PROVE  AdminInv'
  BY DEF AdminInv
<1>1. late' = {} /\ \E u \in accounts' : IsAdmin(u)'
  BY DEF AdminInv, IsAdmin
<1>2. ASSUME NEW q \in Requests, req'[q] # None
      PROVE  InCharge(q)'
  <2>1. CASE req'[q] = req[q]
    BY <1>2, <2>1 DEF AdminInv, InCharge, IsAdmin
  <2>2. QED BY <1>2, <2>1
<1>3. QED BY <1>1, <1>2 DEF AdminInv

LEMMA AdminAdvance ==
  ASSUME IInv, AdminInv, NEW q \in Requests, Advance(q)
  PROVE  AdminInv'
<1> DEFINE v == req[q].viewer
<1>1. /\ UNCHANGED <<stores, late, belated>> /\ req[q] # None
      /\ AdvancedTo(q)
  BY AdvanceSteps
<1>2. UNCHANGED <<accounts, subjectRoles, late, belated>>
  BY <1>1 DEF stores, authzVars
<1>3. v \in Users /\ RequestOK(req[q], author, everAdmin, drawn)
  BY <1>1, Working
<1>4. ASSUME belated = {}, req'[q] # None
      PROVE  InCharge(q)'
  <2>1. InCharge(q)
    BY <1>1, <1>4 DEF AdminInv
  <2>2. ASSUME NEW at, NEW plan, Moved(q, at, plan),
               at \in {"load", "held"} /\ req[q].op \in UserOps => IsAdmin(v),
               at = "call" => /\ \A i \in DOMAIN plan : Spares(plan[i], v)
                              /\ IsAdmin(v) \/ \A i \in DOMAIN plan : plan[i].op \in PostCalls
        PROVE  InCharge(q)'
    BY <1>2, <2>1, <2>2 DEF Moved, InCharge, IsAdmin
  <2>3. ~Ended(q)
    BY <1>4 DEF Ended
  <2>4. CASE MayProceed(q) /\ Moved(q, "load", req[q].plan)
    <3>1. ASSUME req[q].op \in UserOps
          PROVE  IsAdmin(v)
      <4>1. \/ Can(UserRef(v), RoleAssign, UserRef(req[q].target))
            \/ Can(UserRef(v), UserAction("delete"), UserRef(req[q].target))
        BY <2>4, <3>1 DEF MayProceed, Required, UserOps
      <4>2. QED BY <1>3, <4>1, CanMeansAdmin DEF IInv
    <3>2. QED BY <2>2, <2>4, <3>1
  <2>5. CASE req[q].at = "load" /\ req[q].op = "setUserRoles" /\ Moved(q, "held", req[q].plan)
    BY <2>1, <2>2, <2>5 DEF InCharge
  <2>6. ASSUME NEW p \in Posts,
               NEW plan \in {CreatePlan(v, p), DeletePlan(v, p), EditPlan(v, p)},
               Moved(q, "call", plan)
        PROVE  InCharge(q)'
    <3>1. \A i \in DOMAIN plan : plan[i].op \in PostCalls /\ Spares(plan[i], v)
      BY PostPlansSpare
    <3> HIDE DEF v
    <3>2. QED BY <2>2, <2>6, <3>1
  <2>7. CASE /\ req[q].at = "load" /\ req[q].op = "deleteUser"
             /\ req[q].target \in accounts \ {v}
             /\ Moved(q, "call", DeleteUserPlan(req[q].target))
    BY <2>1, <2>2, <2>7, DeleteUserPlanSpares DEF InCharge, UserOps
  <2>8. ASSUME req[q].at = "held", NEW requested \in SUBSET Roles,
               ~Refused(v, req[q].target, RolesOf(UserRef(req[q].target)), requested),
               Moved(q, "call", Asked(q, requested))
        PROVE  InCharge(q)'
    <3>1. req[q].op = "setUserRoles" /\ req[q].target \in Users
      BY <1>3, <2>8 DEF RequestOK, UserOps
    <3>2. IsAdmin(v)
      BY <2>1, <2>8, <3>1 DEF InCharge, UserOps
    <3>3. \A i \in DOMAIN Asked(q, requested) : Spares(Asked(q, requested)[i], v)
      BY <1>3, <2>8, <3>1, <3>2, RolePlanSpares DEF Asked
    <3>4. QED BY <2>2, <2>8, <3>2, <3>3
  <2>9. QED BY <1>1, <2>3, <2>4, <2>5, <2>6, <2>7, <2>8 DEF AdvancedTo
<1>5. \A p \in Requests : p = q \/ req'[p] = req[p]
  BY <1>1 DEF AdvancedTo, Moved, Ended
<1>6. QED BY <1>2, <1>4, <1>5, AdminStays

\* The only request makes a call, whatever comes of it, or has tried it in
\* vain, and goes on with calls of its plan.
LEMMA AdminCall ==
  ASSUME IInv, AdminInv, NEW q \in Requests, Requests = {q}, Calling(q),
         req[q].plan \in Seq(Calls), req[q].plan # <<>>,
         Effect(Head(req[q].plan)) \/ UNCHANGED tables, UNCHANGED <<late, belated>>,
         \/ Ended(q)
         \/ \E rest :
              /\ Moved(q, "call", rest)
              /\ \A i \in DOMAIN rest : \E j \in DOMAIN req[q].plan : rest[i] = req[q].plan[j]
  PROVE  AdminInv'
<1> DEFINE plan == req[q].plan
<1> SUFFICES ASSUME belated = {}
             PROVE  AdminInv'
  BY DEF AdminInv
<1>1. late = {} /\ (\E u \in accounts : IsAdmin(u)) /\ InCharge(q)
  BY DEF AdminInv, Calling
<1>2. PICK v \in accounts :
        /\ v = req[q].viewer
        /\ \A i \in DOMAIN plan : Spares(plan[i], v)
        /\ IsAdmin(v) \/ \A i \in DOMAIN plan : plan[i].op \in PostCalls
  BY <1>1 DEF InCharge, Calling
<1>3. 1 \in DOMAIN plan /\ Head(plan) = plan[1] /\ Head(plan) \in Calls
  <2> HIDE DEF plan
  <2>1. plan \in Seq(Calls) /\ plan # <<>>
    BY DEF plan
  <2>2. QED BY <2>1
<1>4. v \in accounts' /\ (IsAdmin(v) => IsAdmin(v)')
  <2>1. CASE Effect(Head(plan))
    <3> HIDE DEF plan
    <3> QED BY <1>2, <1>3, <2>1, SparedStays
  <2>2. CASE UNCHANGED tables
    BY <1>2, <2>2 DEF tables, IsAdmin
  <2>3. QED BY <2>1, <2>2
<1>5. \E u \in accounts' : IsAdmin(u)'
  <2>1. CASE IsAdmin(v)
    BY <1>4, <2>1
  <2>2. CASE ~IsAdmin(v)
    <3>1. Head(plan).op \in PostCalls
      BY <1>2, <1>3, <2>2
    <3>2. UNCHANGED <<accounts, subjectRoles>>
      BY <1>3, <3>1, PostCallsSpareAll DEF tables
    <3>3. QED BY <1>1, <3>2 DEF IsAdmin
  <2>3. QED BY <2>1, <2>2
<1>6. ASSUME req'[q] # None
      PROVE  InCharge(q)'
  <2>1. PICK rest :
          /\ Moved(q, "call", rest)
          /\ \A i \in DOMAIN rest : \E j \in DOMAIN plan : rest[i] = plan[j]
    BY <1>6 DEF Ended
  <2>2. (\A i \in DOMAIN rest : Spares(rest[i], v))
        /\ (IsAdmin(v)' \/ \A i \in DOMAIN rest : rest[i].op \in PostCalls)
    BY <1>2, <1>4, <2>1
  <2>3. req'[q].viewer = v /\ req'[q].at = "call" /\ req'[q].plan = rest
    BY <1>2, <2>1 DEF Moved
  <2>4. QED BY <1>4, <2>2, <2>3 DEF InCharge, IsAdmin
<1>7. QED BY <1>1, <1>5, <1>6 DEF AdminInv

LEMMA AdminSuccess ==
  ASSUME IInv, AdminInv, NEW q \in Requests, Requests = {q}, CallSucceeds(q)
  PROVE  AdminInv'
<1> DEFINE plan == req[q].plan
<1>1. /\ Calling(q) /\ UNCHANGED <<drawn, late, belated>>
      /\ plan \in Seq(Calls) /\ plan # <<>> /\ Effect(Head(plan))
      /\ \/ Ended(q)
         \/ Len(plan) # 1 /\ Moved(q, "call", Tail(plan))
  BY SuccessSteps
<1>2. CASE Ended(q)
  BY <1>1, <1>2, AdminCall
<1>3. CASE Len(plan) # 1 /\ Moved(q, "call", Tail(plan))
  <2>1. \A i \in DOMAIN Tail(plan) : \E j \in DOMAIN plan : Tail(plan)[i] = plan[j]
    <3> HIDE DEF plan
    <3> QED BY <1>1, <1>3, TailOfPlan
  <2>2. QED BY <1>1, <1>3, <2>1, AdminCall
<1>4. QED BY <1>1, <1>2, <1>3

\* The invariant says nothing once a call may take effect late.
LEMMA AdminFailure ==
  ASSUME IInv, AdminInv, NEW q \in Requests, Requests = {q}, CallFails(q)
  PROVE  AdminInv'
<1> DEFINE plan == req[q].plan
<1>1. /\ Calling(q)
      /\ plan \in Seq(Calls) /\ plan # <<>> /\ Head(plan) \in Calls
      /\ \/ UNCHANGED tables /\ UNCHANGED <<late, belated>>
         \/ Effect(Head(plan)) /\ UNCHANGED <<late, belated>>
         \/ belated' = belated \cup ({Head(plan).user, Head(plan).arg} \cap (Users \cup Posts))
      /\ Ended(q) \/ Moved(q, "call", plan)
  BY FailureSteps
<1>2. CASE belated' = belated \cup ({Head(plan).user, Head(plan).arg} \cap (Users \cup Posts))
  <2>1. Head(plan).user \in Users
    BY <1>1, CallTypes
  <2>2. QED BY <1>2, <2>1 DEF AdminInv
<1>3. CASE (UNCHANGED tables \/ Effect(Head(plan))) /\ UNCHANGED <<late, belated>>
  <2>1. \/ Ended(q)
        \/ \E rest :
             /\ Moved(q, "call", rest)
             /\ \A i \in DOMAIN rest : \E j \in DOMAIN plan : rest[i] = plan[j]
    BY <1>1
  <2>2. QED BY <1>1, <1>3, <2>1, AdminCall
<1>4. QED BY <1>1, <1>2, <1>3

LEMMA AdminNext ==
  ASSUME NEW q, Requests = {q}, IInv, AdminInv, [Next]_vars
  PROVE  AdminInv'
<1>1. ASSUME NEW op \in Ops, NEW v \in Users, NEW x, Begin(q, op, v, x)
      PROVE  AdminInv'
  <2>1. /\ UNCHANGED <<accounts, subjectRoles, late, belated>> /\ v \in accounts
        /\ req'[q].viewer = v /\ req'[q].at = "can"
    BY <1>1, BeginIs DEF stores, authzVars
  <2>2. InCharge(q)'
    BY <2>1 DEF InCharge
  <2>3. QED BY <2>1, <2>2, AdminStays
<1>2. CASE Advance(q)
  BY <1>2, AdminAdvance
<1>3. CASE CallSucceeds(q)
  BY <1>3, AdminSuccess
<1>4. CASE CallFails(q)
  BY <1>4, AdminFailure
<1>5. ASSUME NEW c \in late, Land(c)
      PROVE  AdminInv'
  BY <1>5 DEF AdminInv, Land
<1>6. ASSUME NEW u \in Users, Register(u)
      PROVE  AdminInv'
  <2>1. /\ UNCHANGED <<subjectRoles, req, late, belated>> /\ accounts \subseteq accounts'
    BY <1>6, RegisterIs
  <2>2. QED BY <2>1 DEF AdminInv, InCharge, IsAdmin
<1>7. CASE UNCHANGED vars
  BY <1>7, AdminStays DEF vars, authzVars, history
<1>8. QED BY <1>1, <1>2, <1>3, <1>4, <1>5, <1>6, <1>7, Steps

-----------------------------------------------------------------------------
(* One request, and what is held over what is gone.                        *)

KnownUsers == accounts \cup belated
KnownPosts == posts \cup belated

\* NoOrphans, whether or not a request is under way.
Clean ==
  /\ \A g \in grants :
       /\ \E p \in Posts \cap KnownPosts : g[3] = PostRef(p)
       /\ \E u \in Users \cap KnownUsers : g[1] = UserRef(u)
  /\ \A x \in subjectRoles : \E u \in Users \cap KnownUsers : x[1] = UserRef(u)

\* A call that leaves the tables clean whenever it takes effect.
Ready(c) ==
  /\ c.op = "Grant" => c.arg \in KnownPosts /\ c.user \in KnownUsers
  /\ c.op = "AssignRole" => c.user \in KnownUsers
  /\ c.op = "DeletePost" => c.arg \in belated \/ \A g \in grants : g[3] # PostRef(c.arg)
  /\ c.op = "DeleteUser" =>
       \/ c.user \in belated
       \/ /\ \A g \in grants : g[1] # UserRef(c.user)
          /\ \A x \in subjectRoles : x[1] # UserRef(c.user)

PlanTidy(q) ==
  \/ \E p \in Posts : req[q].plan = CreatePlan(req[q].viewer, p)
  \/ \E u \in Users, p \in Posts : req[q].plan = DeletePlan(u, p)
  \/ \E u \in Users : req[q].plan = DeleteUserPlan(u)
  \/ \E c \in Calls : req[q].plan = <<c>> /\ Ready(c)
  \/ /\ req[q].plan # <<>>
     /\ \A i \in DOMAIN req[q].plan :
          req[q].plan[i].op \in RoleCalls /\ req[q].plan[i].user \in KnownUsers

Tidy(q) ==
  /\ req[q].viewer \in KnownUsers
  /\ req[q].at = "held" => req[q].target \in KnownUsers
  /\ req[q].at = "call" => PlanTidy(q)

LateKnown == \A c \in late : {c.user, c.arg} \cap (Users \cup Posts) \subseteq belated

CleanInv ==
  /\ Clean
  /\ LateKnown
  /\ \A q \in Requests : req[q] # None => Tidy(q)

\* A step that forgets nobody and gives nobody anything, but for what calls
\* that came too late were about.
Onward ==
  /\ KnownUsers \subseteq KnownUsers' /\ KnownPosts \subseteq KnownPosts'
  /\ belated \subseteq belated'
  /\ \A g \in grants' \ grants :
       /\ \E p \in Posts \cap belated' : g[3] = PostRef(p)
       /\ \E u \in Users \cap belated' : g[1] = UserRef(u)
  /\ \A x \in subjectRoles' \ subjectRoles : \E u \in Users \cap belated' : x[1] = UserRef(u)

LEMMA ReadyStays ==
  ASSUME Onward, NEW c, Ready(c)
  PROVE  Ready(c)'
<1>1. c.op = "Grant" => c.arg \in KnownPosts' /\ c.user \in KnownUsers'
  BY DEF Ready, Onward
<1>2. c.op = "AssignRole" => c.user \in KnownUsers'
  BY DEF Ready, Onward
<1>3. ASSUME c.op = "DeletePost", c.arg \notin belated'
      PROVE  \A g \in grants' : g[3] # PostRef(c.arg)
  <2> SUFFICES ASSUME NEW g \in grants', g[3] = PostRef(c.arg)
               PROVE  FALSE
    OBVIOUS
  <2>1. g \notin grants
    BY <1>3 DEF Ready, Onward
  <2>2. PICK p \in belated' : g[3] = PostRef(p)
    BY <2>1 DEF Onward
  <2>3. QED BY <1>3, <2>2, RefsDiffer
<1>4. ASSUME c.op = "DeleteUser", c.user \notin belated'
      PROVE  /\ \A g \in grants' : g[1] # UserRef(c.user)
             /\ \A x \in subjectRoles' : x[1] # UserRef(c.user)
  <2>1. /\ \A g \in grants : g[1] # UserRef(c.user)
        /\ \A x \in subjectRoles : x[1] # UserRef(c.user)
    BY <1>4 DEF Ready, Onward
  <2>2. \A u \in belated' : UserRef(u) # UserRef(c.user)
    BY <1>4, RefsDiffer
  <2>3. QED BY <2>1, <2>2 DEF Onward
<1>5. QED BY <1>1, <1>2, <1>3, <1>4 DEF Ready

LEMMA TidyStays ==
  ASSUME Onward, NEW q, Tidy(q),
         /\ req'[q].viewer = req[q].viewer /\ req'[q].target = req[q].target
         /\ req'[q].at = req[q].at /\ req'[q].plan = req[q].plan
  PROVE  Tidy(q)'
<1>1. KnownUsers \subseteq KnownUsers'
  BY DEF Onward
<1>2. PlanTidy(q) => PlanTidy(q)'
  <2>1. \A c : Ready(c) => Ready(c)'
    BY ReadyStays
  <2>2. QED BY <1>1, <2>1 DEF PlanTidy
<1>3. QED BY <1>1, <1>2 DEF Tidy

LEMMA CleanStays ==
  ASSUME Clean, Onward
  PROVE  Clean'
<1>1. /\ \A g \in grants' : /\ \E p \in Posts \cap KnownPosts' : g[3] = PostRef(p)
                            /\ \E u \in Users \cap KnownUsers' : g[1] = UserRef(u)
      /\ \A x \in subjectRoles' : \E u \in Users \cap KnownUsers' : x[1] = UserRef(u)
  BY DEF Clean, Onward, KnownPosts, KnownUsers
<1>2. QED BY <1>1 DEF Clean

\* A call that is ready leaves the tables clean, whenever it takes effect.
LEMMA ReadyKeepsClean ==
  ASSUME Clean, NEW c \in Calls, Ready(c), Effect(c), UNCHANGED belated
  PROVE  Clean'
<1>1. c.op \in PostCalls \cup RoleCalls \cup {"PurgeSubject", "DeleteUser"}
  BY CallOps
<1>2. /\ c.user \in Users
      /\ c.op \in PostCalls => c.arg \in Posts
  BY CallTypes DEF PostCalls
<1>3. CASE c.op = "Grant"
  BY <1>2, <1>3, EffectIs DEF Clean, Ready, KnownPosts, KnownUsers, PostCalls
<1>4. CASE c.op = "DeletePost"
  <2>1. /\ posts' = posts \ {c.arg}
        /\ UNCHANGED <<subjectRoles, grants, accounts, belated>>
    BY <1>4, EffectIs
  <2>2. ASSUME NEW g \in grants
        PROVE  \E p \in Posts \cap KnownPosts' : g[3] = PostRef(p)
    <3>1. PICK p \in Posts \cap KnownPosts : g[3] = PostRef(p)
      BY DEF Clean
    <3>2. p \in KnownPosts'
      BY <1>4, <2>1, <3>1 DEF KnownPosts, Ready
    <3>3. QED BY <3>1, <3>2
  <2>3. QED BY <2>1, <2>2 DEF Clean, KnownUsers
<1>5. CASE c.op = "DeleteUser"
  <2>1. /\ accounts' = accounts \ {c.user}
        /\ UNCHANGED <<subjectRoles, grants, posts, belated>>
    BY <1>5, EffectIs
  <2>2. ASSUME NEW u \in Users \cap KnownUsers, NEW ref, ref = UserRef(u),
               \/ \E g \in grants : g[1] = ref
               \/ \E x \in subjectRoles : x[1] = ref
        PROVE  u \in KnownUsers'
    BY <1>5, <2>1, <2>2 DEF KnownUsers, Ready
  <2>3. QED BY <2>1, <2>2 DEF Clean, KnownPosts
<1>6. CASE c.op \in {"CreatePost", "UpdatePost", "PurgeResource"}
  BY <1>6, EffectIs DEF Clean, KnownPosts, KnownUsers, tables
<1>7. CASE c.op \in RoleCalls
  BY <1>2, <1>7, EffectIs DEF Clean, Ready, KnownPosts, KnownUsers, RoleCalls
<1>8. CASE c.op = "PurgeSubject"
  BY <1>8, EffectIs DEF Clean, KnownPosts, KnownUsers
<1>9. QED BY <1>1, <1>3, <1>4, <1>5, <1>6, <1>7, <1>8 DEF PostCalls

\* A late call forgets nobody that is not accounted for.
LEMMA LateIsOnward ==
  ASSUME NEW c \in Calls, Effect(c), UNCHANGED belated,
         {c.user, c.arg} \cap (Users \cup Posts) \subseteq belated
  PROVE  Onward
<1>1. c.op \in PostCalls \cup RoleCalls \cup {"PurgeSubject", "DeleteUser"}
  BY CallOps
<1>2. /\ c.user \in Users \cap belated
      /\ c.op \in PostCalls => c.arg \in Posts \cap belated
  BY CallTypes DEF PostCalls
<1>3. CASE c.op \in PostCalls
  BY <1>2, <1>3, EffectIs DEF PostCalls, Onward, KnownPosts, KnownUsers, tables
<1>4. CASE c.op \in RoleCalls \cup {"PurgeSubject", "DeleteUser"}
  BY <1>2, <1>4, EffectIs DEF RoleCalls, Onward, KnownPosts, KnownUsers
<1>5. QED BY <1>1, <1>3, <1>4

\* The call a request makes next is ready.
LEMMA HeadIsReady ==
  ASSUME IInv, NEW q \in Requests, Calling(q), Tidy(q)
  PROVE  Ready(Head(req[q].plan))
<1> DEFINE plan == req[q].plan
<1>1. PlanTidy(q)
  BY DEF Tidy, Calling
<1>2. ASSUME NEW c, NEW d, plan = <<c, d>>, c.op \in {"CreatePost", "PurgeResource", "PurgeSubject"}
      PROVE  Ready(Head(plan))
  <2>1. Head(<<c, d>>) = c
    OBVIOUS
  <2> HIDE DEF plan
  <2>2. QED BY <1>2, <2>1 DEF Ready
<1>3. CASE \/ \E p \in Posts : plan = CreatePlan(req[q].viewer, p)
           \/ \E u \in Users, p \in Posts : plan = DeletePlan(u, p)
           \/ \E u \in Users : plan = DeleteUserPlan(u)
  <2>1. \E c, d : /\ plan = <<c, d>>
                 /\ c.op \in {"CreatePost", "PurgeResource", "PurgeSubject"}
    <3>1. \A u, x : /\ Call("CreatePost", u, x).op = "CreatePost"
                   /\ Call("PurgeResource", u, x).op = "PurgeResource"
                   /\ Call("PurgeSubject", u, x).op = "PurgeSubject"
      BY DEF Call
    <3>2. QED BY <1>3, <3>1 DEF CreatePlan, DeletePlan, DeleteUserPlan
  <2>2. QED BY <1>2, <2>1
<1>4. CASE \E c \in Calls : plan = <<c>> /\ Ready(c)
  <2>1. PICK c \in Calls : plan = <<c>> /\ Ready(c)
    BY <1>4
  <2>2. Head(<<c>>) = c
    OBVIOUS
  <2> HIDE DEF plan
  <2>3. QED BY <2>1, <2>2 DEF plan
<1>5. CASE \A i \in DOMAIN plan : plan[i].op \in RoleCalls /\ plan[i].user \in KnownUsers
  <2>1. plan \in Seq(Calls) /\ plan # <<>>
    BY HeadPending DEF Calling
  <2> HIDE DEF plan
  <2>2. 1 \in DOMAIN plan /\ Head(plan) = plan[1]
    BY <2>1
  <2>3. Head(plan).op \in RoleCalls /\ Head(plan).user \in KnownUsers
    BY <1>5, <2>2
  <2>4. Ready(Head(plan))
    BY <2>3 DEF Ready, RoleCalls
  <2>5. QED BY <2>4 DEF plan
<1>6. QED BY <1>1, <1>3, <1>4, <1>5 DEF PlanTidy

LEMMA OnwardKeeps ==
  ASSUME CleanInv, Onward, LateKnown',
         \A q \in Requests : req'[q] # None => Tidy(q)' \/ req'[q] = req[q]
  PROVE  CleanInv'
<1>1. Clean'
  BY CleanStays DEF CleanInv
<1>2. ASSUME NEW q \in Requests, req'[q] # None
      PROVE  Tidy(q)'
  BY <1>2, TidyStays DEF CleanInv
<1>3. QED BY <1>1, <1>2 DEF CleanInv

LEMMA SameIsOnward ==
  ASSUME UNCHANGED <<subjectRoles, grants, posts>>, accounts \subseteq accounts',
         belated \subseteq belated'
  PROVE  Onward
BY DEF Onward, KnownUsers, KnownPosts

\* What a request goes on with is tidy: it knows the accounts it has loaded.
LEMMA CleanAdvance ==
  ASSUME IInv, CleanInv, NEW q \in Requests, Advance(q)
  PROVE  CleanInv'
<1>1. /\ UNCHANGED <<stores, late, belated>> /\ req[q] # None
      /\ AdvancedTo(q)
  BY AdvanceSteps
<1>2. UNCHANGED <<subjectRoles, grants, accounts, posts, late, belated>>
  BY <1>1 DEF stores, authzVars
<1>3. Onward /\ KnownUsers' = KnownUsers /\ LateKnown'
  BY <1>2, SameIsOnward DEF KnownUsers, CleanInv, LateKnown
<1>4. RequestOK(req[q], author, everAdmin, drawn) /\ req[q].viewer \in Users /\ Tidy(q)
  BY <1>1, Working DEF CleanInv
<1>5. ASSUME req'[q] # None
      PROVE  Tidy(q)'
  <2>1. ASSUME NEW at, NEW plan, Moved(q, at, plan),
               at = "held" => req[q].target \in KnownUsers,
               at = "call" =>
                 \/ \E p \in Posts : plan = CreatePlan(req[q].viewer, p)
                 \/ \E u \in Users, p \in Posts : plan = DeletePlan(u, p)
                 \/ \E u \in Users : plan = DeleteUserPlan(u)
                 \/ \E c \in Calls : plan = <<c>> /\ Ready(c)'
                 \/ /\ plan # <<>>
                    /\ \A i \in DOMAIN plan :
                         plan[i].op \in RoleCalls /\ plan[i].user \in KnownUsers
        PROVE  Tidy(q)'
    <3>1. /\ req'[q].viewer = req[q].viewer /\ req'[q].target = req[q].target
          /\ req'[q].at = at /\ req'[q].plan = plan
      BY <2>1 DEF Moved
    <3>2. at = "call" => PlanTidy(q)'
      BY <1>3, <2>1, <3>1 DEF PlanTidy
    <3>3. QED BY <1>3, <1>4, <2>1, <3>1, <3>2 DEF Tidy
  <2>2. ~Ended(q)
    BY <1>5 DEF Ended
  <2>3. CASE \/ Moved(q, "load", req[q].plan)
             \/ req[q].target \in accounts /\ Moved(q, "held", req[q].plan)
    BY <2>1, <2>3 DEF KnownUsers
  <2>4. CASE \/ \E p \in Posts : Moved(q, "call", CreatePlan(req[q].viewer, p))
             \/ \E p \in Posts : Moved(q, "call", DeletePlan(req[q].viewer, p))
    BY <1>4, <2>1, <2>4
  <2>5. ASSUME NEW p \in Posts, Moved(q, "call", EditPlan(req[q].viewer, p))
        PROVE  Tidy(q)'
    <3>0. PICK v \in Users : v = req[q].viewer
      BY <1>4
    <3> DEFINE c == Call("UpdatePost", v, p)
    <3>1. c \in Calls /\ Ready(c)' /\ EditPlan(req[q].viewer, p) = <<c>>
      BY <3>0 DEF Call, Calls, Ready, EditPlan
    <3>2. QED BY <2>1, <2>5, <3>1
  <2>6. CASE /\ req[q].target \in accounts
             /\ Moved(q, "call", DeleteUserPlan(req[q].target))
    BY <2>1, <2>6 DEF IInv, StoresOK, StoresType
  <2>7. ASSUME req[q].at = "held", NEW requested \in SUBSET Roles,
               Asked(q, requested) # <<>>, Moved(q, "call", Asked(q, requested))
        PROVE  Tidy(q)'
    <3> DEFINE plan == Asked(q, requested)
               u == req[q].target
    <3>1. u \in Users /\ u \in KnownUsers
      BY <1>4, <2>7 DEF RequestOK, UserOps, Tidy
    <3>2. plan \in Seq(RoleChanges(u, requested))
      BY <3>1, RolePlanCalls DEF Asked
    <3> HIDE DEF plan, u
    <3>3. \A i \in DOMAIN plan : plan[i] \in RoleChanges(u, requested)
      BY <3>2
    <3>4. \A i \in DOMAIN plan : plan[i].op \in RoleCalls /\ plan[i].user \in KnownUsers
      BY <3>1, <3>3 DEF RoleChanges, RoleCalls
    <3>5. QED BY <2>1, <2>7, <3>4 DEF plan
  <2>8. QED BY <1>1, <2>2, <2>3, <2>4, <2>5, <2>6, <2>7 DEF AdvancedTo
<1>6. \A p \in Requests : p = q \/ req'[p] = req[p]
  BY <1>1 DEF AdvancedTo, Moved, Ended
<1>7. QED BY <1>3, <1>5, <1>6, OnwardKeeps

LEMMA TwoCalls ==
  ASSUME NEW c, NEW d
  PROVE  Head(<<c, d>>) = c /\ Tail(<<c, d>>) = <<d>> /\ Len(<<c, d>>) = 2
OBVIOUS

\* The first call of a plan makes the second one ready.
LEMMA CleanSuccess ==
  ASSUME IInv, CleanInv, NEW q \in Requests, Requests = {q}, CallSucceeds(q)
  PROVE  CleanInv'
<1> DEFINE plan == req[q].plan
<1>1. /\ Calling(q) /\ UNCHANGED <<late, belated>>
      /\ plan \in Seq(Calls) /\ plan # <<>> /\ Head(plan) \in Calls /\ Effect(Head(plan))
      /\ \/ Ended(q)
         \/ Len(plan) # 1 /\ Moved(q, "call", Tail(plan))
  BY SuccessSteps
<1>2. Tidy(q) /\ Ready(Head(plan))
  BY <1>1, HeadIsReady DEF CleanInv, Calling
<1>3. Clean'
  <2> HIDE DEF plan
  <2>1. QED BY <1>1, <1>2, ReadyKeepsClean DEF CleanInv
<1>4. ASSUME req'[q] # None
      PROVE  Tidy(q)'
  <2>1. Len(plan) # 1 /\ Moved(q, "call", Tail(plan))
    BY <1>1, <1>4 DEF Ended
  <2>2. /\ req'[q].viewer = req[q].viewer /\ req'[q].at = "call"
        /\ req'[q].plan = Tail(plan)
    BY <2>1 DEF Moved
  <2>3. ASSUME NEW c \in Calls, NEW d \in Calls, plan = <<c, d>>,
               c.op # "DeleteUser", Effect(c) => Ready(d)'
        PROVE  Tidy(q)'
    <3>1. Head(plan) = c /\ Tail(plan) = <<d>>
      <4> HIDE DEF plan
      <4> QED BY <2>3, TwoCalls
    <3>2. Effect(c)
      BY <1>1, <3>1
    <3>3. accounts' = accounts
      BY <2>3, <3>2, CallOps, EffectIs DEF PostCalls, RoleCalls, tables
    <3>4. PlanTidy(q)'
      BY <2>2, <2>3, <3>1, <3>2 DEF PlanTidy
    <3>5. QED BY <1>1, <1>2, <2>2, <3>3, <3>4 DEF Tidy, KnownUsers
  <2>4. ASSUME NEW p \in Posts, plan = CreatePlan(req[q].viewer, p)
        PROVE  Tidy(q)'
    <3>0. PICK v \in Users : v = req[q].viewer
      BY <1>1, Working DEF Calling
    <3> DEFINE c == Call("CreatePost", v, p)
               d == Call("Grant", v, p)
    <3>1. c \in Calls /\ d \in Calls /\ c.op = "CreatePost" /\ plan = <<c, d>>
      BY <2>4, <3>0 DEF Call, Calls, CreatePlan
    <3>2. Effect(c) => posts' = posts \cup {p} /\ accounts' = accounts
      BY <3>1, EffectIs DEF Call
    <3>3. v \in KnownUsers
      BY <1>2, <3>0 DEF Tidy
    <3>4. Effect(c) => Ready(d)'
      BY <1>1, <3>2, <3>3 DEF Ready, Call, KnownUsers, KnownPosts
    <3>5. QED BY <2>3, <3>1, <3>4
  <2>5. ASSUME NEW u \in Users, NEW p \in Posts, plan = DeletePlan(u, p)
        PROVE  Tidy(q)'
    <3> DEFINE c == Call("PurgeResource", u, p)
               d == Call("DeletePost", u, p)
    <3>1. c \in Calls /\ d \in Calls /\ c.op = "PurgeResource" /\ plan = <<c, d>>
      BY <2>5 DEF Call, Calls, DeletePlan
    <3>2. Effect(c) => grants' = {g \in grants : g[3] # PostRef(p)}
      BY <3>1, EffectIs DEF Call
    <3>3. Effect(c) => Ready(d)'
      BY <3>2 DEF Ready, Call
    <3>4. QED BY <2>3, <3>1, <3>3
  <2>6. ASSUME NEW u \in Users, plan = DeleteUserPlan(u)
        PROVE  Tidy(q)'
    <3> DEFINE c == Call("PurgeSubject", u, None)
               d == Call("DeleteUser", u, None)
    <3>1. c \in Calls /\ d \in Calls /\ c.op = "PurgeSubject" /\ plan = <<c, d>>
      BY <2>6 DEF Call, Calls, DeleteUserPlan
    <3>2. Effect(c) => /\ grants' = {g \in grants : g[1] # UserRef(u)}
                       /\ subjectRoles' = {x \in subjectRoles : x[1] # UserRef(u)}
      BY <3>1, EffectIs DEF Call
    <3>3. Effect(c) => Ready(d)'
      BY <3>2 DEF Ready, Call
    <3>4. QED BY <2>3, <3>1, <3>3
  <2>7. CASE \A i \in DOMAIN plan : plan[i].op \in RoleCalls /\ plan[i].user \in KnownUsers
    <3> DEFINE rest == Tail(plan)
    <3>1. /\ rest # <<>> /\ 1 \in DOMAIN plan /\ Head(plan) = plan[1]
          /\ \A i \in DOMAIN rest : i + 1 \in DOMAIN plan /\ rest[i] = plan[i + 1]
      <4> HIDE DEF plan
      <4>1. 1 \in DOMAIN plan /\ Head(plan) = plan[1]
        BY <1>1
      <4>2. QED BY <1>1, <2>1, <4>1, TailOfPlan
    <3>2. Head(plan).op \in RoleCalls
      BY <2>7, <3>1
    <3>3. accounts' = accounts
      BY <1>1, <3>2, EffectIs DEF RoleCalls
    <3>4. \A i \in DOMAIN rest : rest[i].op \in RoleCalls /\ rest[i].user \in KnownUsers
      <4> HIDE DEF plan, rest
      <4> QED BY <2>7, <3>1
    <3> HIDE DEF rest
    <3>5. req'[q].plan = rest
      BY <2>2 DEF rest
    <3>6. PlanTidy(q)'
      BY <1>1, <3>1, <3>3, <3>4, <3>5 DEF PlanTidy, KnownUsers
    <3>7. QED BY <1>1, <1>2, <2>2, <3>3, <3>6 DEF Tidy, KnownUsers
  <2>8. CASE \E c \in Calls : plan = <<c>>
    <3>1. PICK c \in Calls : plan = <<c>>
      BY <2>8
    <3>2. Len(<<c>>) = 1
      OBVIOUS
    <3>3. QED BY <2>1, <3>1, <3>2
  <2>9. PlanTidy(q)
    BY <1>1, <1>2 DEF Tidy, Calling
  <2>10. QED BY <2>4, <2>5, <2>6, <2>7, <2>8, <2>9 DEF PlanTidy
<1>5. LateKnown'
  BY <1>1 DEF CleanInv, LateKnown
<1>6. QED BY <1>3, <1>4, <1>5 DEF CleanInv

\* A grant is the last call of its plan.
LEMMA GrantIsLast ==
  ASSUME IInv, NEW q \in Requests, Calling(q), PlanTidy(q),
         Head(req[q].plan).op = "Grant"
  PROVE  \E c \in Calls : c.op = "Grant" /\ req[q].plan = <<c>>
<1> DEFINE plan == req[q].plan
<1>1. ASSUME NEW c, NEW d, plan = <<c, d>>
      PROVE  c.op = "Grant"
  <2> HIDE DEF plan
  <2>1. Head(plan) = c
    BY <1>1, TwoCalls
  <2>2. QED BY <2>1 DEF plan
<1>2. CASE \/ \E p \in Posts : plan = CreatePlan(req[q].viewer, p)
           \/ \E u \in Users, p \in Posts : plan = DeletePlan(u, p)
           \/ \E u \in Users : plan = DeleteUserPlan(u)
  <2>1. \A u, x : /\ Call("CreatePost", u, x).op # "Grant"
                 /\ Call("PurgeResource", u, x).op # "Grant"
                 /\ Call("PurgeSubject", u, x).op # "Grant"
    BY DEF Call
  <2>2. QED BY <1>1, <1>2, <2>1 DEF CreatePlan, DeletePlan, DeleteUserPlan
<1>3. ASSUME NEW c \in Calls, plan = <<c>>
      PROVE  c.op = "Grant"
  <2>1. Head(<<c>>) = c
    OBVIOUS
  <2>2. QED BY <1>3, <2>1
<1>4. CASE \A i \in DOMAIN plan : plan[i].op \in RoleCalls
  <2>1. plan \in Seq(Calls) /\ plan # <<>>
    BY HeadPending DEF Calling
  <2> HIDE DEF plan
  <2>2. 1 \in DOMAIN plan /\ Head(plan) = plan[1]
    BY <2>1
  <2>3. Head(plan).op \in RoleCalls
    BY <1>4, <2>2
  <2>4. QED BY <2>3 DEF RoleCalls, plan
<1>5. QED BY <1>2, <1>3, <1>4 DEF PlanTidy

LEMMA CleanFailure ==
  ASSUME IInv, CleanInv, NEW q \in Requests, Requests = {q}, CallFails(q)
  PROVE  CleanInv'
<1> DEFINE plan == req[q].plan
           c == Head(plan)
<1>1. /\ Calling(q)
      /\ plan \in Seq(Calls) /\ plan # <<>> /\ c \in Calls
      /\ \/ UNCHANGED tables /\ UNCHANGED <<late, belated>>
         \/ Effect(c) /\ UNCHANGED <<late, belated>>
         \/ /\ UNCHANGED tables
            /\ late' = late \cup {c}
            /\ belated' = belated \cup ({c.user, c.arg} \cap (Users \cup Posts))
      /\ \/ Ended(q)
         \/ c.op = "Grant" /\ Moved(q, "call", plan)
  BY FailureSteps
<1>2. Tidy(q) /\ Ready(c)
  BY <1>1, HeadIsReady DEF CleanInv, Calling
<1>3. /\ req'[q] # None => c.op = "Grant" /\ Moved(q, "call", plan)
      /\ Moved(q, "call", plan) =>
           /\ req'[q].viewer = req[q].viewer /\ req'[q].target = req[q].target
           /\ req'[q].at = req[q].at /\ req'[q].plan = plan
  BY <1>1 DEF Ended, Moved, Calling
<1>4. CASE UNCHANGED tables /\ LateKnown' /\ belated \subseteq belated'
  <2>1. Onward
    BY <1>4, SameIsOnward DEF tables
  <2>2. req'[q] # None => Tidy(q)'
    BY <1>2, <1>3, <2>1, TidyStays
  <2>3. QED BY <1>4, <2>1, <2>2, OnwardKeeps
<1>5. CASE Effect(c) /\ UNCHANGED <<late, belated>>
  <2>1. Clean'
    <3> HIDE DEF c
    <3> QED BY <1>1, <1>2, <1>5, ReadyKeepsClean DEF CleanInv
  <2>2. ASSUME req'[q] # None
        PROVE  Tidy(q)'
    <3>1. PICK d \in Calls : d.op = "Grant" /\ plan = <<d>>
      BY <1>1, <1>2, <1>3, <2>2, GrantIsLast DEF Tidy, Calling
    <3>2. c = d
      <4>1. Head(<<d>>) = d
        OBVIOUS
      <4> HIDE DEF plan
      <4>2. QED BY <3>1, <4>1
    <3>3. UNCHANGED <<accounts, posts, belated>> /\ Effect(d) /\ Ready(d)
      <4>1. Effect(d) /\ Ready(d)
        BY <1>2, <1>5, <3>2
      <4>2. QED BY <1>5, <3>1, <4>1, EffectIs
    <3>4. Ready(d)'
      BY <3>1, <3>3 DEF Ready, KnownUsers, KnownPosts
    <3>5. PlanTidy(q)'
      BY <1>3, <2>2, <3>1, <3>4 DEF PlanTidy
    <3>6. req[q].viewer \in KnownUsers /\ req[q].at = "call"
      BY <1>1, <1>2 DEF Tidy, Calling
    <3>7. QED BY <1>3, <2>2, <3>3, <3>5, <3>6 DEF Tidy, KnownUsers
  <2>3. QED BY <1>5, <2>1, <2>2 DEF CleanInv, LateKnown
<1>6. CASE UNCHANGED <<late, belated>>
  BY <1>1, <1>4, <1>5, <1>6 DEF CleanInv, LateKnown
<1>7. CASE /\ UNCHANGED tables
           /\ late' = late \cup {c}
           /\ belated' = belated \cup ({c.user, c.arg} \cap (Users \cup Posts))
  <2>1. LateKnown' /\ belated \subseteq belated'
    <3> HIDE DEF c
    <3> QED BY <1>7 DEF CleanInv, LateKnown
  <2>2. QED BY <1>4, <1>7, <2>1
<1>8. QED BY <1>1, <1>4, <1>5, <1>6, <1>7

LEMMA InitClean == Init => CleanInv
BY DEF Init, CleanInv, Clean, LateKnown, KnownUsers

LEMMA CleanNext ==
  ASSUME NEW q, Requests = {q}, IInv, CleanInv, [Next]_vars
  PROVE  CleanInv'
<1>1. ASSUME NEW op \in Ops, NEW v \in Users, NEW x, Begin(q, op, v, x)
      PROVE  CleanInv'
  <2>1. /\ UNCHANGED <<subjectRoles, grants, accounts, posts, late, belated>>
        /\ v \in accounts /\ req'[q].viewer = v /\ req'[q].at = "can"
    BY <1>1, BeginIs DEF stores, authzVars
  <2>2. Tidy(q)' /\ LateKnown' /\ Onward
    BY <2>1, SameIsOnward DEF Tidy, KnownUsers, CleanInv, LateKnown
  <2>3. QED BY <2>2, OnwardKeeps
<1>2. CASE Advance(q)
  BY <1>2, CleanAdvance
<1>3. CASE CallSucceeds(q)
  BY <1>3, CleanSuccess
<1>4. CASE CallFails(q)
  BY <1>4, CleanFailure
<1>5. ASSUME NEW c \in late, Land(c)
      PROVE  CleanInv'
  <2>1. Effect(c) /\ late' \subseteq late /\ UNCHANGED <<req, belated>>
    BY <1>5 DEF Land
  <2>2. c \in Calls
    BY InvTypes DEF TypeOK
  <2>3. Onward
    BY <2>1, <2>2, LateIsOnward DEF CleanInv, LateKnown
  <2>4. LateKnown'
    BY <2>1 DEF CleanInv, LateKnown
  <2>5. QED BY <2>1, <2>3, <2>4, OnwardKeeps
<1>6. ASSUME NEW u \in Users, Register(u)
      PROVE  CleanInv'
  <2>1. /\ UNCHANGED <<subjectRoles, grants, posts, req, late, belated>>
        /\ accounts \subseteq accounts'
    BY <1>6, RegisterIs
  <2>2. Onward /\ LateKnown'
    BY <2>1, SameIsOnward DEF CleanInv, LateKnown
  <2>3. QED BY <2>1, <2>2, OnwardKeeps
<1>7. CASE UNCHANGED vars
  <2>1. UNCHANGED <<subjectRoles, grants, posts, accounts, req, late, belated>>
    BY <1>7 DEF vars, authzVars, history
  <2>2. Onward /\ LateKnown'
    BY <2>1, SameIsOnward DEF CleanInv, LateKnown
  <2>3. QED BY <2>1, <2>2, OnwardKeeps
<1>8. QED BY <1>1, <1>2, <1>3, <1>4, <1>5, <1>6, <1>7, Steps

-----------------------------------------------------------------------------
(* Any requests, none of whose calls fail.                                 *)

\* The plans there are: two calls of which the second finishes what the first
\* began, the last call of such a plan or an edit, and a change of roles.
PlanShape(plan, v) ==
  \/ \E p \in Posts : plan = CreatePlan(v, p)
  \/ \E u \in Users, p \in Posts : plan = DeletePlan(u, p)
  \/ \E u \in Users : plan = DeleteUserPlan(u)
  \/ \E c \in Calls : /\ plan = <<c>>
                      /\ c.op \in {"Grant", "UpdatePost", "DeletePost", "DeleteUser"}
  \/ plan # <<>> /\ \A i \in DOMAIN plan : plan[i].op \in RoleCalls

Granted(u, p) == \A a \in ownershipActions : <<UserRef(u), a, PostRef(p)>> \in grants

\* The call left is about to give the post p to u, or to delete either.
Finishes(plan, u, p) ==
  \/ plan = <<Call("Grant", u, p)>>
  \/ \E v \in Users : plan = <<Call("DeletePost", v, p)>>
  \/ plan = <<Call("DeleteUser", u, None)>>

Underway(u, p) == \E q \in Requests : Calling(q) /\ Finishes(req[q].plan, u, p)

\* A post is in the hands of its author, or on its way there or elsewhere.
InHands(u, p) == u \notin accounts \/ Granted(u, p) \/ Underway(u, p)

OwnerInv ==
  /\ late = {}
  /\ \A q \in Requests : req[q] # None =>
       /\ req[q].viewer \in drawn
       /\ req[q].at = "call" => PlanShape(req[q].plan, req[q].viewer)
  /\ \A p \in posts : author[p] \in drawn /\ InHands(author[p], p)

\* What a call leaves to do after it.
LEMMA FirstOfTwo ==
  ASSUME IInv, OwnerInv, NEW q \in Requests, CallSucceeds(q)
  PROVE  LET c == Head(req[q].plan)
         IN  /\ c.op = "CreatePost" =>
                  /\ c.user = req[q].viewer
                  /\ Moved(q, "call", <<Call("Grant", c.user, c.arg)>>)
             /\ c.op = "PurgeResource" =>
                  Moved(q, "call", <<Call("DeletePost", c.user, c.arg)>>)
             /\ c.op = "PurgeSubject" =>
                  Moved(q, "call", <<Call("DeleteUser", c.user, None)>>)
             /\ req'[q] # None => PlanShape(req'[q].plan, req'[q].viewer)
<1> DEFINE plan == req[q].plan
           c == Head(plan)
           Goal == /\ c.op = "CreatePost" =>
                        /\ c.user = req[q].viewer
                        /\ Moved(q, "call", <<Call("Grant", c.user, c.arg)>>)
                   /\ c.op = "PurgeResource" =>
                        Moved(q, "call", <<Call("DeletePost", c.user, c.arg)>>)
                   /\ c.op = "PurgeSubject" =>
                        Moved(q, "call", <<Call("DeleteUser", c.user, None)>>)
                   /\ req'[q] # None => PlanShape(req'[q].plan, req'[q].viewer)
<1>1. /\ Calling(q) /\ plan \in Seq(Calls) /\ plan # <<>> /\ c \in Calls
      /\ \/ Len(plan) = 1 /\ Ended(q)
         \/ Len(plan) # 1 /\ Moved(q, "call", Tail(plan))
  BY SuccessSteps
<1>2. PlanShape(plan, req[q].viewer) /\ req[q].viewer \in Users
  BY <1>1, Working DEF OwnerInv, Calling
<1>3. ASSUME NEW x \in Calls, NEW y \in Calls, plan = <<x, y>>
      PROVE  c = x /\ Moved(q, "call", <<y>>)
  <2>1. c = x /\ Tail(plan) = <<y>> /\ Len(plan) = 2
    <3> HIDE DEF plan
    <3> QED BY <1>3, TwoCalls
  <2> DEFINE rest == Tail(plan)
             one == <<y>>
  <2>2. Moved(q, "call", rest) /\ rest = one
    BY <1>1, <2>1
  <2> HIDE DEF rest, one
  <2>3. Moved(q, "call", one)
    BY <2>2
  <2>4. QED BY <2>1, <2>3 DEF one
<1>4. ASSUME NEW y \in Calls, Moved(q, "call", <<y>>),
             y.op \in {"Grant", "UpdatePost", "DeletePost", "DeleteUser"}
      PROVE  PlanShape(req'[q].plan, req'[q].viewer)
  BY <1>4 DEF Moved, PlanShape
<1>5. ASSUME NEW p \in Posts, plan = CreatePlan(req[q].viewer, p)
      PROVE  Goal
  <2> DEFINE v == req[q].viewer
             x == Call("CreatePost", v, p)
             y == Call("Grant", v, p)
  <2>1. x \in Calls /\ y \in Calls /\ plan = <<x, y>>
    BY <1>2, <1>5 DEF CreatePlan, Call, Calls
  <2>2. c = x /\ Moved(q, "call", <<y>>)
    BY <1>3, <2>1
  <2>3. x.op = "CreatePost" /\ x.user = v /\ x.arg = p /\ y.op = "Grant"
    BY DEF Call
  <2>4. PlanShape(req'[q].plan, req'[q].viewer)
    BY <1>4, <2>1, <2>2, <2>3
  <2> HIDE DEF c, x, v
  <2>5. QED BY <2>2, <2>3, <2>4 DEF v
<1>6. ASSUME NEW u \in Users, NEW p \in Posts, plan = DeletePlan(u, p)
      PROVE  Goal
  <2> DEFINE x == Call("PurgeResource", u, p)
             y == Call("DeletePost", u, p)
  <2>1. x \in Calls /\ y \in Calls /\ plan = <<x, y>>
    BY <1>6 DEF DeletePlan, Call, Calls
  <2>2. c = x /\ Moved(q, "call", <<y>>)
    BY <1>3, <2>1
  <2>3. x.op = "PurgeResource" /\ x.user = u /\ x.arg = p /\ y.op = "DeletePost"
    BY DEF Call
  <2>4. PlanShape(req'[q].plan, req'[q].viewer)
    BY <1>4, <2>1, <2>2, <2>3
  <2> HIDE DEF c, x
  <2>5. QED BY <2>2, <2>3, <2>4
<1>7. ASSUME NEW u \in Users, plan = DeleteUserPlan(u)
      PROVE  Goal
  <2> DEFINE x == Call("PurgeSubject", u, None)
             y == Call("DeleteUser", u, None)
  <2>1. x \in Calls /\ y \in Calls /\ plan = <<x, y>>
    BY <1>7 DEF DeleteUserPlan, Call, Calls
  <2>2. c = x /\ Moved(q, "call", <<y>>)
    BY <1>3, <2>1
  <2>3. x.op = "PurgeSubject" /\ x.user = u /\ y.op = "DeleteUser"
    BY DEF Call
  <2>4. PlanShape(req'[q].plan, req'[q].viewer)
    BY <1>4, <2>1, <2>2, <2>3
  <2> HIDE DEF c, x
  <2>5. QED BY <2>2, <2>3, <2>4
<1>8. ASSUME NEW x \in Calls, plan = <<x>>,
             x.op \in {"Grant", "UpdatePost", "DeletePost", "DeleteUser"}
      PROVE  Goal
  <2>1. Head(<<x>>) = x /\ Len(<<x>>) = 1
    OBVIOUS
  <2>2. c = x /\ req'[q] = None
    BY <1>1, <1>8, <2>1 DEF Ended
  <2> HIDE DEF c
  <2>3. QED BY <1>8, <2>2
<1>9. ASSUME \A i \in DOMAIN plan : plan[i].op \in RoleCalls
      PROVE  Goal
  <2> DEFINE rest == Tail(plan)
  <2>1. c.op \in RoleCalls
    <3> HIDE DEF plan
    <3>1. 1 \in DOMAIN plan /\ Head(plan) = plan[1]
      BY <1>1
    <3>2. QED BY <1>9, <3>1
  <2>2. ASSUME req'[q] # None
        PROVE  PlanShape(req'[q].plan, req'[q].viewer)
    <3>1. Len(plan) # 1 /\ Moved(q, "call", rest)
      BY <1>1, <2>2 DEF Ended
    <3>2. rest # <<>> /\ \A i \in DOMAIN rest : rest[i].op \in RoleCalls
      <4> HIDE DEF plan
      <4> QED BY <1>1, <1>9, <3>1, TailOfPlan
    <3> HIDE DEF rest
    <3>3. QED BY <3>1, <3>2 DEF Moved, PlanShape
  <2> HIDE DEF c
  <2>3. QED BY <2>1, <2>2 DEF RoleCalls
<1> HIDE DEF Goal
<1>10. Goal
  BY <1>2, <1>5, <1>6, <1>7, <1>8, <1>9 DEF PlanShape
<1>11. QED BY <1>10 DEF Goal

\* A post stays in hands: whoever takes the grants away goes on to delete.
LEMMA StaysInHands ==
  ASSUME IInv, OwnerInv, NEW q \in Requests, CallSucceeds(q),
         NEW p \in Posts, NEW u \in Users, InHands(u, p), p \in posts',
         LET c == Head(req[q].plan) IN c.op = "CreatePost" => c.arg # p
  PROVE  InHands(u, p)'
<1> DEFINE c == Head(req[q].plan)
<1>1. /\ Calling(q) /\ req[q].plan \in Seq(Calls) /\ c \in Calls /\ Effect(c)
      /\ \A r \in Requests \ {q} : req'[r] = req[r]
  BY SuccessSteps DEF Ended, Moved
<1>2. c.op \in PostCalls \cup RoleCalls \cup {"PurgeSubject", "DeleteUser"}
  BY <1>1, CallOps
<1>3. ASSUME NEW plan, Moved(q, "call", plan), Finishes(plan, u, p)
      PROVE  InHands(u, p)'
  <2>1. Underway(u, p)'
    BY <1>3 DEF Moved, Calling, Underway
  <2>2. QED BY <2>1 DEF InHands
<1>4. CASE u \notin accounts
  <2>1. accounts' \subseteq accounts
    <3> HIDE DEF c
    <3> QED BY <1>1, <1>2, EffectIs DEF PostCalls, RoleCalls, tables
  <2>2. QED BY <1>4, <2>1 DEF InHands
<1>5. CASE Granted(u, p)
  <2>1. CASE c.op = "PurgeResource" /\ c.arg = p
    <3>1. Moved(q, "call", <<Call("DeletePost", c.user, p)>>) /\ c.user \in Users
      BY <1>1, <2>1, FirstOfTwo, CallTypes
    <3> HIDE DEF c
    <3>2. Finishes(<<Call("DeletePost", c.user, p)>>, u, p)
      BY <3>1 DEF Finishes
    <3>3. PICK w \in Users : Moved(q, "call", <<Call("DeletePost", w, p)>>)
      BY <3>1
    <3>4. QED BY <1>3, <3>3 DEF Finishes
  <2>2. CASE c.op = "PurgeSubject" /\ c.user = u
    <3>1. Moved(q, "call", <<Call("DeleteUser", u, None)>>)
      BY <2>2, FirstOfTwo
    <3>2. QED BY <1>3, <3>1 DEF Finishes
  <2>3. CASE /\ c.op = "PurgeResource" => c.arg # p
             /\ c.op = "PurgeSubject" => c.user # u
    <3>1. \A a \in ownershipActions : <<UserRef(u), a, PostRef(p)>> \in grants'
      <4> HIDE DEF c
      <4>1. CASE c.op \in {"PurgeResource", "PurgeSubject"}
        BY <1>1, <1>5, <2>3, <4>1, EffectIs, RefsDiffer DEF Granted
      <4>2. CASE c.op \notin {"PurgeResource", "PurgeSubject"}
        <5>1. grants \subseteq grants'
          BY <1>1, <1>2, <4>2, EffectIs DEF PostCalls, RoleCalls, tables
        <5>2. QED BY <1>5, <5>1 DEF Granted
      <4>3. QED BY <4>1, <4>2
    <3>2. QED BY <3>1 DEF InHands, Granted
  <2>4. QED BY <2>1, <2>2, <2>3
<1>6. CASE Underway(u, p)
  <2>1. PICK r \in Requests : Calling(r) /\ Finishes(req[r].plan, u, p)
    BY <1>6 DEF Underway
  <2>2. CASE r # q
    <3>1. req'[r] = req[r]
      BY <1>1, <2>2
    <3>2. Underway(u, p)'
      BY <2>1, <3>1 DEF Underway, Calling
    <3>3. QED BY <3>2 DEF InHands
  <2>3. CASE r = q
    <3>1. ASSUME NEW x, req[q].plan = <<x>>
          PROVE  c = x
      <4>1. Head(<<x>>) = x
        OBVIOUS
      <4>2. QED BY <3>1, <4>1
    <3> HIDE DEF c
    <3>2. CASE req[q].plan = <<Call("Grant", u, p)>>
      <4>1. c.op = "Grant" /\ c.user = u /\ c.arg = p
        BY <3>1, <3>2 DEF Call
      <4>2. Granted(u, p)'
        BY <1>1, <4>1, EffectIs DEF Granted
      <4>3. QED BY <4>2 DEF InHands
    <3>3. ASSUME NEW v \in Users, req[q].plan = <<Call("DeletePost", v, p)>>
          PROVE  FALSE
      <4>1. c.op = "DeletePost" /\ c.arg = p
        BY <3>1, <3>3 DEF Call
      <4>2. QED BY <1>1, <4>1, EffectIs
    <3>4. CASE req[q].plan = <<Call("DeleteUser", u, None)>>
      <4>1. c.op = "DeleteUser" /\ c.user = u
        BY <3>1, <3>4 DEF Call
      <4>2. u \notin accounts'
        BY <1>1, <4>1, EffectIs
      <4>3. QED BY <4>2 DEF InHands
    <3>5. QED BY <2>1, <2>3, <3>2, <3>3, <3>4 DEF Finishes
  <2>4. QED BY <2>2, <2>3
<1>7. QED BY <1>4, <1>5, <1>6 DEF InHands

LEMMA OwnerSuccess ==
  ASSUME IInv, OwnerInv, NEW q \in Requests, CallSucceeds(q)
  PROVE  OwnerInv'
<1> DEFINE c == Head(req[q].plan)
<1>1. /\ Calling(q) /\ UNCHANGED <<drawn, late>> /\ c \in Calls /\ Effect(c)
      /\ \/ Ended(q)
         \/ Moved(q, "call", Tail(req[q].plan))
  BY SuccessSteps
<1>2. /\ req[q].viewer \in drawn /\ req[q].viewer \in Users
      /\ posts \subseteq Posts /\ author \in [Posts -> Users \cup {None}]
  BY <1>1, Working DEF OwnerInv, Calling, IInv, StoresOK, StoresType
<1>3. \A r \in Requests : req'[r] # None =>
        /\ req'[r].viewer \in drawn'
        /\ req'[r].at = "call" => PlanShape(req'[r].plan, req'[r].viewer)
  <2>1. ASSUME req'[q] # None
        PROVE  /\ req'[q].viewer \in drawn'
               /\ PlanShape(req'[q].plan, req'[q].viewer)
    <3>1. req'[q].viewer = req[q].viewer
      BY <1>1, <2>1 DEF Moved, Ended
    <3>2. QED BY <1>1, <1>2, <2>1, <3>1, FirstOfTwo
  <2>2. \A r \in Requests \ {q} : req'[r] = req[r]
    BY <1>1 DEF Moved, Ended
  <2>3. QED BY <1>1, <2>1, <2>2 DEF OwnerInv
<1>4. ASSUME NEW p \in posts'
      PROVE  author'[p] \in drawn' /\ InHands(author[p], p)'
  <2>1. CASE c.op = "CreatePost" /\ c.arg = p
    <3>1. PICK v \in Users : v = c.user /\ v \in drawn /\ v = req[q].viewer
      BY <1>2, <2>1, FirstOfTwo
    <3>2. p \in Posts
      BY <1>1, <2>1, CallTypes DEF PostCalls
    <3>3. author' = [author EXCEPT ![p] = v]
      <4> HIDE DEF c
      <4> QED BY <1>1, <2>1, <3>1, EffectIs
    <3>4. author'[p] = v
      BY <1>2, <3>2, <3>3
    <3>5. Moved(q, "call", <<Call("Grant", v, p)>>)
      BY <2>1, <3>1, FirstOfTwo
    <3>6. Underway(v, p)'
      BY <3>5 DEF Moved, Underway, Calling, Finishes
    <3>7. QED BY <1>1, <3>1, <3>4, <3>6 DEF InHands
  <2>2. CASE ~(c.op = "CreatePost" /\ c.arg = p)
    <3>1. p \in posts /\ author'[p] = author[p]
      <4> HIDE DEF c
      <4>1. CASE c.op = "CreatePost"
        <5>1. c.arg \in Posts
          BY <1>1, <4>1, CallTypes DEF PostCalls
        <5>2. QED BY <1>1, <1>2, <2>2, <4>1, <5>1, EffectIs
      <4>2. CASE c.op # "CreatePost"
        BY <1>1, <4>2, CallOps, EffectIs DEF PostCalls, RoleCalls, tables
      <4>3. QED BY <4>1, <4>2
    <3>2. p \in Posts /\ author[p] \in drawn /\ InHands(author[p], p)
      BY <1>2, <3>1 DEF OwnerInv
    <3>3. CASE author[p] \in Users
      <4>1. PICK u \in Users : u = author[p]
        BY <3>3
      <4>2. InHands(u, p)'
        BY <2>2, <3>2, <4>1, StaysInHands
      <4>3. QED BY <1>1, <3>1, <3>2, <4>1, <4>2
    <3>4. CASE author[p] \notin Users
      <4>1. accounts' \subseteq accounts /\ accounts \subseteq Users
        <5> HIDE DEF c
        <5> QED BY <1>1, CallOps, EffectIs
              DEF PostCalls, RoleCalls, tables, IInv, StoresOK, StoresType
      <4>2. QED BY <1>1, <3>1, <3>2, <3>4, <4>1 DEF InHands
    <3>5. QED BY <3>3, <3>4
  <2>3. QED BY <2>1, <2>2
<1>5. QED BY <1>1, <1>3, <1>4 DEF OwnerInv

\* Requests that finish a deletion or a creation do so, and the tables stay.
LEMMA OwnerStays ==
  ASSUME OwnerInv, UNCHANGED <<grants, accounts, posts, author, late>>, drawn \subseteq drawn',
         \A q \in Requests : Calling(q) => req'[q] = req[q],
         \A q \in Requests : req'[q] # None /\ req'[q] # req[q] =>
           /\ req'[q].viewer \in drawn
           /\ req'[q].at = "call" => PlanShape(req'[q].plan, req'[q].viewer)
  PROVE  OwnerInv'
<1>1. ASSUME NEW p \in posts
      PROVE  InHands(author[p], p)'
  <2>1. PICK u : u = author[p]
    OBVIOUS
  <2>2. InHands(u, p)
    BY <2>1 DEF OwnerInv
  <2>3. Granted(u, p) => Granted(u, p)'
    BY DEF Granted
  <2>4. Underway(u, p) => Underway(u, p)'
    BY DEF Underway, Calling
  <2>5. InHands(u, p)'
    BY <2>2, <2>3, <2>4 DEF InHands
  <2>6. author'[p] = u
    BY <2>1
  <2>7. QED BY <2>5, <2>6
<1>2. QED BY <1>1 DEF OwnerInv

LEMMA OwnerAdvance ==
  ASSUME IInv, OwnerInv, Faults = FALSE, NEW q \in Requests, Advance(q)
  PROVE  OwnerInv'
<1>1. /\ UNCHANGED <<stores, late>> /\ drawn \subseteq drawn' /\ req[q] # None
      /\ AdvancedTo(q)
  BY AdvanceSteps
<1>2. ~Calling(q)
  BY DEF Advance, CheckPermission, LoadTarget, ReadRoles, Crash, Calling
<1>3. /\ RequestOK(req[q], author, everAdmin, drawn)
      /\ req[q].viewer \in Users /\ req[q].viewer \in drawn
      /\ accounts \subseteq Users
  BY <1>1, Working DEF OwnerInv, IInv, StoresOK, StoresType
<1>4. ASSUME req'[q] # None
      PROVE  /\ req'[q].viewer \in drawn
             /\ req'[q].at = "call" => PlanShape(req'[q].plan, req'[q].viewer)
  <2>1. ASSUME NEW at, NEW plan, Moved(q, at, plan),
               at = "call" => PlanShape(plan, req[q].viewer)
        PROVE  /\ req'[q].viewer \in drawn
               /\ req'[q].at = "call" => PlanShape(req'[q].plan, req'[q].viewer)
    BY <1>3, <2>1 DEF Moved
  <2>2. ~Ended(q)
    BY <1>4 DEF Ended
  <2>3. CASE Moved(q, "load", req[q].plan) \/ Moved(q, "held", req[q].plan)
    BY <2>1, <2>3
  <2>4. CASE \/ \E p \in Posts : Moved(q, "call", CreatePlan(req[q].viewer, p))
             \/ \E p \in Posts : Moved(q, "call", DeletePlan(req[q].viewer, p))
    BY <1>3, <2>1, <2>4 DEF PlanShape
  <2>5. ASSUME NEW p \in Posts, Moved(q, "call", EditPlan(req[q].viewer, p))
        PROVE  /\ req'[q].viewer \in drawn
               /\ req'[q].at = "call" => PlanShape(req'[q].plan, req'[q].viewer)
    <3> DEFINE c == Call("UpdatePost", req[q].viewer, p)
    <3>1. c \in Calls /\ c.op = "UpdatePost" /\ EditPlan(req[q].viewer, p) = <<c>>
      BY <1>3 DEF Call, Calls, EditPlan
    <3>2. PlanShape(EditPlan(req[q].viewer, p), req[q].viewer)
      BY <3>1 DEF PlanShape
    <3>3. QED BY <2>1, <2>5, <3>2
  <2>6. CASE /\ req[q].target \in accounts
             /\ Moved(q, "call", DeleteUserPlan(req[q].target))
    BY <1>3, <2>1, <2>6 DEF PlanShape
  <2>7. ASSUME req[q].at = "held", NEW requested \in SUBSET Roles,
               Asked(q, requested) # <<>>, Moved(q, "call", Asked(q, requested))
        PROVE  /\ req'[q].viewer \in drawn
               /\ req'[q].at = "call" => PlanShape(req'[q].plan, req'[q].viewer)
    <3> DEFINE plan == Asked(q, requested)
               u == req[q].target
    <3>1. u \in Users
      BY <1>3, <2>7 DEF RequestOK, UserOps
    <3>2. plan \in Seq(RoleChanges(u, requested))
      BY <3>1, RolePlanCalls DEF Asked
    <3> HIDE DEF plan, u
    <3>3. \A i \in DOMAIN plan : plan[i] \in RoleChanges(u, requested)
      BY <3>2
    <3>4. \A i \in DOMAIN plan : plan[i].op \in RoleCalls
      BY <3>3 DEF RoleChanges, RoleCalls
    <3>5. PlanShape(plan, req[q].viewer)
      BY <2>7, <3>4 DEF PlanShape, plan
    <3>6. QED BY <2>1, <2>7, <3>5 DEF plan
  <2>8. QED BY <1>1, <2>2, <2>3, <2>4, <2>5, <2>6, <2>7 DEF AdvancedTo
<1>5. \A p \in Requests : p = q \/ req'[p] = req[p]
  BY <1>1 DEF AdvancedTo, Moved, Ended
<1>6. UNCHANGED <<grants, accounts, posts, author, late>>
  BY <1>1 DEF stores, authzVars
<1>7. QED BY <1>1, <1>2, <1>4, <1>5, <1>6, OwnerStays

LEMMA InitOwner == Init => OwnerInv
BY DEF Init, OwnerInv

LEMMA OwnerNext ==
  ASSUME Faults = FALSE, IInv, OwnerInv, [Next]_vars
  PROVE  OwnerInv'
<1>1. ASSUME NEW q \in Requests, NEW op \in Ops, NEW v \in Users, NEW x, Begin(q, op, v, x)
      PROVE  OwnerInv'
  <2>1. /\ UNCHANGED <<grants, accounts, posts, author, drawn, late>> /\ v \in accounts
        /\ req[q] = None /\ req'[q].viewer = v /\ req'[q].at = "can"
        /\ \A p \in Requests \ {q} : req'[p] = req[p]
    BY <1>1, BeginIs DEF stores, authzVars
  <2>2. v \in drawn
    BY <2>1 DEF IInv, StoresOK, StoresType
  <2>3. QED BY <2>1, <2>2, OwnerStays DEF Calling
<1>2. ASSUME NEW q \in Requests, Advance(q)
      PROVE  OwnerInv'
  BY <1>2, OwnerAdvance
<1>3. ASSUME NEW q \in Requests, CallSucceeds(q)
      PROVE  OwnerInv'
  BY <1>3, OwnerSuccess
<1>4. ASSUME NEW q \in Requests, CallFails(q)
      PROVE  OwnerInv'
  BY <1>4, FailureSteps
<1>5. ASSUME NEW c \in late, Land(c)
      PROVE  OwnerInv'
  BY <1>5 DEF OwnerInv
<1>6. ASSUME NEW u \in Users, Register(u)
      PROVE  OwnerInv'
  <2>1. /\ UNCHANGED <<grants, posts, author, req, late>>
        /\ accounts' = accounts \cup {u} /\ drawn' = drawn \cup {u} /\ u \notin drawn
    BY <1>6, RegisterIs
  <2>2. ASSUME NEW p \in posts
        PROVE  author'[p] \in drawn' /\ InHands(author[p], p)'
    <3>1. PICK w : w = author[p] /\ w \in drawn /\ InHands(w, p)
      BY DEF OwnerInv
    <3>2. w \notin accounts => w \notin accounts'
      BY <2>1, <3>1
    <3>3. (Granted(w, p) => Granted(w, p)') /\ (Underway(w, p) => Underway(w, p)')
      BY <2>1 DEF Granted, Underway, Calling
    <3>4. InHands(w, p)'
      BY <3>1, <3>2, <3>3 DEF InHands
    <3>5. author'[p] = w
      BY <2>1, <3>1
    <3>6. QED BY <2>1, <3>1, <3>4, <3>5
  <2>3. QED BY <2>1, <2>2 DEF OwnerInv
<1>7. CASE UNCHANGED vars
  BY <1>7, OwnerStays DEF vars, authzVars
<1>8. QED BY <1>1, <1>2, <1>3, <1>4, <1>5, <1>6, <1>7, Steps

\* A grant over a post allows what it names.
LEMMA GrantMeansCan ==
  ASSUME NEW s, NEW a, NEW ref, <<s, a, ref>> \in grants
  PROVE  Can(s, a, ref)
<1>1. <<a, ref>> \in SubjectPatterns(s)
  BY DEF SubjectPatterns
<1>2. QED BY <1>1 DEF Can, Matches

LEMMA OwnerMeansOwns == OwnerInv => AuthorOwnsPost
<1> SUFFICES ASSUME OwnerInv, Quiet, NEW p \in posts, author[p] \in accounts,
                    NEW a \in ownershipActions
             PROVE  Can(UserRef(author[p]), a, PostRef(p))
  BY DEF AuthorOwnsPost
<1>1. InHands(author[p], p) /\ ~Underway(author[p], p)
  BY DEF OwnerInv, Quiet, Underway, Calling
<1>2. QED BY <1>1, GrantMeansCan DEF InHands, Granted

-----------------------------------------------------------------------------
(* Theorems.                                                               *)

\* With one request at a time some account can administer the site, whatever
\* failed and wherever a process stopped, unless a call took effect late: what
\* the checks of admin_users.go:117-119 and 237 are for.  Two administrators
\* at a time are not covered by them: see the run site_lockout.
THEOREM AdministratorStays ==
  ASSUME NEW q, Requests = {q}
  PROVE  Spec => []AdministratorRemains
<1>1. AdminInv => AdministratorRemains
  BY SiteAssumption DEF AdminInv, AdministratorRemains, IsAdmin, RolesOf, Administrator
<1>2. IInv /\ AdminInv /\ [Next]_vars => AdminInv'
  BY AdminNext
<1>3. QED BY <1>1, <1>2, InitAdmin, SpecInv, PTL DEF Spec

\* With one request at a time nothing is held, at rest, over a post or by an
\* account that is gone, whatever failed and wherever a process stopped: the
\* grants go before what they are over (README.md:159, admin_posts.go:206-209,
\* admin_users.go:243-252).
THEOREM NothingOrphaned ==
  ASSUME NEW q, Requests = {q}
  PROVE  Spec => []NoOrphans
<1>1. CleanInv => NoOrphans
  BY DEF CleanInv, Clean, NoOrphans, KnownPosts, KnownUsers
<1>2. IInv /\ CleanInv /\ [Next]_vars => CleanInv'
  BY CleanNext
<1>3. QED BY <1>1, <1>2, InitClean, SpecInv, PTL DEF Spec

\* However many requests race, while their calls succeed every post is, at
\* rest, in the hands of its author (admin_posts.go:95-115).
THEOREM AuthorsOwn ==
  ASSUME Faults = FALSE
  PROVE  Spec => []AuthorOwnsPost
<1>1. IInv /\ OwnerInv /\ [Next]_vars => OwnerInv'
  BY OwnerNext
<1>2. QED BY <1>1, InitOwner, OwnerMeansOwns, SpecInv, PTL DEF Spec
=============================================================================

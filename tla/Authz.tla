-------------------------------- MODULE Authz -------------------------------
(***************************************************************************)
(* The authorization service: authz/service.go and authz/match.go over     *)
(* authz/sqlite, with the vocabulary its migrations seed.  It keeps which  *)
(* subject holds which role and which grant, and resolves neither subjects *)
(* nor resources.                                                          *)
(*                                                                         *)
(* References and action names are sequences of segments; "*" as the last  *)
(* segment is the wildcard.  Each operation commits in one statement or in *)
(* one transaction, so each is one step.                                   *)
(***************************************************************************)
EXTENDS Sequences, SequencesExt

CONSTANT Roles  \* the roles in use, among the seeded ones

VARIABLES
  subjectRoles,  \* {<<subject, role>>}
  grants         \* {<<subject, action, resource>>}

authzVars == <<subjectRoles, grants>>

Wildcard == "*"

AnyAction == <<Wildcard>>
PostAction(verb) == <<"post", verb>>
UserAction(verb) == <<"user", verb>>
RoleAssign == <<"role", "assign">>

Everything == <<Wildcard>>
PostRef(p) == <<"content", "post", p>>
UserRef(u) == <<"auth", "user", u>>
AnyPost == PostRef(Wildcard)

LooseRolePermissions ==
  [admin  |-> {<<AnyAction, Everything>>},
   author |-> {<<<<"post", Wildcard>>, AnyPost>>},
   reader |-> {}]

RolePermissions ==
  [admin  |-> {<<AnyAction, Everything>>},
   author |-> {<<PostAction("create"), AnyPost>>},
   reader |-> {}]

ASSUME RolesAssumption == Roles \subseteq DOMAIN RolePermissions

\* ListRoles answers in this order.
RoleOrder == <<"admin", "author", "reader">>

-----------------------------------------------------------------------------
\* A wildcard matches the rest of a value, and only at the end of a pattern.
MatchesType(pattern, value) ==
  Front(pattern) = Front(value) \/ pattern = <<Wildcard>>

Matches(pattern, value) ==
  \/ pattern = value
  \/ /\ Last(pattern) = Wildcard
     /\ IsPrefix(Front(pattern), value) /\ Len(value) >= Len(pattern)

RolesOf(s) == {role \in Roles : <<s, role>> \in subjectRoles}

SubjectPatterns(s) ==
  (UNION {RolePermissions[role] : role \in RolesOf(s)})
    \cup {<<g[2], g[3]>> : g \in {h \in grants : h[1] = s}}

Can(s, action, resource) ==
  \E pattern \in SubjectPatterns(s) :
    Matches(pattern[1], action) /\ Matches(pattern[2], resource)

\* InsertSubjectRole and InsertGrants are idempotent, deletions quiet.
AssignRole(s, role) ==
  /\ role \in Roles
  /\ subjectRoles' = subjectRoles \cup {<<s, role>>}
  /\ UNCHANGED grants

RevokeRoleAndGrants(s, role) ==
  /\ subjectRoles' = subjectRoles \ {<<s, role>>}
  /\ grants' = {g \in grants : g[1] # s}

RevokeRole(s, role) ==
  /\ subjectRoles' = subjectRoles \ {<<s, role>>}
  /\ UNCHANGED grants

GrantOverAll(s, actions, resource) ==
  /\ grants' = grants \cup {<<s, a, AnyPost>> : a \in actions}
  /\ UNCHANGED subjectRoles

Grant(s, actions, resource) ==
  /\ grants' = grants \cup {<<s, a, resource>> : a \in actions}
  /\ UNCHANGED subjectRoles

\* DeleteBySubject: grants and roles in one transaction.
PurgeSubject(s) ==
  /\ grants' = {g \in grants : g[1] # s}
  /\ subjectRoles' = {x \in subjectRoles : x[1] # s}

PurgeResource(resource) ==
  /\ grants' = {g \in grants : g[3] # resource}
  /\ UNCHANGED subjectRoles
=============================================================================

SPECIFICATION Spec
CONSTANTS
  q1 = q1
  q2 = q2
  u1 = u1
  u2 = u2
  p1 = p1
  None = None
  Users = {u1, u2}
  Posts = {p1}
  Requests = {q1, q2}
  Roles = {"admin", "author"}
  Faults = FALSE
  MaxLate = 0
CHECK_DEADLOCK FALSE
SYMMETRY SiteSymmetry
INVARIANTS
  TypeOK
  AuthorOwnsPost
  OnlyOwnersTouch

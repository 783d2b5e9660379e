SPECIFICATION Spec
CONSTANTS
  q1 = q1
  q2 = q2
  u1 = u1
  u2 = u2
  p1 = p1
  None = None
  Users = {u1, u2}
  Posts = {p1}
  Requests = {q1}
  Roles = {"admin", "author"}
  Faults = TRUE
  MaxLate = 1
CHECK_DEADLOCK FALSE
SYMMETRY SiteSymmetry
INVARIANTS
  OnlyOwnersTouch
  NoOrphans
  AdministratorRemains

SPECIFICATION Spec
CONSTANTS
  r1 = r1
  r2 = r2
  p1 = p1
  p2 = p2
  a1 = a1
  a2 = a2
  b1 = b1
  b2 = b2
  None = None
  Posts = {p1, p2}
  Authors = {a1}
  Bodies = {b1}
  Requests = {r1, r2}
  MaxTime = 1
CHECK_DEADLOCK FALSE
INVARIANTS
  TypeOK
  PublishedHasDate
PROPERTIES
  DeletedStaysDeleted
  CurrentWriteFollowsLifecycle

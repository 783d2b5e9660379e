SPECIFICATION Spec
CONSTANTS
  q1 = q1
  q2 = q2
  u1 = u1
  u2 = u2
  s1 = s1
  s2 = s2
  None = None
  Users = {u1}
  Sessions = {s1, s2}
  Usernames = {"ann"}
  Passwords = {"old", "new"}
  Algorithms = {"bcrypt"}
  Preferred = "bcrypt"
  Requests = {q1, q2}
  TTL = 2
  TouchAfter = 1
  MaxTime = 2
INVARIANT
  ChosenPasswordHolds

SPECIFICATION FairSpec
CONSTANTS
  q1 = q1
  q2 = q2
  u1 = u1
  u2 = u2
  s1 = s1
  s2 = s2
  None = None
  Users = {u1, u2}
  Sessions = {s1}
  Usernames = {"ann", "bob"}
  Passwords = {"old", "new"}
  Algorithms = {"bcrypt", "argon2id"}
  Preferred = "bcrypt"
  Requests = {q1}
  TTL = 2
  TouchAfter = 1
  MaxTime = 3
INVARIANT
  ChosenPasswordHolds
PROPERTY
  EverySessionEnds

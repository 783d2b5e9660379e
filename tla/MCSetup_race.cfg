SPECIFICATION FairSpec
CONSTANTS
  s1 = s1
  s2 = s2
  s3 = s3
  g1 = g1
  Setups = {s1, s2, s3}
  Registrations = {g1}
  NameOf <- MCNameOf
  RegistrationOpen = TRUE
  HookAttempts = 2
  StoreFaults = TRUE
  HookFaults = TRUE
CHECK_DEADLOCK FALSE
INVARIANTS
  TypeOK
  AtMostOneAdministrator
  WinnerAdministers
  FailureLeavesNoAccount
PROPERTIES
  SeatIsRespected
  EveryRequestAnswered

\* Every page of the model, with every fault of the network.
SPECIFICATION Spec
CONSTANTS
  Requests = {q1}
  Tokens = {t1}
  None = None
INVARIANTS
  TypeOK
  NobodyIsSignedOutByAFailure
  NothingWithoutPermission
  AnswersAreTrue
PROPERTIES
  CallsKeepTheirContract
  EveryPageIsAnswered
CHECK_DEADLOCK FALSE

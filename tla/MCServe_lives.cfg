\* A process from start to exit, whatever fails or hangs.  It really stops.
SPECIFICATION Spec
CONSTANTS
  Requests = {r1, r2}
  MaxOpenConns = 2
  MaxUnits = 2
  None = None
INVARIANTS
  TypeOK
  CleanExit
  NoClosedPoolInGoodOrder
PROPERTIES
  SignalEnds
  ProbesAreAnswered
  PagesAreAnswered
CHECK_DEADLOCK FALSE

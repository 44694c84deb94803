SPECIFICATION Spec
CONSTANTS
  None = None
  Boards = {"pi5", "x20"}
  MaxRequests = 0
  MaxCards = 0
  MaxCuts = 0
  MaxIoFaults = 0
  MaxMishaps = 0
INVARIANT DebugIsPersisted
CHECK_DEADLOCK FALSE

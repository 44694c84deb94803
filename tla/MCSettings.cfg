SPECIFICATION FairSpec
CONSTANTS
  None = None
  Boards = {"pi5", "x20"}
  MaxRequests = 2
  MaxCards = 1
  MaxCuts = 1
  MaxIoFaults = 1
  MaxMishaps = 2
INVARIANTS
  TypeOK
  AskedIsKept
  CachesAgree
  HostnameFollowsRole
  X20IsAir
PROPERTY BootSettles
CHECK_DEADLOCK FALSE

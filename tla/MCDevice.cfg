\* one user of each part of the unit
SPECIFICATION Spec
CONSTANTS
  None = None
  NoCamera = NoCamera
  Boards <- MCBoards
  Units <- MCUnits
  FirstGates = {"open", "unreadable"}
  Size <- MCSize
  Layouts <- MCLayouts
  Views = {"none"}
  Stages = {"empty"}
  BootFiles <- MCBootFiles
  Ids <- MCIds
  Camera2 <- MCCamera2
  Threads = 2
  LinkRequests <- MCLinkRequests
  MaxLink = 2
  ScanNames <- MCScanNames
  Aliases <- MCAliases
  KnownSerials <- MCKnownSerials
  BoardPorts <- MCBoardPorts
  Adapters <- MCAdapters
  MaxStrays = 2
  MaxFaults = 1
  MaxMishaps = 2
  MaxRequests = 2
INVARIANTS
  TypeOK
  VideoIsRecordings
  HoldWhileFormatting
  BootFileIsSound
  StockTuningIsKept
  OneRenderer
  OnePipeline
  LinkAnswersAreTrue
  RolesFollowPorts
PROPERTIES
  FormatsOnlyUnused

\* the cards on a system whose lsblk gives START
SPECIFICATION Spec
CONSTANTS
  None = None
  NoCamera = NoCamera
  Boards <- MCBoards
  Units <- CardUnits
  FirstGates = {"open"}
  Size <- MCSize
  Layouts <- MCLayouts
  Views = {"sectors"}
  Stages = {"empty"}
  BootFiles <- MCBootFiles
  Ids <- MCIds
  Camera2 <- MCCamera2
  Threads = 1
  LinkRequests = {}
  MaxLink = 0
  ScanNames <- MCScanNames
  Aliases <- MCAliases
  KnownSerials <- MCKnownSerials
  BoardPorts <- MCBoardPorts
  Adapters <- MCAdapters
  MaxStrays = 0
  MaxFaults = 0
  MaxMishaps = 0
  MaxRequests = 0
PROPERTY FormatsOnlyGrowable

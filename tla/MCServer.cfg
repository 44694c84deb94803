SPECIFICATION FairSpec
CONSTANTS
  Clients = {c1, c2}
  Scripts <- MCScripts
  Newline = nl
  None = None
  MaxLine = 2
  Chunk = 2
  Pieces = {4, 9}
  MaxHangUps = 1
  MaxLost = 1
INVARIANTS
  TypeOK
  LinesArriveWhole
  AnswersInOrder
PROPERTIES
  WrittenIsHandled
  StopEnds
CHECK_DEADLOCK FALSE

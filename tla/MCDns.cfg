SPECIFICATION Spec
CONSTANTS
  MaxHost = 4
  MaxLabel = 3
  MaxTxt = 7
  MaxEntries = 2
  MaxRecords = 5
  DefaultTtl = 300
  MaxJumps = 2
  NameRoom = 6
  ChunkMax = 3
  MinOut = 16
  OutMax = 80
  Sections <- MCSections
  Datagrams <- MCDatagrams
CHECK_DEADLOCK FALSE
INVARIANT AnswersExact
PROPERTY HandlerReturns

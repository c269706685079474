SPECIFICATION Spec
CONSTANTS
  MaxRead = 4
  DefaultCap = 5
  MaxCap = 20
  MaxLine = 2
  MaxHeaders = 2
  MaxBody = 2
  MaxChunk = 2
  MaxSizeLine = 4
  Visits <- MCVisits
  ReadSize = 3
  MaxSend = 2
  Word = 16
CHECK_DEADLOCK FALSE
INVARIANT FreedOnce

SPECIFICATION Spec
CONSTANTS
  InitCap = 1
  MaxKeyLen = 4
  SafeInt = 5
  StrCap = 2
  ItemsCap = 1
  NumBuf = 7
  MaxExp = 4
  MaxValueLen = 8
  Keys <- MCKeys
  Values <- MCValues
  BufLen = 200
  EditChars <- MCEditChars
  MaxEditLen <- MCMaxEditLen
INVARIANTS PairsInRoom RoundTrip FitsExactly NoLeak PathsResolve
PROPERTIES RefinesMap CallsRefine
CHECK_DEADLOCK FALSE

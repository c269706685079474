SPECIFICATION Spec
CONSTANTS
  Kinds = {"plain", "framed", "unframed", "tunnel", "forward"}
  NRequest = 2
  NClient = 4
  NResponse = 5
  HeadLen = 3
  MaxHead = 1
  MaxAhead = 2
  MaxRead = 3
CHECK_DEADLOCK FALSE
INVARIANTS TypeOK RequestInOrder ResponseInOrder ClosedComplete
PROPERTY RelayedToTheEnd

SPECIFICATION Spec
CONSTANTS
  Kinds = {"tunnel", "forward"}
  NRequest = 2
  NClient = 4
  NResponse = 4
  HeadLen = 3
  MaxHead = 1
  MaxAhead = 2
  MaxRead = 3
CHECK_DEADLOCK FALSE
INVARIANT RawInOrder

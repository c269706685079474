SPECIFICATION Spec
CONSTANTS
  p1 = p1
  p2 = p2
  p3 = p3
  Peers = {p1, p2}
  NoPeer = NoPeer
  Workers = {1, 2}
  Stream <- TwoStreams
  Meant <- TwoMeant
  LongHalf = 16
  MaxFd = 3
  Backlog = 2
  ChanCap = 1
  MaxReq = 3
  CapStart = 2
  BufMax = 4
INVARIANTS TypeOK DescriptorsExclusive BufferBounded RepliesMatchRequests ConnectionsPrivate
CHECK_DEADLOCK FALSE

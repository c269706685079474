SPECIFICATION Spec
CONSTANTS
  p1 = p1
  p2 = p2
  p3 = p3
  Peers = {p1, p2, p3}
  NoPeer = NoPeer
  Workers = {1}
  Stream <- ThreeStreams
  Meant <- ThreeMeant
  LongHalf = 16
  MaxFd = 3
  Backlog = 2
  ChanCap = 1
  MaxReq = 2
  CapStart = 2
  BufMax = 3
PROPERTY EveryoneIsServed
CHECK_DEADLOCK FALSE

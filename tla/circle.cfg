CONSTANTS
  Conn = {c1, c2}
  Subscribers <- EachOther
  StreamCap = 1
  ChanCap = 1
  MaxPublish = 7
SPECIFICATION FairSpec
CHECK_DEADLOCK FALSE
INVARIANTS TypeOK
PROPERTIES WaitEnds

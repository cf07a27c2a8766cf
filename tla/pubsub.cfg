CONSTANTS
  c1 = c1
  c2 = c2
  c3 = c3
  Conn = {c1, c2, c3}
  Object = {}
  Topic = {t1}
  CallId = {}
  Nil = Nil
  Activated = {}
  LongNames <- ShortNames
  ChanCap = 2
  UnitConn = {}
  Sends <- PubSubSends
  MaxReads = 2
SPECIFICATION FairSpec
CHECK_DEADLOCK FALSE
INVARIANTS NoResidue EventsInOrder
PROPERTIES EventDelivered

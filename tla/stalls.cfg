CONSTANTS
  c1 = c1
  c2 = c2
  c3 = c3
  Conn = {c1, c2}
  Object = {o1}
  Topic = {t1}
  CallId = {k1, k2}
  Nil = Nil
  Activated = {}
  LongNames <- LongErrors
  ChanCap = 1
  UnitConn = {}
  Sends <- StallSends
  MaxReads = 2
SPECIFICATION FairSpec
CHECK_DEADLOCK FALSE
INVARIANTS NoGridlock
PROPERTIES CallsServed DisconnectCleaned

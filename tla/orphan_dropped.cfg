CONSTANTS
  c1 = c1
  c2 = c2
  c3 = c3
  Conn = {c1, c2}
  Object = {o1}
  Topic = {}
  CallId = {k1, k2}
  Nil = Nil
  Activated = {o1}
  LongNames <- ShortNames
  ChanCap = 1
  UnitConn = {}
  Sends <- OrphanSends
  MaxReads = 2
SPECIFICATION Spec
CHECK_DEADLOCK FALSE
PROPERTIES DropsOnlyOrphans

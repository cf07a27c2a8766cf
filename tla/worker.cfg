CONSTANTS
  o1 = o1
  o2 = o2
  k1 = k1
  k2 = k2
  k3 = k3
  Object = {o1, o2}
  CallId = {k1, k2, k3}
  ObjectOf <- Objects
  Large = {k2}
  Nil = Nil
  Graceful = TRUE
  MaxOutages = 2
  MaxInterrupts = 2
SPECIFICATION FairSpec
CHECK_DEADLOCK FALSE
INVARIANTS TypeOK EndsOnRequest AnswersInOrder
PROPERTIES GracefulShutdown RegisteredAgain

CONSTANTS
  rob = rob
  Object = {rob}
  CallId = {}
  ObjectOf <- AllOfRob
  Large = {}
  Nil = Nil
  Graceful = FALSE
  MaxOutages = 0
  MaxInterrupts = 1
  Debug = FALSE
  MaxConnects = 0
SPECIFICATION ProcessSpec
CHECK_DEADLOCK FALSE
PROPERTIES InterruptHeeded

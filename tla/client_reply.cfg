CONSTANTS
  call1 = call1
  call2 = call2
  big = big
  has = has
  pub = pub
  sub = sub
  Nil = Nil
  Op = {call1, sub}
  Oversized = {}
  KindOf <- Kinds
  QueueCap = 2
  UpdatesCap = 1
  MaxEvents = 1
SPECIFICATION Spec
CHECK_DEADLOCK FALSE
INVARIANTS ReplyMatches

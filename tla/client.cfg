CONSTANTS
  call1 = call1
  call2 = call2
  big = big
  has = has
  pub = pub
  sub = sub
  Nil = Nil
  Op = {call1, big, has, sub}
  Oversized = {big}
  KindOf <- Kinds
  QueueCap = 2
  UpdatesCap = 1
  MaxEvents = 2
SPECIFICATION FairSpec
CHECK_DEADLOCK FALSE
INVARIANTS TypeOK RepliesMatch NoGap
PROPERTIES NoRepeat MethodReturns ActorTerminates

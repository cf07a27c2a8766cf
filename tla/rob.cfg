CONSTANTS
  Char <- Chars
  Arg <- Args
  Flag = {"-v"}
  Number <- Numbers
  MaxSig = 4
  MaxArgs = 3
SPECIFICATION Spec
CHECK_DEADLOCK FALSE
INVARIANTS ParsesReference

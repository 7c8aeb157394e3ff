CONSTANTS
  ShortBits = 4
  IntBits = 5
  LongBits = 7
  BufSize = 12
  Strings <- Memory
  Inputs <- Calls
SPECIFICATION Spec
INVARIANT PrintsRight
PROPERTY Returns
CHECK_DEADLOCK FALSE

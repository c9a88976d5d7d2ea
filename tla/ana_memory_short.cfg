SPECIFICATION Spec
CONSTANTS
  ArenaSize <- MCArenaSize
  ANASIZEHASH = 3
  Items = {i1, i2, i3}
  Requests <- MCRequests
CHECK_DEADLOCK FALSE
INVARIANT DeepCheck

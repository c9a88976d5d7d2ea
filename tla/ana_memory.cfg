SPECIFICATION Spec
CONSTANTS
  ArenaSize <- MCArenaSize
  ANASIZEHASH = 3
  Items = {i1, i2, i3, i4}
  Requests <- MCRequests
CHECK_DEADLOCK FALSE
INVARIANTS TypeOK Partition Chain SizeLists Coalesced Counters
PROPERTIES KeepsPromise CallsReturn

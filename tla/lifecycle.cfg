SPECIFICATION Spec
CONSTANTS
  NUMSTYLES = 3
  Page = "page"
  Formats <- MCFormats
  Buffers = {b1, b2, b3}
  MaxFaults = 2
CHECK_DEADLOCK FALSE
INVARIANTS OwnBuffer Released

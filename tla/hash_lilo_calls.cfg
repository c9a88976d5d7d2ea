CONSTANTS
  Elements <- ShortNumbers
  ancestor <- ShortAncestor
  Charge <- ShortCharge
  Capacity = 2
  HtableSize = 2
  n_levels = 3
  Cells = {c1, c2, c3}
  Junk <- SomeJunk
SPECIFICATION Spec
CHECK_DEADLOCK FALSE
PROPERTIES FetchReturns

CONSTANTS
  Elements <- Numbers
  ancestor <- BookAncestor
  Charge <- BookCharge
  Capacity = 4
  HtableSize = 3
  n_levels = 3
  Cells = {c1, c2, c3, c4, c5, c6}
  Junk <- SomeJunk
SYMMETRY CellSymmetry
SPECIFICATION Spec
CHECK_DEADLOCK FALSE
INVARIANTS TypeOK Consistent Counted Bounded PathsRight InScope
PROPERTIES KeepsPromise

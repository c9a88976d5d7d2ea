CONSTANTS
  Elements <- Numbers
  ancestor <- BookAncestor
  Charge <- BookCharge
  Capacity = 4
  HtableSize = 3
  n_levels = 2
  Cells = {c1, c2, c3, c4}
  Junk <- SomeJunk
SYMMETRY CellSymmetry
SPECIFICATION Spec
CHECK_DEADLOCK FALSE
INVARIANTS PathsFit

CONSTANTS
  Sessions <- MCSessions
  Lists <- MCLists
  Numbers = {1, 2}
  Starts = {0, 1, 2, 3}
  Nums = {1, 2}
  Indexes <- MCIndexes
  Faults <- MCFaults
  Writable <- MCWritable
SPECIFICATION Spec
CHECK_DEADLOCK FALSE
INVARIANTS Marked Selects Kin Combines LookupWhole PostingsRead Pages

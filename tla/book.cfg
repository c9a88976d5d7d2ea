SPECIFICATION Spec
CONSTANTS
  MAXMSS = 4
  Books <- AllBooks
  Args <- SomeArgs
  Offs <- SomeOffs
  Counts <- SomeCounts
  Exclusions <- SomeExclusions
  Builds <- SomeBuilds
  TypeParts <- SomeTypeParts
  Conds <- SomeLists
  Pages <- SomePages
INVARIANTS FindsNth PathsInvert NextSpan PrevSpan WholeWords KwicContiguous FindsReadings

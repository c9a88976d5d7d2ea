SPECIFICATION Spec
CONSTANTS
  MAXMSS = 4
  Books <- Collated
  Args <- SomeArgs
  Offs <- SomeOffs
  Counts <- SomeCounts
  Exclusions <- SomeExclusions
  Builds <- UsualBuilds
  TypeParts <- SomeTypeParts
  Conds <- SomeLists
  Pages <- SomePages
INVARIANT MadeIsRead

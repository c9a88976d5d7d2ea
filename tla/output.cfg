SPECIFICATION Spec
CONSTANTS
  Els <- MCEls
  Child <- MCChild
  Rsib <- MCRsib
  Ancestor <- MCAncestor
  Kind <- MCKind
  TextLen <- MCTextLen
  Styled <- MCStyled
  Hides = {0, 1, 2}
  Searches <- AnyHit
  Spans = {}
  Starts = {1, 2}
  StartEls = {4}
  MaxStartEls = 1
  MaxFaults = 1
  MaxSpans = 0
  outputSiblings = TRUE
  outputRight = TRUE
  outputMax = 4
CHECK_DEADLOCK FALSE
INVARIANTS Nested DocumentOrder ClonesDisposed
PROPERTIES StopsWhenTold OutputEnds

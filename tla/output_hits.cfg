SPECIFICATION Spec
CONSTANTS
  Els <- MCEls
  Child <- MCChild
  Rsib <- MCRsib
  Ancestor <- MCAncestor
  Kind <- MCKind
  TextLen <- MCTextLen
  Styled <- MCStyled
  Hides = {0, 2}
  Searches <- MCSearches
  Spans <- MCSpans
  Starts = {1, 4}
  StartEls = {}
  MaxStartEls = 0
  MaxFaults = 1
  MaxSpans = 1
  outputSiblings = TRUE
  outputRight = TRUE
  outputMax = 3
CHECK_DEADLOCK FALSE
INVARIANTS CursorOnHit HitsPaired TextComplete

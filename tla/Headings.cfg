SPECIFICATION Spec
CONSTANTS
  Levels = {1, 3}
  GivenIds <- GivenIdsValue
  Toc = {TRUE, FALSE}
  Prefixed = FALSE
  MaxHeadings = 3
  MaxRenders = 2
INVARIANTS IdsUnique ContentsNested FirstAnchorsResolve
PROPERTIES RendersEnd
CHECK_DEADLOCK FALSE

SPECIFICATION Spec
CONSTANTS
  Levels = {1}
  GivenIds <- NoGivenIds
  Toc = {TRUE}
  Prefixed = FALSE
  MaxHeadings = 1
  MaxRenders = 2
INVARIANTS AnchorsResolve
CHECK_DEADLOCK FALSE

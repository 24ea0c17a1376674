CONSTANTS
  Node = {1, 2, 3, 4, 5, 6}
  None = None
  MaxBlocks = 3
SPECIFICATION WSpec
INVARIANTS
  VisitedOnce
  ContentInlinedOnce
PROPERTY WalksEnd
CHECK_DEADLOCK FALSE

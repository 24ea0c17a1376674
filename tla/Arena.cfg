CONSTANTS
  Node = {n1, n2, n3, n4}
  None = None
SPECIFICATION ArenaSpec
INVARIANTS
  ArenaTypeOK
  LinksAgree
  ArenaForest
PROPERTY TreeSpec
CHECK_DEADLOCK FALSE

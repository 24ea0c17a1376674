SPECIFICATION Spec
CONSTANTS
  N = 2
  Overridings <- MCOverridings
  MaxPieces = 1
  MaxDocRefs = 2
  MaxItems = 9
INVARIANT NumbersMatchList
PROPERTIES EntriesKeepText EventuallyDone
CHECK_DEADLOCK FALSE

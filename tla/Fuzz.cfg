CONSTANTS
  Results = {"out", "other", "hang", "die"}
  PromptReaders = TRUE
  MaxInputs = 2
SPECIFICATION FuzzSpec
INVARIANTS RepliesAreOwn NoChildLeft ReportsAreTrue
PROPERTY LeftoversEnd
CHECK_DEADLOCK FALSE

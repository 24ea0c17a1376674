CONSTANTS
  Cases = {}
  Documents <- MCEndings
  Refs <- MCRefs
  MaxNesting = 2
  MaxRewind = 6
  Width = 64
  MaxRune = 20
  Surrogates = {12, 13}
  Windows = {8, 9}
  Coded <- MCCoded
SPECIFICATION DocSpec
INVARIANT NeverPanics
CHECK_DEADLOCK FALSE

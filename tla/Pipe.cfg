SPECIFICATION FairSpec
CONSTANTS
  Clients = {c1, c2}
  Nobody = nobody
  Callbacks = {"returns", "panics", "reenters"}
  HelperCrashes = TRUE
  MaxCalls = 2
  MaxRefs = 2
INVARIANTS OnlyHolderExchanges OneFrame OnlyAbandonedAnswersStray
PROPERTIES ServiceSpec EveryCallEnds
CHECK_DEADLOCK FALSE

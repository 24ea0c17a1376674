CONSTANT Configs <- MCConfigs
SPECIFICATION HSpec
INVARIANTS WellFormed TextsInOrder BodyStartsClean
CHECK_DEADLOCK FALSE

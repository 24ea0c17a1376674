CONSTANT Configs <- MCConfigs
SPECIFICATION SmartSpec
INVARIANTS EachReadOnce DatesKept
PROPERTY QuotesAlternate

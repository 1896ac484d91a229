SPECIFICATION RetentionFairSpec
CONSTANTS
  Window = 2
  Granularities = {"hourly", "daily"}
  Length <- MCLength
  MaxTime = 6
  MaxFaults = 2
INVARIANTS NoDoubleCount RollupBeforeTruncate
PROPERTY ExpiredLeaves

SPECIFICATION FairSpec
CONSTANTS
  Engines = {e1}
  Tasks = {t1}
  System = sys
  MaxAttempts = 1
  Threshold = 1
  MaxOps = 0
  None = none
PROPERTIES SickEndsIsolated OverdueIsReported

SPECIFICATION Spec
CONSTANTS
  Engines = {e1}
  Tasks = {t1}
  System = sys
  MaxAttempts = 1
  Threshold = 2
  MaxOps = 1
  None = none
INVARIANTS ExhaustedIsIsolated NoRecoveryLoop

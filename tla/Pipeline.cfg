SPECIFICATION FairSpec
CONSTANTS
  p = p
  q = q
  a = a
  b = b
  c = c
  None = none
  Plans = {p, q}
  Tasks = {a, b, c}
  Stages <- MCStages
  Deps <- MCDeps
  FailFast = {b, c}
  Undoable = {a, c}
  AutoRecover = TRUE
  MaxRecovery = 2
  Cap = 2
  MaxSkipped = 1
  MaxCalls = 2
INVARIANTS DependenciesFirst NoTaskOutlivesItsRun FailureIsKept NothingUndoneTwice
PROPERTY CallsEnd
CHECK_DEADLOCK FALSE

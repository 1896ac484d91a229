SPECIFICATION SchedulerFairSpec
CONSTANTS
  every = every
  after = after
  onEvent = onEvent
  t1 = t1
  t2 = t2
  p = p
  Jobs = {every, after, onEvent}
  Kind <- MCKind
  Interval <- MCInterval
  Deps <- MCDeps
  MaxRuns <- MCMaxRuns
  Configured = {every}
  Tickers = {t1, t2}
  Publishers = {p}
  NoJob = NoJob
  MaxTime = 1
  MaxRestarts = 1
  MaxEvents = 1
INVARIANTS NoOverlap OncePerDate DependencyHeld
PROPERTY DueRuns
CHECK_DEADLOCK FALSE

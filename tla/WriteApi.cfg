SPECIFICATION ApiFairSpec
CONSTANTS
  Runs = {r1}
  Callers = {a, b}
  Fallback = TRUE
  MaxRestarts = 2
  MaxLapses = 2
  None = none
  RequireToken = TRUE
  Wired = TRUE
  MaxRequests = 2
  MaxFaults = 1
INVARIANTS ProviderIsHonest RunsAreOnRecord
PROPERTIES CancelledStaysCancelled RestartKeepsOutcomes RunsEnd

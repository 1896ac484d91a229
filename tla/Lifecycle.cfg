SPECIFICATION FairSpec
CONSTANTS
  NoState = NoState
  a = a
  b = b
  Engines = {a, b}
  Registered <- MCRegistered
  Graphs <- MCGraphs
  Workers <- MCWorkers
  MaxThreads = 2
  MaxCalls = 2
INVARIANTS OneThread
PROPERTIES DependentsStopFirst CallsEnd
CHECK_DEADLOCK FALSE

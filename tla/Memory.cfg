SPECIFICATION MemorySpec
CONSTANTS
  a = a
  b = b
  runtime = runtime
  Callers = {a, b, runtime}
  Residents = {runtime}
  Ids = {1, 2}
  Tags = {s, t}
  AutoPurge = TRUE
  NoTag = NoTag
  Nil = Nil
  MaxRequests = 3
  MaxFaults = 1
INVARIANTS WrittenIsKept FoundByTag
SYMMETRY CommandsAlike
CHECK_DEADLOCK FALSE

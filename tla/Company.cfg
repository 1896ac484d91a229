SPECIFICATION Spec
CONSTANTS
  Callers = {c1, c2}
  Depts = {d1, d2}
  Founded = {d1}
  Executives = {ceo}
  Specialists = {expert}
  Workflows = {flow}
  Names = {n1, n2}
  None = none
  Nobody = nobody
  MaxCalls = 4
  MaxFaults = 1
SYMMETRY Threads
INVARIANTS  BuildIsWhole OnePicture PassedMeansBuildable
CHECK_DEADLOCK FALSE

SPECIFICATION InboxSpec
CONSTANTS
  manager = manager
  board = board
  requester = requester
  Nobody = nobody
  Callers = {c1, c2}
  Roles = {manager, board, requester}
  Requester = requester
  Superior <- MCSuperior
  Owners = {manager}
  Rules <- MCRules
  Policies <- MCPolicies
  MaxTime = 1
  MaxCalls = 3
  MaxFaults = 2
INVARIANTS InboxIsFile NothingUnrecorded RecordedOnce
SYMMETRY Symmetry
CHECK_DEADLOCK FALSE

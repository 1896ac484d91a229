SPECIFICATION FeedSpec
CONSTANTS
  p = p
  q = q
  Callers = {p, q}
  ledger = ledger
  Standing <- MCStanding
  Bridge = Bridge
  MaxRecords = 1
  ReplayLimit = 1
  QueueCap = 1
  MaxEvents = 2
  MaxExtras = 2
INVARIANTS FeedComplete NoSilentDrop LettersSurvive
SYMMETRY CallersAlike
CHECK_DEADLOCK FALSE

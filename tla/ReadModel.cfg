SPECIFICATION ReadFairSpec
CONSTANTS
  Blank = Blank
  events = events
  usage = usage
  Streams <- MCStreams
  Keyed = {events}
  ModelOf <- MCModelOf
  NoMark = NoMark
  Limit = 1
  MaxLines = 2
  MaxRebuilds = 2
  MaxFaults = 1
INVARIANTS NothingSkipped AnswersAgree
PROPERTIES Mirrored IsView
CHECK_DEADLOCK FALSE

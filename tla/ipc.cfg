SPECIFICATION FairSpec
CONSTANTS
  x = x
  y = y
  Payloads = {x, y}
  Size = 3
  Faults = {"crash"}
  MaxCalls <- AtMost
  MaxMoves = 1
CHECK_DEADLOCK FALSE
INVARIANTS
  NeverFatal
  WholeOrGone
PROPERTIES
  ChannelKept
  CallReturns

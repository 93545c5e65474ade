SPECIFICATION FairSpec
CONSTANTS
  x = x
  y = y
  Payloads = {x}
  Size = 3
  Faults = {}
  MaxCalls <- AtMost
  MaxMoves = 0
CHECK_DEADLOCK FALSE
PROPERTIES
  NonBlockingReturns

SPECIFICATION Spec
CONSTANTS
  main = main
  viewer = viewer
  b1 = b1
  b2 = b2
  b3 = b3
  NoBuf = NoBuf
  Users = {main, viewer}
  FrameUsers = {main, viewer}
  InputUsers = {main, viewer}
  Buffers = {b1, b2, b3}
  Sizes <- TwoSizes
  Faults = {"slow", "drop", "coalesce"}
  OthersOpen = {0, 1}
  AllowUnsafe = FALSE
  MaxCalls = 1
  MaxResizes = 1
CHECK_DEADLOCK FALSE
INVARIANTS
  LoopInsideObject
  OpenCountRestored
  WakeupNotLost
PROPERTIES
  ServiceKept

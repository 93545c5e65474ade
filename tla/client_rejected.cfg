CHECK_DEADLOCK FALSE
SPECIFICATION FairSpec
CONSTANTS
  main = main
  viewer = viewer
  b1 = b1
  b2 = b2
  b3 = b3
  NoBuf = NoBuf
  Users = {main}
  FrameUsers = {main}
  InputUsers = {}
  Buffers = {b1, b2, b3}
  Sizes <- OneSize
  Faults = {}
  OthersOpen = {1}
  AllowUnsafe = FALSE
  MaxCalls = 1
  MaxResizes = 0
PROPERTIES
  RejectedConnectReturns

SPECIFICATION FairSpec
CONSTANTS
  main = main
  viewer = viewer
  b1 = b1
  b2 = b2
  b3 = b3
  NoBuf = NoBuf
  Users = {main, viewer}
  FrameUsers = {main, viewer}
  InputUsers = {main}
  Buffers = {b1, b2, b3}
  Sizes <- TwoSizes
  Faults = {}
  OthersOpen = {0}
  AllowUnsafe = FALSE
  MaxCalls = 2
  MaxResizes = 1
INVARIANTS
  NeverGivesUp
  BuffersOwned
  UpdatesFit
  InputInOrder
PROPERTIES
  FrameArrives
  DestroyCompletes

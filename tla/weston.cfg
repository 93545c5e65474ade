SPECIFICATION FairSpec
CONSTANTS
  desk1 = desk1
  desk2 = desk2
  Backends = {desk1, desk2}
  Foreign = {0}
  MaxBreaks = 1
CHECK_DEADLOCK FALSE
INVARIANTS
  SearchBounded
  PortIsOurs
  DisplayComesWhole
  NothingLeft
  CommandInsideServer
PROPERTIES
  StartReturns

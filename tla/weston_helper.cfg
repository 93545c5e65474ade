SPECIFICATION FairSpec
CONSTANTS
  desk1 = desk1
  desk2 = desk2
  Backends = {desk1}
  Foreign = {}
  MaxBreaks = 1
CHECK_DEADLOCK FALSE
PROPERTIES
  HelperEndsWithWeston

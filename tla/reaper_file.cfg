SPECIFICATION Spec
CONSTANTS
  MaxProcs = 1
  MaxCleanUps = 0
  Faults = {"crash"}
INVARIANTS
  FileRemovedAfterParentExit

SPECIFICATION FairSpec
CONSTANTS
  MaxProcs = 3
  MaxCleanUps = 2
  Faults = {"slow", "crash", "signal", "kill"}
INVARIANTS
  
  FinishedMeansGone
  CleanUpTruthful
  LaunchedMeansReaped
  NoZombieForgotten
PROPERTIES
  ServiceKept
  CleanUpDone
  LaunchAnswered

SPECIFICATION FairSpec
CONSTANTS
  p1 = p1
  p2 = p2
  x = x
  y = y
  Procs = {p1, p2}
  Pids = {1, 2}
  MaxFds = 11
  Inherited = {1, 2, 4}
  Environ <- TheEnviron
  Names = {x, y}
  Chars = {"a", "b", "c", "d"}
  Requests <- TheRequests
  Faults = {"spawn", "waits"}
CHECK_DEADLOCK FALSE
INVARIANTS
  StreamsAsAsked
  EndOfFileComes
  FdsOwned
  EnvironmentAsAsked
  SignalsOwnChild
  DestroyedIsKilled
PROPERTIES
  DestroyCompletes

SPECIFICATION Spec
CONSTANTS
  LastLayer = 1
  LastPage = 2
  SyncOnAttach = FALSE
  MaxOps = 2
  MaxFaults = 1
  MaxCrashes = 0
CHECK_DEADLOCK FALSE
INVARIANT NeverStale

SPECIFICATION Spec
CONSTANTS
  LastLayer = 1
  LastPage = 2
  SyncOnAttach = TRUE
  MaxOps = 3
  MaxFaults = 2
  MaxCrashes = 2
CHECK_DEADLOCK FALSE
INVARIANTS TypeOK ShadowConsistent DriftConfined LeavesCustomization CommittedSurvives LightingSurvives
PROPERTY ReadBackWhole

SPECIFICATION Spec
CONSTANTS
  Keys = {k1}
  Channels = {c1}
  NoTarget = none
  Modes = {TRUE}
  HasEvents = FALSE
  MaxOps = 3
  MaxFaults = 1
CHECK_DEADLOCK FALSE
INVARIANT NeverStranded

SPECIFICATION FairSpec
CONSTANTS
  Keys = {k1, k2}
  Channels = {c1, c2}
  NoTarget = none
  Modes = {TRUE, FALSE}
  HasEvents = FALSE
  MaxOps = 3
  MaxFaults = 2
CHECK_DEADLOCK FALSE
INVARIANTS TypeOK StrandedOnlyByFailedCommit CleanExitDrains
PROPERTIES WriteReachesFirmware WriteIsAnnounced SessionEnds KeepsPromise CommitSavesLighting

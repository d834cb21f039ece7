SPECIFICATION Spec
CONSTANTS
  Devices = {d1}
  NoDevice = NoDevice
  Buffered = {d1}
  Clients = {c1, c2}
  Kinds = {"set", "oob"}
  EngineCap = 2
  WorkerCap = 1
  MaxAttempts = 1
  MaxWorkers = 2
  MaxTasks = 4
  UdevCap = 1
  LossyUdev = TRUE
  PanickyDriver = TRUE
CHECK_DEADLOCK FALSE
SYMMETRY ClientSymmetry
INVARIANTS TypeOK OneCandidate FreshHandles OneRole NoGhostDevice ServedIsAnnounced PendingOnce
PROPERTIES NoSilentReplacement

SPECIFICATION FairSpec
CONSTANTS
  Devices = {d1}
  NoDevice = NoDevice
  Buffered = {}
  Clients = {c1}
  Kinds = {"call"}
  EngineCap = 2
  WorkerCap = 1
  MaxAttempts = 2
  MaxWorkers = 1
  MaxTasks = 1
  UdevCap = 1
  LossyUdev = FALSE
  PanickyDriver = FALSE
CHECK_DEADLOCK FALSE
PROPERTIES FailureLeadsToRecovery

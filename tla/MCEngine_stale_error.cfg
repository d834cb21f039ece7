SPECIFICATION Spec
CONSTANTS
  Devices = {d1}
  NoDevice = NoDevice
  Buffered = {}
  Clients = {c1}
  Kinds = {"call"}
  EngineCap = 2
  WorkerCap = 1
  MaxAttempts = 2
  MaxWorkers = 2
  MaxTasks = 2
  UdevCap = 1
  LossyUdev = FALSE
  PanickyDriver = FALSE
CHECK_DEADLOCK FALSE
PROPERTIES OnlyFailedEvicted

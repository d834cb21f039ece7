SPECIFICATION Spec
CONSTANTS
  Node = {"h0", "h1"}
  Interface <- MCInterface
  UsbOf <- MCUsbOf
  ItemsOf <- MCItemsOf
  NoUsb = NoUsb
  Absent = "absent"
  None = None
  Entries <- MCEntries
  CoalesceMs = 0
  EngineCap = 1
  BroadcastCap = 2
  UdevCap = 2
  AtBoot <- MCAtBoot
  Movable = {"h0"}
  MaxMoves = 2
  MaxFaults = 1
CHECK_DEADLOCK FALSE
INVARIANTS TypeOK RegistryTracksBus SignalsTell ExitOnlyCutsClosing
PROPERTIES MainNeverHangs

CONSTANTS
  c1 = c1
  ek68 = ek68
  via = via
  None = None
  KeyIndex <- KEY_INDEX
  Boards = {ek68, via}
  Gmk = {ek68}
  LastId = 2
  Clients = {c1}
  Names <- MCNames
  Commands <- MCCommands
  SyncOnAttach = TRUE
  MacroSize = 3
  EepromSize = 4
  MaxMacroChunk = 28
  ViaRows = 5
  ViaCols = 15
  MaxCommands = 3
  MaxMoves = 2
  MaxFaults = 1
SPECIFICATION Spec
CHECK_DEADLOCK FALSE
INVARIANTS
  TypeOK
  LastWriteHolds
  NamedIsReached
PROPERTY
  WritesStayInTheirField

\* Two clients with every combination of options, one run of the cli.
CONSTANTS
  Clients = {c1, c2}
  NoClient = NoClient
  Typed <- AllTyped
  ToolTyped <- FewTyped
  Files <- AtFirst
  MaxTool = 1
  LenLimit = 4
  HoursLimit = 4
  InitRows = 2
  Uninit <- Junk
SPECIFICATION Spec
INVARIANTS TypeOK BuffersHold MemoryIsDisk
PROPERTY Implements
CHECK_DEADLOCK FALSE

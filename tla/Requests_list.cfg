\* A listing longer than the client first makes room for.
CONSTANTS
  Clients = {c1}
  NoClient = NoClient
  Typed <- AllTyped
  ToolTyped <- FewTyped
  Files <- AtFirst
  MaxTool = 0
  LenLimit = 4
  HoursLimit = 4
  InitRows = 2
  Uninit <- Junk
SPECIFICATION Spec
PROPERTY ListingIsWhole
CHECK_DEADLOCK FALSE

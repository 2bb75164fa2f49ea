\* A delete leaves the end of the longer file behind.
CONSTANTS
  Names <- TwoNames
  LenLimit = 4
  Uninit <- Remains
  Hours = {0, 3}
  Ops = {"add", "delete"}
  Users = {"server"}
  MaxEmployees = 2
SPECIFICATION Spec
INVARIANT FinishedFileOpens

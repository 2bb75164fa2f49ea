\* Every option, both programs, a process that ends at any step.
CONSTANTS
  Names <- ThreeNames
  LenLimit = 4
  Uninit <- Remains
  Hours = {0, 3}
  Ops = {"add", "update", "delete"}
  Users = {"server", "cli"}
  MaxEmployees = 2
SPECIFICATION Spec
INVARIANTS TypeOK IdleFileHoldsMemory PlainSaveIsAllOrNothing GrownFileOpens

SPECIFICATION Spec
CONSTANTS
  Clients = {c1, c2}
  Focus <- AllTables
  MaxAttempts = 2
  MaxFaults = 2
SYMMETRY Interchangeable
INVARIANTS TypeOK KeysUnique RefsExist
PROPERTIES PatchKeeps

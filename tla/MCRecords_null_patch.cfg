SPECIFICATION Spec
CONSTANTS
  Clients = {c1}
  Focus <- OneTable
  MaxAttempts = 1
  MaxFaults = 0
INVARIANT AlwaysReadable

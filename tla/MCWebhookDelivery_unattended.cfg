SPECIFICATION Spec
CONSTANTS
  Events = {e1}
  Endpoints = {u1, u2}
  Poison = {u1}
  Workers = {w1, w2}
  MaxAttempts = 3
  MaxRetries = 2
  Limit = 2
  Registered = TRUE
  Scheduled = TRUE
  MaxFaults = 3
INVARIANT TypeOK PendingInReach Earned RetriesPaid
PROPERTY MessageKept
SYMMETRY Symmetry
CHECK_DEADLOCK FALSE

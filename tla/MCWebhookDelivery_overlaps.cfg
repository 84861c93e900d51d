SPECIFICATION FairSpec
CONSTANTS
  Events = {e1}
  Endpoints = {u1, u2}
  Poison = {}
  Workers = {w1, w2}
  MaxAttempts = 2
  MaxRetries = 0
  Limit = 2
  Registered = TRUE
  Scheduled = TRUE
  MaxFaults = 0
PROPERTY EveryTaskEnds
CHECK_DEADLOCK FALSE

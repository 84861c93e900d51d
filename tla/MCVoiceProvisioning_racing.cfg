SPECIFICATION FairSpec
CONSTANTS
  c1 = c1  c2 = c2  d1 = d1  d2 = d2  d3 = d3  n1 = n1  n2 = n2  p1 = p1  q1 = q1
  NoDomain = NoDomain
  Seed = Seed
  Customers = {c1, c2}
  PbxDomains = {d1, d3}
  Numbers = {n1, n2}
  Dialplans = {p1}
  Queues = {q1}
  Requests = {r1, r2}
  Intents <- RacingIntents
  Start <- Pairs
INVARIANT LocksExclude OneReconcilePerCustomer
PROPERTY SyncedCommitApplied EveryRequestEnds
CHECK_DEADLOCK FALSE

SPECIFICATION Spec
CONSTANTS
  c1 = c1  c2 = c2  d1 = d1  d2 = d2  d3 = d3  n1 = n1  n2 = n2  p1 = p1  q1 = q1
  NoDomain = NoDomain
  Seed = Seed
  Customers = {c1}
  PbxDomains = {d1, d2}
  Numbers = {n1, n2}
  Dialplans = {p1}
  Queues = {q1}
  Requests = {r1, r2}
  Intents <- StaleIntents
  Start <- OneActive
PROPERTY SuspendedIsOff
CHECK_DEADLOCK FALSE

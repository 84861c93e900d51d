SPECIFICATION FairSpec
CONSTANTS
  Calls = {k1, k2}
  MaxPosts = 2
  MaxMarks = 4
  Limit = 1
  MaxFaults = 2
INVARIANTS TypeOK Billable Idempotent
PROPERTIES NeverRawAgain BillingKept EveryCallRated
CHECK_DEADLOCK FALSE

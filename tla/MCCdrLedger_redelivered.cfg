SPECIFICATION Spec
CONSTANTS
  Calls = {k1}
  MaxPosts = 2
  MaxMarks = 2
  Limit = 100
  MaxFaults = 1
INVARIANT OneRecordPerCall
CHECK_DEADLOCK FALSE

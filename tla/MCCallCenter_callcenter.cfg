SPECIFICATION Spec
CONSTANTS
  Queues = {q1, q2}
  Agents = {a1, a2}
  Strategies = {s1, s2}
  MaxRequests = 4
  MaxFaults = 2
SYMMETRY Interchangeable
INVARIANTS TypeOK RowsAgree Restored
PROPERTIES RowsMatch

SPECIFICATION FairSpec
CONSTANTS
  Nobody = Nobody
  Workers = {w1, w2, w3}
  Events = {e1, e2}
  MaxFaults = 3
INVARIANT TypeOK OneStreams FedOnce
PROPERTY TakesOver
CHECK_DEADLOCK FALSE

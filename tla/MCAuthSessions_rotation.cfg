SPECIFICATION Spec
CONSTANTS
  Requests = {r1, r2, r3}
  Seeds = {s1}
  NoSession = NoSession
  NoToken = NoToken
  MaxClock = 2
INVARIANT TypeOK ExchangedOnce ReplayEnds CodeOnce OldSessionsEnd
PROPERTY RotatesActive
SYMMETRY Symmetry
CHECK_DEADLOCK FALSE

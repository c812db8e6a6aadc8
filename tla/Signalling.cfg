SPECIFICATION Spec
CONSTANTS
  s1 = s1
  s2 = s2
  Sessions = {s1, s2}
  MaxSent = 1
  DoneSize = 1
  Nothing = Nothing
INVARIANTS
  ConfirmedReceived
PROPERTIES
  Confirmed
CHECK_DEADLOCK FALSE

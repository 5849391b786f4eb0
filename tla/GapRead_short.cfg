CONSTANTS
  Requests = {q1, q2}
  Nobody = Nobody
  Ids = {m1}
  Windows <- MCWindows
  MaxPrice = 1
  Hour = 1
  Day = 2
  MaxFaults = 1
SPECIFICATION Spec
INVARIANTS WindowAlwaysServed
CHECK_DEADLOCK FALSE

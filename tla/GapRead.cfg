CONSTANTS
  Requests = {q1, q2, q3}
  Nobody = Nobody
  Ids = {m1}
  Windows <- MCWindows
  MaxPrice = 1
  Hour = 1
  Day = 2
  MaxFaults = 1
SPECIFICATION FairSpec
INVARIANTS OneFetch WindowServed
PROPERTIES KeepsPromise EveryRequestEnds
CHECK_DEADLOCK FALSE

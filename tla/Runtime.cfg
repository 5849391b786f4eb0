CONSTANTS
  Sources = {s1}
  Requests = {q1}
  Ticker = Ticker
  Workers = {w1, w2}
  None = None
  MaxEvents = 2
SPECIFICATION FairSpec
INVARIANTS OneJobToCancel DisablingReachesTheJob NothingWaitsUnseen ClosedMeansIdle
PROPERTIES EverySourceCatchesUp
CHECK_DEADLOCK FALSE

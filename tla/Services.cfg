CONSTANTS
  Requests = {1, 2}
  Customs = {"c"}
  Models = {"m", "n"}
  Urls = {"a1", "a2", "b"}
  Origin <- MCOrigin
  Credentials <- MCCredentials
  Limits = {4096, 8192}
  MaxKeys = 2
  MaxRequests = 3
  Processes = {1, 2}
  Tabs = {t1, t2}
  Versions = {"v1", "v2"}
  Sessions = {s1, s2}
  MaxAnswers = 2
  MaxHistoryKeys = 2
  MayFail = TRUE
  Sources = {k1, k2}
  Periods = {"7d", "30d"}
  Orders = {1, 2}
  StartPeriod = "7d"
  StartOrder = 1
  Days <- MCDays
  Pages = 2
  MaxLoads = 4
  MaxChanges = 1
  Refreshers = {r1, r2}
  MaxIssued = 3
  MaxEvents = 2
  MayPause = TRUE
SYMMETRY Symmetry
SPECIFICATION ServicesSpec
INVARIANTS StreamIsFaithful TerminalIsTrue
INVARIANTS KeysGoHome TurnsAsShown LimitsSurvive HistoryVerifies RestoredWhole
INVARIANT LoginIsSafe
CHECK_DEADLOCK FALSE

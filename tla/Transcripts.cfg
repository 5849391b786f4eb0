CONSTANTS
  Hour = 2
  SafetyDelay = 1
  Lag = 1
  MaxNow = 5
  Ids = {"m1", "m2", "m3"}
  SessionIds = {"s1", "s2"}
  MessageSession <- MCSessionOf
  Undated = {"m3"}
SPECIFICATION Spec
INVARIANTS UsageOnce LoadsAgree RollupsAgree
PROPERTY RowsStay
CHECK_DEADLOCK FALSE

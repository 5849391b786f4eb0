CONSTANTS
  Hour = 2
  SafetyDelay = 1
  Lag = 1
  MinNow = 4
  MaxNow = 5
  Ids = {m1}
  Jobs = {job}
  Fills = {fill}
  Readers = {reader}
  NoOne = NoOne
  OtherSource = OtherSource
  MaxPrice = 1
  MaxVersion = 0
  MaxFaults = 1
  ClockMayStep = TRUE
  PriceMayRevert = FALSE
SPECIFICATION Spec
ACTION_CONSTRAINT CalmReads
INVARIANTS RowsBeforeCutoff StalePricingIsDetected MemoIsCurrent ReadsComplete
PROPERTIES IncrementalNeverRegresses OnlyCollectedDataIsWritten
CHECK_DEADLOCK FALSE

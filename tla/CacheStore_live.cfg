CONSTANTS
  Hour = 2
  SafetyDelay = 1
  Lag = 1
  MinNow = 4
  MaxNow = 5
  Ids = {m1}
  Jobs = {job}
  Fills = {fill}
  Readers = {}
  NoOne = NoOne
  OtherSource = OtherSource
  MaxPrice = 0
  MaxVersion = 1
  MaxFaults = 1
  ClockMayStep = FALSE
  PriceMayRevert = FALSE
SPECIFICATION FairSpec
INVARIANTS NothingHidden
PROPERTIES EverythingIsFinalized
CHECK_DEADLOCK FALSE

CONSTANTS
  Refreshers = {r1, r2, r3}
  MaxIssued = 3
  MaxEvents = 1
  MayPause = FALSE
SYMMETRY Symmetry
SPECIFICATION LoginSpec
INVARIANTS TombstoneIsDeserved
CHECK_DEADLOCK FALSE

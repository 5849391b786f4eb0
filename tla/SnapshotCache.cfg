CONSTANTS
  Readers = {r1, r2}
  NoOne = NoOne
  Kinds = {"claudecode", "kimicode", "antigravity"}
  Files = {f1}
  Froms = {0, 1}
  TTL = 1
  Deadline = 1
  Margin = 1
  MaxTime = 3
  MaxEvents = 2
SPECIFICATION Spec
INVARIANTS InvalidationShows StalenessBounded ReadsNeverGoBack
PROPERTIES KeepsPromise
CHECK_DEADLOCK FALSE
SYMMETRY Symmetry

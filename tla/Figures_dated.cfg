CONSTANTS
  Hour = 2
  Day = 4
  Windows <- MCWindows
  SessionIds = {1, 2}
  TheFork = 3
  ProjectOf <- ProjectsOf
  MaxSteps = 4
  Processes = {1, 2}
  Handlers = {1, 2}
  Served <- MCServed
  Sources = {"claude", "codex", "kimi", "qwen", "antigravity"}
  Releases = {1, 2}
  Catalogs <- Bundled
  Near <- Matches
  Edits <- MCEdits
  Requests <- MCRequests
  Year = 0
  MaxTime = 0
  MaxEdits = 2
  MaxPasses = 2
  MaxStarts = 3
  Askers = {q1, q2}
  Agents = {g1, g2}
  TTL = 2
  StaleAfter = 1
  Patience = 1
  MaxClock = 4
SPECIFICATION DatedSpec
INVARIANT SameReleaseSamePrice
CHECK_DEADLOCK FALSE

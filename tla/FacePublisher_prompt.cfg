\* The back-off of the code, one second a tick, threads scheduled at once.
SPECIFICATION SafeSpec
CONSTANTS
  Interval = 1
  Stale = 2
  Timeout = 1
  Backoff <- CodeBackoff
  MaxLag = 0
  Prompt = TRUE
  MaxTime = 19
INVARIANTS
  ReportsAreRecent
  Recovers
CHECK_DEADLOCK FALSE

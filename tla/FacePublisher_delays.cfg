\* Any scheduling delay, any server, frames up to a second old.
SPECIFICATION Spec
CONSTANTS
  Interval = 2
  Stale = 2
  Timeout = 1
  Backoff <- ShortBackoff
  MaxLag = 1
  Prompt = FALSE
  MaxTime = 8
PROPERTIES
  OncePerInterval
  BackoffRespected
  StopEndsWorker
CHECK_DEADLOCK FALSE

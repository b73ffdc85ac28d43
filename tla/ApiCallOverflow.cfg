\* A Retry-After too long for a Duration.
CONSTANTS
  MaxRetries = 2
  MaxRetryWait = 3
  MaxDuration = 9
  Headers <- MCHeadersOverflow
  JobIds = {j1}
  MaxLatency = 1
  Slack = 1
  None = None
  Garbage = Garbage
SPECIFICATION CallSpec
INVARIANT OverlongWaitReported
CHECK_DEADLOCK FALSE

\* How long --wait lasts, and that every command ends.
CONSTANTS
  MaxRetries = 1
  MaxRetryWait = 2
  MaxDuration = 3
  Headers <- MCHeaders
  JobIds = {j1}
  MaxLatency = 1
  Slack = 1
  None = None
  Garbage = Garbage
  MaxRuns = 1
  Timeout = 5
  Poll = 2
SPECIFICATION SessionSpec
INVARIANT WaitTimeBound
PROPERTY CommandEnds
\* After MaxRuns commands the system stops.
CHECK_DEADLOCK FALSE

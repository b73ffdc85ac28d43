\* proof --wait of an anchor that stays pending.
CONSTANTS
  MaxRetries = 1
  MaxRetryWait = 2
  MaxDuration = 3
  Headers <- MCHeaders
  JobIds = {j1}
  MaxLatency = 0
  Slack = 0
  None = None
  Garbage = Garbage
  MaxRuns = 2
  Timeout = 2
  Poll = 1
SPECIFICATION SessionSpec
INVARIANT PendingProofExitsThree
\* After MaxRuns commands the system stops.
CHECK_DEADLOCK FALSE

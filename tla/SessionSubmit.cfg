\* Two commands one after the other, and requests that outlive them.
CONSTANTS
  MaxRetries = 1
  MaxRetryWait = 2
  MaxDuration = 3
  Headers <- MCHeadersOverflow
  JobIds = {j1, j2, j3}
  MaxLatency = 0
  Slack = 0
  None = None
  Garbage = Garbage
  MaxRuns = 2
  Timeout = 1
  Poll = 1
SPECIFICATION SessionSpec
SYMMETRY MCSymmetry
INVARIANTS
  SessionTypeOK
  SessionInv
  AtMostOncePerRun
  SuccessIsDurable
  AcceptedIdShown
PROPERTIES
  PromiseKept
  OldProofKept
\* After MaxRuns commands the system stops.
CHECK_DEADLOCK FALSE

\* One call of Client::send: retry budget, time bound, termination.
CONSTANTS
  MaxRetries = 2
  MaxRetryWait = 3
  MaxDuration = 9
  Headers <- MCHeadersOverflow
  JobIds = {j1}
  MaxLatency = 1
  Slack = 1
  None = None
  Garbage = Garbage
SPECIFICATION CallSpec
INVARIANTS
  CallTypeOK
  CallTimeBound
PROPERTY CallReturns
\* The call returns and the system stops.
CHECK_DEADLOCK FALSE

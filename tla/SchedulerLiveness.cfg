CONSTANTS
  j1 = j1  j2 = j2  w1 = w1  w2 = w2  c1 = c1  c2 = c2  a = a  b = b
  None = None
  Jobs <- MCJobs
  Workers <- MCWorkers
  Callers <- OneCaller
  Ids <- MCIds
  IdOf <- OwnIds
  OneTime <- MCOneTime
  Interval <- MCInterval
  Delays <- MCDelays
  MaxAttempts = 2
  MaxTime = 2
  TicksPerMs = 2
SPECIFICATION Spec
CHECK_DEADLOCK FALSE
PROPERTIES DueJobRuns RecurringComesBack CancelledLeaves

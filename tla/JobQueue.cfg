\* Two workers that may die or be shut down, two jobs, a lease of one tick.
SPECIFICATION Spec
CONSTANTS
  Worker = {w1, w2}
  NoOne = NoOne
  Lease = 1
  BaseDelay = 1
  DelayCap = 2
  Priority = {1, 2}
  AttemptLimit = {2}
  Start = {0, 1}
  MaxJobs = 2
  MaxNow = 2
  MaxOutages = 1
  MaxRetries = 1
SYMMETRY Symmetry
PROPERTIES FinishedIsFinal LeaseRespected ImplementsWorkQueue
CHECK_DEADLOCK FALSE

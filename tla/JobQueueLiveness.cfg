\* Two workers, one of which goes down once, two jobs of either priority, a
\* lease of one tick: it may run out over a running handler as often as the
\* clock allows, beyond the attempts of a job.
SPECIFICATION FairSpec
CONSTANTS
  Worker = {w1, w2}
  NoOne = NoOne
  Lease = 1
  BaseDelay = 1
  DelayCap = 2
  Priority = {1, 2}
  AttemptLimit = {2}
  Start = {0}
  MaxJobs = 2
  MaxNow = 2
  MaxOutages = 1
  MaxRetries = 0
PROPERTIES EventuallyFinished
CHECK_DEADLOCK FALSE

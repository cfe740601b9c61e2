CONSTANTS
  Worker = {w1, w2}
  MaxJobs = 2
  JobName = {"mail"}
  Handlers = {"mail"}
  Delays = {0}
  MaxAttempts = 3
  RetryBackoff = 0
  RetryAfter = 2
  MaxPass = 2
  MaxClock = 4
  MaxFaults = 0
  NoRow = NoRow
SPECIFICATION Spec
INVARIANT NoDoubleProcessing

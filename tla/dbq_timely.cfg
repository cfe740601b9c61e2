CONSTANTS
  Worker = {w1, w2}
  MaxJobs = 2
  JobName = {"mail", "fax"}
  Handlers = {"mail"}
  Delays = {0, 1}
  MaxAttempts = 2
  RetryBackoff = 1
  RetryAfter = 2
  MaxPass = 1
  MaxClock = 4
  MaxFaults = 1
  NoRow = NoRow
SPECIFICATION Spec
INVARIANTS NoDoubleProcessing NoLostJob
PROPERTY ImplementsJobQueue

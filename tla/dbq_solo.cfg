CONSTANTS
  Worker = {w1}
  MaxJobs = 2
  JobName = {"mail"}
  Handlers = {"mail"}
  Delays = {0, 2}
  MaxAttempts = 3
  RetryBackoff = 1
  RetryAfter = 2
  MaxPass = 5
  MaxClock = 7
  MaxFaults = 2
  NoRow = NoRow
SPECIFICATION FairSpec
INVARIANTS RetryBudget
PROPERTIES EveryJobSettles

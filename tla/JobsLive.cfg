CONSTANTS
  Job = {j1, j2}
  Worker = {w1, w2}
  Producer = {p1, p2}
  Key = {k1}
  NoKey = NoKey
  NoJob = NoJob
  NoWorker = NoWorker
  Unhandled = {j2}
  MaxAttempts = 2
  Timeout = 1
  BatchSize = 1
  BackoffBase = 1
  Prompt = TRUE
  Horizon = 0
  MaxFuture = 1
  MaxCrashes = 1
  MaxFaults = 0
  MaxRetries = 0
SPECIFICATION LiveSpec
INVARIANTS NoConcurrentRuns 
PROPERTIES EveryJobEnds

CONSTANTS
  Job = {j1, j2}
  Worker = {w1, w2}
  Producer = {p1}
  Key = {}
  NoKey = NoKey
  NoJob = NoJob
  NoWorker = NoWorker
  Unhandled = {}
  MaxAttempts = 2
  Timeout = 1
  BatchSize = 2
  BackoffBase = 1
  Prompt = FALSE
  Horizon = 0
  MaxFuture = 0
  MaxCrashes = 0
  MaxFaults = 1
  MaxRetries = 1
SPECIFICATION Spec
SYMMETRY FullSymmetry
INVARIANT AttemptsBounded

SPECIFICATION MCSpec
CONSTANTS
  Process = {p1, p2}
  File = {f1, f2}
  Batch = 2
  MaxVersions = 3
  Stored = {0, 2}
  MaxFaults = 1
  Request = {q1, q2}
  Key = {"k"}
  Place = {1, 2, 3}
  MaxTime = 1
  MaxCalls = 3
  Sender = {q1, q2}
  Total = 2
  Life = 1
  MaxEvents = 2
  Hook = {h1, h2}
  Wanting = {h1}
  MaxHooks = 1
  MaxMessages = 2
  MaxAttempts = 2
INVARIANTS  CopiesAreWhole AssembledIsSent DeliveriesHold
PROPERTIES EveryoneStarts ImplementsCollection AbandonedGoes 
CHECK_DEADLOCK FALSE

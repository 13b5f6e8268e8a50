SPECIFICATION MCSpec
CONSTANTS
  Request = {q1, q2}
  Slot = {n1, n2}
  MaxStep = 2
  MaxSecrets = 2
  MaxLists = 2
  Visit = {v1, v2}
  Browser = {b1, b2}
  MaxAttempts = 2
  MaxKeys = 3
  MaxFaults = 1
  Given <- Two
  Candidates <- TwoNames
  Own = "ann@"
  AdminName = "ann"
  AdminAddress = "root@"
  MaxAccounts = 2
  MaxOutcomes = 3
  Challenge = {n1, n2}
  Key = {k1, k2}
  Token = {k1, k2}
  MaxPasskeys = 1
  PerUser = 1
  MaxCount = 1
  MaxEvents = 1
SYMMETRY Symmetry
INVARIANTS CodesHold  OneOfEach  CredentialsHold
CHECK_DEADLOCK FALSE

CONSTANTS
  Session = {s1}
  Request = {r1, r2}
  NoSession = NoSession
  Operations = {"call", "logout"}
  Prompt = FALSE
  Thief = FALSE
  AtStart = {s1}
  MaxToken = 1
  MaxClock = 0
  MaxOutages = 0
  MaxCancels = 0
SPECIFICATION Spec
SYMMETRY RequestSymmetry
INVARIANTS RevocationImmediate
CHECK_DEADLOCK FALSE

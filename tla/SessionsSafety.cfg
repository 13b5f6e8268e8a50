CONSTANTS
  Session = {s1, s2}
  Request = {r1, r2}
  NoSession = NoSession
  Operations = {"call", "refresh", "logout_all", "disable", "enable", "delete", "login"}
  Prompt = FALSE
  Thief = FALSE
  AtStart = {s1}
  MaxToken = 2
  MaxClock = 0
  MaxOutages = 0
  MaxCancels = 0
SPECIFICATION SafetySpec
SYMMETRY RequestSymmetry
INVARIANTS RevocationsHold CachedIsCurrent NoRotationWhileSuspended
CHECK_DEADLOCK FALSE

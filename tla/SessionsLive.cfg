CONSTANTS
  Session = {s1}
  Request = {r1, r2}
  NoSession = NoSession
  Operations = {"refresh", "logout", "expire"}
  Prompt = FALSE
  Thief = FALSE
  AtStart = {s1}
  MaxToken = 2
  MaxClock = 1
  MaxOutages = 1
  MaxCancels = 1
SPECIFICATION LiveSpec
PROPERTY RevokedFinallyRefused
CHECK_DEADLOCK FALSE

SPECIFICATION LiveSpec

CONSTANTS
  Attempt = {a1, a2}
  Link = {l1}
  NoLink = NoLink
  Operations = {"password", "code", "passkey", "oauth", "disable", "enable", "delete"}
  MaxFailed = 2
  Rehash = TRUE
  MaxPassword = 2
  MaxCount = 3
  MaxCancels = 1

INVARIANTS GuessesAreCounted RefusedOutright
PROPERTY GuessesComeBack

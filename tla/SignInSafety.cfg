SPECIFICATION SafetySpec

CONSTANTS
  Attempt = {a1, a2}
  Link = {l1, l2}
  NoLink = NoLink
  Operations = {"password", "code", "change", "forgot", "reset"}
  MaxFailed = 1
  Rehash = TRUE
  MaxPassword = 2
  MaxCount = 2
  MaxCancels = 0

SYMMETRY SignInSymmetry

INVARIANTS PasswordsHold LinksHold

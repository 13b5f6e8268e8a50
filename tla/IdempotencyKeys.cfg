SPECIFICATION MCSpec

CONSTANTS
  Request = {r1, r2}
  Worker = {w1, w2}
  NoWorker = NoWorker
  Body = {b1, b2}
  NoBody = NoBody
  Outcomes = {"kept", "unkept", "raised"}
  MaxConcurrent = 1
  MaxFaults = 2
  Process = {w1, w2}
  Shared = shared
  Most = 2
  Window = 2
  Cooldown = 1
  Second = 3
  MaxAhead = 2
  MaxNow = 7
  Role <- MCRole
  Group = {"staff", "guests"}
  Permission <- MCPermission
  Wider <- MCWider
  Gives <- MCGives
  GroupRoles <- MCGroupRoles
  Hierarchies <- MCHierarchies
  Grant = {"shared"}
  Granted <- MCGranted
  OfGroup <- MCOfGroup
  Asked = {"files:read"}
  Given = {"admin"}
  NoCopy = NoCopy
  MaxEvents = 2

SYMMETRY IdempotencySymmetry

INVARIANTS
  ClaimsHold
  RepeatedOnlyIfReleased
  LimitHolds
  RetryAfterHolds
  PermissionsHold

PROPERTIES
  StoredStays

CHECK_DEADLOCK FALSE

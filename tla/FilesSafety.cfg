SPECIFICATION MCSpec

CONSTANTS
  Request = {r1, r2}
  Name = {n1, n2}
  MaxVersions = 3
  MaxCuts = 1
  Client = {r1, r2}
  Content = {n1, n2}
  Quota = 3
  PerPage = 1
  AtFirst = 2
  MaxAsked = 3
  MaxFiles = 3
  MaxMoment = 1
  LogId = {1, 2, 3}
  PageSize = 1
  MaxTime = 2

SYMMETRY FilesSymmetry

INVARIANTS
  
  VersionsHold
  
  PagesAreWhole
  UpdatesAreShown
  ListingIsWhole

CHECK_DEADLOCK FALSE

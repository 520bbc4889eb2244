CONSTANTS
  r1 = r1
  r2 = r2
  p1 = p1
  p2 = p2
  Files = {1, 2}
  Roots = {r1}
  RootOf <- OneRoot
  ProfilePaths = {p1}
  NoProfile = NoProfile
  SlowFiles = {1}
  MaxRetries = 3
  MaxReadFaults = 3
  MaxFailures = 1
  MaxAsks = 1
  MaxMoves = 1
SPECIFICATION FairSpec
INVARIANT OwedRereadNotSkipped
PROPERTY ComesToRest
PROPERTY ArrivalsImported
CHECK_DEADLOCK FALSE

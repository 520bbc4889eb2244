CONSTANTS
  r1 = r1
  r2 = r2
  p1 = p1
  p2 = p2
  Files = {1, 2}
  Roots = {r1, r2}
  RootOf <- TwoRoots
  ProfilePaths = {p1, p2}
  NoProfile = NoProfile
  SlowFiles = {2}
  MaxRetries = 3
  MaxReadFaults = 0
  MaxFailures = 1
  MaxAsks = 1
  MaxMoves = 2
SYMMETRY PathSymmetry
SPECIFICATION Spec
INVARIANT AcceptedIsDurable
INVARIANT StaleIsFollowedUp
INVARIANT CurrentRunKnown
INVARIANT NothingOverlooked
PROPERTY RunsNeverLost
PROPERTY CommitIsCurrent
CHECK_DEADLOCK FALSE

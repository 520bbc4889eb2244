CONSTANTS
  Runs = {r1, r2}
  NoFile = NoFile
  NoProfile = NoProfile
  MaxFaults = 2
  MaxLaunches = 2
SPECIFICATION FairSpec
CHECK_DEADLOCK FALSE
PROPERTY KeepsPromise
PROPERTY RunsSurvive
PROPERTY LaunchEstablishes

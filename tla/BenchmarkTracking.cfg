CONSTANTS
  NameKey <- MCNameKey
  Blank = 0
  NonFinite = NonFinite
  Unit = 2
  DayLength = 2
  None = None
  Libraries <- MCLibraries
  Recorded <- MCRecorded
  NewRuns <- MCNewRuns
  Ranges <- MCRanges
  Windows <- MCWindows
  Broken = Broken
  NoId = NoId
  MaxChanges = 2
  MaxDays = 2
CHECK_DEADLOCK FALSE
SPECIFICATION Spec
INVARIANTS
  ProgressIsCurrent
  PictureTrue

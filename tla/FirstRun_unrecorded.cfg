CONSTANTS
  Backup = backup
  MaxObject = 3
  None = none
  Fallible = FALSE
  Looping = TRUE
SPECIFICATION SetupSpec
INVARIANT ConnectedMeansRecorded
CHECK_DEADLOCK FALSE

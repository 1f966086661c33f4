SPECIFICATION Spec
CONSTANTS
  NULL = NULL
  DayLen = 5
  MaxTime = 40
  MaxOffset = 3
CHECK_DEADLOCK FALSE
INVARIANTS
  PhaseMatchesWallClock

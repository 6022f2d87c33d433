SPECIFICATION Spec
CONSTANTS
  Tasks = {t1}
  NoTask = none
  Commands = {c1, c2}
  Schedules <- MCBothSchedules
  Horizon = 3
  MaxRuns = 2
  MaxCrashes = 1
  MaxEdits = 2
  Retries = 2
  RecheckDelay = 1
  IdleDelay = 9
  Faults = FALSE
  ClockMovesInside = FALSE
INVARIANTS
  OpenRunIsWorked
  NextSlotIsFresh
PROPERTIES
  NextSlotFollowsSchedule
CHECK_DEADLOCK FALSE
SYMMETRY CommandSymmetry

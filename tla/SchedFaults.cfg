SPECIFICATION Spec
CONSTANTS
  Tasks = {t1}
  NoTask = none
  Commands = {c1, c2}
  Schedules <- MCBothSchedules
  Horizon = 2
  MaxRuns = 2
  MaxCrashes = 1
  MaxEdits = 1
  Retries = 2
  RecheckDelay = 1
  IdleDelay = 9
  Faults = TRUE
  ClockMovesInside = TRUE
INVARIANTS
  RunInv
  BlockingRunIsLatest
PROPERTIES
  LedgerSpec
CHECK_DEADLOCK FALSE
SYMMETRY CommandSymmetry

SPECIFICATION FairSpec
CONSTANTS
  Tasks = {t1, t2}
  NoTask = none
  Commands = {c1, c2}
  Schedules <- MCOnlyCalendar
  Horizon = 3
  MaxRuns = 2
  MaxCrashes = 0
  MaxEdits = 0
  Retries = 2
  RecheckDelay = 1
  IdleDelay = 9
  Faults = FALSE
  ClockMovesInside = FALSE
INVARIANTS
  SleepCoversDue
PROPERTIES
  PassReachesEach
  QueuedRunLeaves
  DueTaskIsClaimed
CHECK_DEADLOCK FALSE

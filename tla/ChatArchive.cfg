SPECIFICATION Spec
CONSTANTS
  MaxTurns = 2
  MaxApprovals = 0
  d1 = d1
  d2 = d2
  Handlers = {d1}
  MaxCrashes = 0
  Faults = FALSE
  ArchiveEnabled = TRUE
  AgentResolves = FALSE
INVARIANTS
  OneTurnAtATime
CHECK_DEADLOCK FALSE

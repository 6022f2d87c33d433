SPECIFICATION Spec
CONSTANTS
  MaxTurns = 2
  MaxApprovals = 1
  d1 = d1
  d2 = d2
  Handlers = {d1, d2}
  MaxCrashes = 1
  Faults = FALSE
  ArchiveEnabled = FALSE
  AgentResolves = TRUE
INVARIANTS
  LiveTurnIsRegistered
  CapturedTokenIsOwn
  RestShowsTheEnd
SYMMETRY AnswerSymmetry
CHECK_DEADLOCK FALSE

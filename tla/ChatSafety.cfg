SPECIFICATION FairSpec
CONSTANTS
  MaxTurns = 1
  MaxApprovals = 1
  d1 = d1
  d2 = d2
  Handlers = {d1}
  MaxCrashes = 1
  Faults = TRUE
  ArchiveEnabled = TRUE
  AgentResolves = TRUE
INVARIANTS
  TypeOK
  AcceptanceIsReal
PROPERTIES
  SettledStays
  LedgerSpec
  StopEnds
CHECK_DEADLOCK FALSE

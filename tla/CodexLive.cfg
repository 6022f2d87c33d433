CONSTANTS
  Threads = {t1}
  MaxConns = 2
  MaxTurns = 2
  Capacity = 1
  Attempts = 2
  MaxFaults = 1
  MaxStops = 1
  MaxAsks = 1
SPECIFICATION FairSpec
INVARIANTS AnswerReachesAsker
PROPERTIES CallEnds
CHECK_DEADLOCK FALSE

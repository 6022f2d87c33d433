CONSTANTS
  Threads = {t1, t2}
  MaxConns = 2
  MaxTurns = 2
  Capacity = 1
  Attempts = 2
  MaxFaults = 1
  MaxStops = 1
  MaxAsks = 0
SPECIFICATION Spec
INVARIANTS TypeOK OneServer EndsByOwnThread RestHasNoTurn
PROPERTIES ServersSpec
SYMMETRY ThreadSymmetry
CHECK_DEADLOCK FALSE

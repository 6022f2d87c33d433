SPECIFICATION Spec
CONSTANTS
  Callers = {u1}
  Health = health
  MaxTokens = 2
  MaxTunnels = 1
  MaxFaults = 0
  MayDie = FALSE
  MayCrash = FALSE
INVARIANT RestartServes

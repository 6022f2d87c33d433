SPECIFICATION FairSpec
CONSTANTS
  Callers = {u1, u2}
  Health = health
  MaxTokens = 3
  MaxTunnels = 2
  MaxFaults = 1
  MayDie = TRUE
  MayCrash = TRUE
INVARIANTS
  TypeOK
  LeaseIsOwned
  ProcessIsServices
  TunnelIsRegistered
PROPERTIES
  ServiceSpec
  DeadServiceLeaves

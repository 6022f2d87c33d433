SPECIFICATION Spec
CONSTANTS
  a1 = a1
  a2 = a2
  b1 = b1
  Instances = {"codex", "claude"}
  Turns <- MCTurns
  InstanceOf <- MCTwoInstances
  Requests = {r1, r2}
  Ids = {n1, n2}
  MaxTokens = 2
  MaxStarts = 2
  Overlap = TRUE
  NoTurn = "noturn"
INVARIANTS
  ContextIsCallers

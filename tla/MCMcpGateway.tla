---------------------------- MODULE MCMcpGateway ----------------------------
(* Two CLI instances; two turns of the first, one of the second.           *)
EXTENDS McpGateway, TLC

CONSTANTS a1, a2, b1

MCTurns        == {a1, a2, b1}
MCTwoInstances == (a1 :> "codex") @@ (a2 :> "codex") @@ (b1 :> "claude")
MCSymmetry     ==
  Permutations(Requests) \cup Permutations(Ids) \cup Permutations({a1, a2})
=============================================================================

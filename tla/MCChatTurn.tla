----------------------------- MODULE MCChatTurn -----------------------------
(* The answers d1 and d2 run the same code.                                *)
EXTENDS ChatTurn, TLC

CONSTANTS d1, d2

AnswerSymmetry == Permutations(Handlers)
=============================================================================

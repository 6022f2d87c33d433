---- MODULE MCCodexEngine ----
(* Small instances of CodexEngine. *)
EXTENDS CodexEngine, TLC

ThreadSymmetry == Permutations(Threads)
==============================

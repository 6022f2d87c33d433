------------------------------ MODULE AppServers ------------------------------
(* What the Codex engine promises of the app-server processes it runs while *)
(* the turns of all threads share one connection and any of them may find   *)
(* it broken: one connection is in use at a time; the next is opened after  *)
(* it was taken out of use; what was taken out is killed once and never     *)
(* used again, and nothing else is killed.                                  *)

CONSTANTS
  Conns,  \* connections, each with a process of its own
  None    \* no connection

VARIABLES
  server,   \* its process: unborn, live or dead
  current,  \* the connection in use
  doomed    \* connections taken out of use, to be killed

Init ==
  /\ server = [c \in Conns |-> "unborn"]
  /\ current = None
  /\ doomed = {}

Open(c) ==
  /\ current = None
  /\ server[c] = "unborn"
  /\ server' = [server EXCEPT ![c] = "live"]
  /\ current' = c
  /\ UNCHANGED doomed

Retire ==
  /\ current # None
  /\ current' = None
  /\ doomed' = doomed \cup {current}
  /\ UNCHANGED server

Kill(c) ==
  /\ c \in doomed
  /\ doomed' = doomed \ {c}
  /\ server' = [server EXCEPT ![c] = "dead"]
  /\ UNCHANGED current

(* A process that dies by itself stays in use, or doomed, until a task finds *)
(* out.                                                                      *)
Die(c) ==
  /\ server[c] = "live"
  /\ server' = [server EXCEPT ![c] = "dead"]
  /\ UNCHANGED <<current, doomed>>

Next == Retire \/ \E c \in Conns : Open(c) \/ Kill(c) \/ Die(c)
Spec == Init /\ [][Next]_<<server, current, doomed>>
===============================================================================

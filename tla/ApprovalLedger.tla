--------------------------- MODULE ApprovalLedger ---------------------------
(***************************************************************************)
(* What the backend promises about the approvals of an agent, whatever     *)
(* turns, answers, reports, failures and restarts do.  There are two sides *)
(* to an approval, the row in the table and the request as the agent holds *)
(* it, and the only ties between them are these: the agent is told only of *)
(* a request the user was shown; an acceptance goes into the table after   *)
(* the agent took it; a row is expired, or closed without a decision, only *)
(* when the agent no longer waits.  A settled row is never opened again,   *)
(* and a decision is written once.                                         *)
(***************************************************************************)
CONSTANTS Approvals, Turns, NoTurn

VARIABLES row,     \* the table: who asked, status and decision
          agent    \* what the agent holds of the request

Decisions == {"accept", "cancel"}
Told(d)   == IF d = "accept" THEN "accepted" ELSE "cancelled"
Over      == {"accepted", "cancelled", "dead"}

Entry(t, status, decision) == [turn |-> t, status |-> status, decision |-> decision]
NoEntry == Entry(NoTurn, "none", "none")

Init ==
    /\ row = [a \in Approvals |-> NoEntry]
    /\ agent = [a \in Approvals |-> "none"]

\* A request is new, and it is shown to the user or lost when it cannot be saved.
Ask(a, t) ==
    /\ row[a].status = "none" /\ agent[a] = "none"
    /\ \E status \in {"pending", "unsaved"} :
         row' = [row EXCEPT ![a] = Entry(t, status, "none")]
    /\ agent' = [agent EXCEPT ![a] = "open"]

\* The agent hears one answer, and never to a request the user did not see.
Tell(a, d) ==
    /\ row[a].status \notin {"none", "unsaved"} /\ agent[a] = "open"
    /\ agent' = [agent EXCEPT ![a] = Told(d)]
    /\ UNCHANGED row

\* Any number of open requests die: given up by the agent, interrupted or exited.
Drop(dropped) ==
    /\ \A a \in dropped : agent[a] = "open"
    /\ agent' = [a \in Approvals |-> IF a \in dropped THEN "dead" ELSE agent[a]]
    /\ UNCHANGED row

\* The user's decision, once; a cancellation whether the agent heard it or not.
Decide(a, d) ==
    /\ row[a].status \in {"pending", "answered"} /\ row[a].decision = "none"
    /\ d = "accept" => agent[a] = "accepted"
    /\ row' = [row EXCEPT ![a] = Entry(@.turn, "answered", d)]
    /\ UNCHANGED agent

\* Nobody waits for the answer any more.
Close(a, status) ==
    /\ row[a].status = "pending" /\ agent[a] \in Over
    /\ row' = [row EXCEPT ![a] = Entry(@.turn, status, "none")]
    /\ UNCHANGED agent

Next ==
    \/ \E a \in Approvals, t \in Turns : Ask(a, t)
    \/ \E a \in Approvals, d \in Decisions : Tell(a, d) \/ Decide(a, d)
    \/ \E dropped \in SUBSET Approvals : Drop(dropped)
    \/ \E a \in Approvals, status \in {"expired", "answered"} : Close(a, status)

Spec == Init /\ [][Next]_<<row, agent>>
=============================================================================

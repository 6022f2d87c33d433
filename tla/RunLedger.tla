----------------------------- MODULE RunLedger -----------------------------
(***************************************************************************)
(* What the scheduled-task subsystem promises about the runs of its tasks, *)
(* whatever clocks, workers, turns and restarts do: a task gets a new run  *)
(* only when none of its runs is open or waits for the user to see that it *)
(* failed; a run goes through its statuses in one direction; a failure is  *)
(* recorded unacknowledged.                                                *)
(***************************************************************************)
CONSTANTS Runs, Tasks, NoTask

VARIABLE ledger     \* for each run its task, status and acknowledgement

Entry == [task   : Tasks \cup {NoTask},
          status : {"none", "queued", "running", "needs_confirmation",
                    "completed", "skipped", "error", "interrupted"},
          acked  : BOOLEAN]

NoEntry == [task |-> NoTask, status |-> "none", acked |-> FALSE]

Open(e)   == e.status \in {"queued", "running", "needs_confirmation"}
Failed(e) == e.status \in {"error", "interrupted"}
Blocks(e) == Open(e) \/ (Failed(e) /\ ~e.acked)

With(e, status, acked) == [task |-> e.task, status |-> status, acked |-> acked]

Init == ledger = [r \in Runs |-> NoEntry]

Claim(r, t) ==
    /\ ledger[r].status = "none"
    /\ \A q \in Runs : ledger[q].task = t => ~Blocks(ledger[q])
    /\ ledger' = [ledger EXCEPT ![r] = [task |-> t, status |-> "queued", acked |-> FALSE]]

Begin(r) ==
    /\ ledger[r].status = "queued"
    /\ ledger' = [ledger EXCEPT ![r] = With(@, "running", @.acked)]

AskUser(r) ==
    /\ ledger[r].status \in {"running", "needs_confirmation"}
    /\ ledger' = [ledger EXCEPT ![r] = With(@, "needs_confirmation", FALSE)]

Skip(r) ==
    /\ ledger[r].status = "queued"
    /\ ledger' = [ledger EXCEPT ![r] = With(@, "skipped", @.acked)]

Complete(r) ==
    /\ ledger[r].status \in {"running", "needs_confirmation"}
    /\ ledger' = [ledger EXCEPT ![r] = With(@, "completed", TRUE)]

Fail(r, status) ==
    /\ Open(ledger[r])
    /\ ledger' = [ledger EXCEPT ![r] = With(@, status, FALSE)]

InterruptAll ==
    ledger' = [r \in Runs |->
                 IF ledger[r].status \in {"queued", "running"}
                 THEN With(ledger[r], "interrupted", FALSE)
                 ELSE ledger[r]]

Acknowledge(r) ==
    /\ ledger[r].status # "none"
    /\ ledger' = [ledger EXCEPT ![r] = With(@, @.status, TRUE)]

Remove(t) ==
    ledger' = [r \in Runs |-> IF ledger[r].task = t THEN NoEntry ELSE ledger[r]]

Next ==
    \/ \E r \in Runs, t \in Tasks : Claim(r, t)
    \/ \E r \in Runs : Begin(r) \/ AskUser(r) \/ Skip(r) \/ Complete(r) \/ Acknowledge(r)
    \/ \E r \in Runs, status \in {"error", "interrupted"} : Fail(r, status)
    \/ InterruptAll
    \/ \E t \in Tasks : Remove(t)

Spec == Init /\ [][Next]_ledger
============================================================================

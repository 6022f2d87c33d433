---------------------- MODULE ScheduledTasksRefinement ----------------------
(***************************************************************************)
(* The scheduler, its workers and the turns implement RunLedger: every     *)
(* step of ScheduledTasks is a step of the ledger or leaves it unchanged.  *)
(***************************************************************************)
EXTENDS ScheduledTasksProofs

LedgerStep == Ledger!Next \/ UNCHANGED LedgerRows

EntryOf(row) == [task |-> row.task, status |-> row.status, acked |-> row.acked]

LEMMA SameRuns == UNCHANGED run => LedgerStep
BY DEF LedgerStep, LedgerRows

\* Writing one row of scheduled_task_runs writes one entry of the ledger.
LEMMA OneEntry ==
    ASSUME TypeOK, NEW r \in RunIds, NEW row \in RunRow, run' = [run EXCEPT ![r] = row]
    PROVE  LedgerRows' = [LedgerRows EXCEPT ![r] = EntryOf(row)]
<1>1. /\ run'[r] = row
      /\ \A q \in RunIds : q # r => run'[q] = run[q]
  BY DEF TypeOK
<1> QED
  BY <1>1 DEF LedgerRows, EntryOf

LEMMA EntriesOfRows ==
    \A r \in RunIds : /\ LedgerRows[r] = EntryOf(run[r])
                      /\ LedgerRows[r].task = run[r].task
                      /\ LedgerRows[r].status = run[r].status
                      /\ LedgerRows[r].acked = run[r].acked
                      /\ Ledger!Blocks(LedgerRows[r]) <=> Blocks(run[r])
BY DEF LedgerRows, EntryOf, Ledger!Blocks, Ledger!Open, Ledger!Failed, Blocks, OpenStatus,
       FailedStatus

LEMMA InitLedger == Init => Ledger!Init
BY DEF Init, Ledger!Init, LedgerRows, Ledger!NoEntry, AbsentRow

LEMMA UserCommandLedger ==
    ASSUME RunInv, UserCommand
    PROVE  LedgerStep
<1> USE DEF dbVars
<1>1. ASSUME NEW t \in Tasks, Acknowledge(t)
      PROVE  LedgerStep
  <2>1. PICK r \in RunIds : /\ run[r].status # "none"
                            /\ run' = [run EXCEPT ![r].acked = TRUE]
    BY <1>1 DEF Acknowledge, Rows
  <2> DEFINE row == [run[r] EXCEPT !.acked = TRUE]
  <2>2. run' = [run EXCEPT ![r] = row] /\ run[r] \in RunRow /\ row \in RunRow
    BY <2>1 DEF RunInv, TypeOK, RunRow
  <2>3. LedgerRows' = [LedgerRows EXCEPT ![r] = EntryOf(row)]
    BY <2>2, OneEntry DEF RunInv
  <2>4. EntryOf(row) = Ledger!With(LedgerRows[r], LedgerRows[r].status, TRUE)
    BY <2>2, EntriesOfRows DEF EntryOf, RunRow, Ledger!With
  <2>5. Ledger!Acknowledge(r)
    BY <2>1, <2>3, <2>4, EntriesOfRows DEF Ledger!Acknowledge
  <2> QED
    BY <2>5 DEF LedgerStep, Ledger!Next
<1>2. ASSUME NEW t \in Tasks, DeleteTask(t)
      PROVE  LedgerStep
  <2>1. run' = [r \in RunIds |-> IF r \in Rows(t) THEN AbsentRow ELSE run[r]]
    BY <1>2 DEF DeleteTask
  <2>2. \A r \in RunIds : r \in Rows(t) <=> run[r].task = t
    BY ConstantAssumption DEF Rows, RunInv, RowsAllocated, AbsentRow
  <2>3. Ledger!Remove(t)
    BY <2>1, <2>2 DEF Ledger!Remove, LedgerRows, Ledger!NoEntry, AbsentRow
  <2> QED
    BY <2>3 DEF LedgerStep, Ledger!Next
<1> QED
  BY <1>1, <1>2, SameRuns DEF UserCommand, Prepare, PrepareCreate, PrepareUpdate, PrepareEnable

LEMMA SchedulerLedger ==
    ASSUME RunInv, Scheduler
    PROVE  LedgerStep
<1> USE DEF dbVars
<1>1. CASE Recover
  <2>1. CASE run' = [r \in RunIds |->
                      IF Unfinished(run[r])
                      THEN [run[r] EXCEPT !.status = "interrupted", !.acked = FALSE]
                      ELSE run[r]]
    <3>1. ASSUME NEW r \in RunIds
          PROVE  EntryOf(run'[r]) = IF LedgerRows[r].status \in {"queued", "running"}
                                    THEN Ledger!With(LedgerRows[r], "interrupted", FALSE)
                                    ELSE LedgerRows[r]
      <4>1. run[r] \in RunRow
        BY DEF RunInv, TypeOK
      <4>2. CASE Unfinished(run[r])
        <5>1. run'[r] = [run[r] EXCEPT !.status = "interrupted", !.acked = FALSE]
          BY <2>1, <4>2
        <5>2. EntryOf(run'[r]) = Ledger!With(LedgerRows[r], "interrupted", FALSE)
          BY <4>1, <5>1, EntriesOfRows DEF EntryOf, RunRow, Ledger!With
        <5> QED
          BY <4>2, <5>2, EntriesOfRows DEF Unfinished
      <4>3. CASE ~Unfinished(run[r])
        BY <2>1, <4>3, EntriesOfRows DEF Unfinished
      <4> QED
        BY <4>2, <4>3
    <3>2. LedgerRows' = [r \in RunIds |-> EntryOf(run'[r])]
      BY DEF LedgerRows, EntryOf
    <3>3. Ledger!InterruptAll
      BY <3>1, <3>2 DEF Ledger!InterruptAll
    <3> QED
      BY <3>3 DEF LedgerStep, Ledger!Next
  <2> QED
    BY <1>1, <2>1, SameRuns DEF Recover
<1>2. ASSUME NEW x \in sched.due, Claim(x)
      PROVE  LedgerStep
  <2> DEFINE new == lastRun + 1
             row == [task |-> x.task, slot |-> x.slot, status |-> "queued",
                     acked |-> FALSE, linked |-> FALSE]
  <2>1. x \in Snapshot
    BY SnapshotType DEF RunInv
  <2>2. new \in RunIds /\ new > lastRun /\ run' = [run EXCEPT ![new] = row]
    BY <1>2, ConstantAssumption DEF Claim, InsertRun, RunInv, TypeOK, RunIds
  <2>3. row \in RunRow
    BY <2>1 DEF Snapshot, RunRow, RunStatus, OpenStatus
  <2>4. LedgerRows' = [LedgerRows EXCEPT ![new] = EntryOf(row)]
    BY <2>2, <2>3, OneEntry DEF RunInv
  <2>5. EntryOf(row) = [task |-> x.task, status |-> "queued", acked |-> FALSE]
    BY DEF EntryOf
  <2>6. LedgerRows[new].status = "none"
    BY <2>2, EntriesOfRows DEF RunInv, RowsAllocated
  <2>7. \A q \in RunIds : LedgerRows[q].task = x.task => ~Ledger!Blocks(LedgerRows[q])
    <3>1. \A q \in Rows(x.task) : ~Blocks(run[q])
      BY <1>2 DEF Claim, Eligible, Runnable, Blocked
    <3>2. \A q \in RunIds : run[q].status = "none" => ~Blocks(run[q])
      BY DEF Blocks, OpenStatus, FailedStatus
    <3> QED
      BY <3>1, <3>2, EntriesOfRows DEF Rows
  <2>8. Ledger!Claim(new, x.task)
    BY <2>4, <2>5, <2>6, <2>7 DEF Ledger!Claim
  <2> QED
    BY <2>1, <2>2, <2>8 DEF LedgerStep, Ledger!Next, Snapshot
<1> QED
  BY <1>1, <1>2, SameRuns
     DEF Scheduler, BeginPass, ListDue, EndPass, ComputeDelay, WakeUp, SkipStaleSnapshot,
         ClaimFails

LEMMA WorkerLedger ==
    ASSUME RunInv, NEW r \in RunIds, WorkerStep(r)
    PROVE  LedgerStep
<1> USE DEF dbVars
<1>1. run[r] \in RunRow
  BY DEF RunInv, TypeOK
<1>2. CASE ResolveThread(r) \/ ThreadIdle(r) \/ ThreadBusyRetry(r)
  BY <1>2, SameRuns DEF ResolveThread, ThreadIdle, ThreadBusyRetry
<1>3. worker[r] \in {"busy", "send", "fail"} /\ Present(r) => run[r].status = "queued"
  BY QueuedRowBlocks
<1>4. CASE ThreadStaysBusy(r)
  <2> DEFINE row == [run[r] EXCEPT !.status = "skipped"]
  <2>1. CASE Present(r) /\ run' = [run EXCEPT ![r] = row]
    <3>1. row \in RunRow
      BY <1>1 DEF RunRow, RunStatus, SettledStatus
    <3>2. LedgerRows' = [LedgerRows EXCEPT ![r] = EntryOf(row)]
      BY <2>1, <3>1, OneEntry DEF RunInv
    <3>3. EntryOf(row) = Ledger!With(LedgerRows[r], "skipped", LedgerRows[r].acked)
      BY <1>1, EntriesOfRows DEF EntryOf, RunRow, Ledger!With
    <3>4. Ledger!Skip(r)
      BY <1>3, <1>4, <2>1, <3>2, <3>3, EntriesOfRows DEF Ledger!Skip, ThreadStaysBusy
    <3> QED
      BY <3>4 DEF LedgerStep, Ledger!Next
  <2> QED
    BY <1>4, <2>1, SameRuns DEF ThreadStaysBusy, SetRow
<1>5. CASE SendMessage(r)
  <2> DEFINE row == [run[r] EXCEPT !.status = "running", !.linked = TRUE]
  <2>1. CASE Present(r) /\ run' = [run EXCEPT ![r] = row]
    <3>1. row \in RunRow
      BY <1>1 DEF RunRow, RunStatus, OpenStatus
    <3>2. LedgerRows' = [LedgerRows EXCEPT ![r] = EntryOf(row)]
      BY <2>1, <3>1, OneEntry DEF RunInv
    <3>3. EntryOf(row) = Ledger!With(LedgerRows[r], "running", LedgerRows[r].acked)
      BY <1>1, EntriesOfRows DEF EntryOf, RunRow, Ledger!With
    <3>4. Ledger!Begin(r)
      BY <1>3, <1>5, <2>1, <3>2, <3>3, EntriesOfRows DEF Ledger!Begin, SendMessage
    <3> QED
      BY <3>4 DEF LedgerStep, Ledger!Next
  <2> QED
    BY <1>5, <2>1, SameRuns DEF SendMessage, SetRow
<1>6. CASE MarkRunError(r)
  <2> DEFINE row == [run[r] EXCEPT !.status = "error", !.acked = FALSE]
  <2>1. CASE Present(r) /\ run' = [run EXCEPT ![r] = row]
    <3>1. row \in RunRow
      BY <1>1 DEF RunRow, RunStatus, SettledStatus, FailedStatus
    <3>2. LedgerRows' = [LedgerRows EXCEPT ![r] = EntryOf(row)]
      BY <2>1, <3>1, OneEntry DEF RunInv
    <3>3. EntryOf(row) = Ledger!With(LedgerRows[r], "error", FALSE)
      BY <1>1, EntriesOfRows DEF EntryOf, RunRow, Ledger!With
    <3>4. Ledger!Fail(r, "error")
      BY <1>3, <1>6, <2>1, <3>2, <3>3, EntriesOfRows
         DEF Ledger!Fail, Ledger!Open, MarkRunError
    <3> QED
      BY <3>4 DEF LedgerStep, Ledger!Next
  <2> QED
    BY <1>6, <2>1, SameRuns DEF MarkRunError, SetRow
<1> QED
  BY <1>2, <1>4, <1>5, <1>6 DEF WorkerStep

LEMMA TurnLedger ==
    ASSUME RunInv, NEW r \in RunIds, TurnStep(r)
    PROVE  LedgerStep
<1> USE DEF dbVars
<1>1. run[r] \in RunRow
  BY DEF RunInv, TypeOK
<1>2. worker[r] = "turn" /\ run[r].linked => run[r].status \in {"running", "needs_confirmation"}
  BY QueuedRowBlocks
<1>3. CASE TurnNeedsConfirmation(r)
  <2> DEFINE row == [run[r] EXCEPT !.status = "needs_confirmation", !.acked = FALSE]
  <2>1. run' = [run EXCEPT ![r] = row]
    BY <1>1, <1>3 DEF TurnNeedsConfirmation, RunInv, TypeOK
  <2>2. row \in RunRow
    BY <1>1 DEF RunRow, RunStatus, OpenStatus
  <2>3. LedgerRows' = [LedgerRows EXCEPT ![r] = EntryOf(row)]
    BY <2>1, <2>2, OneEntry DEF RunInv
  <2>4. EntryOf(row) = Ledger!With(LedgerRows[r], "needs_confirmation", FALSE)
    BY <1>1, EntriesOfRows DEF EntryOf, RunRow, Ledger!With
  <2>5. Ledger!AskUser(r)
    BY <1>2, <1>3, <2>3, <2>4, EntriesOfRows DEF Ledger!AskUser, TurnNeedsConfirmation
  <2> QED
    BY <2>5 DEF LedgerStep, Ledger!Next
<1>4. CASE ThreadDeleted(r)
  <2> DEFINE row == [run[r] EXCEPT !.linked = FALSE]
  <2>1. run' = [run EXCEPT ![r] = row] /\ row \in RunRow
    BY <1>1, <1>4 DEF ThreadDeleted, RunInv, TypeOK, RunRow
  <2>2. LedgerRows' = [LedgerRows EXCEPT ![r] = EntryOf(row)]
    BY <2>1, OneEntry DEF RunInv
  <2>3. EntryOf(row) = LedgerRows[r]
    BY <1>1, EntriesOfRows DEF EntryOf, RunRow
  <2>4. UNCHANGED LedgerRows
    BY <2>2, <2>3 DEF LedgerRows
  <2> QED
    BY <2>4 DEF LedgerStep
<1>5. CASE FinishChatRun(r)
  <2>1. ASSUME NEW status \in {"completed", "interrupted", "error"}, run[r].linked,
               run' = [run EXCEPT ![r].status = status, ![r].acked = (status = "completed")]
        PROVE  LedgerStep
    <3> DEFINE acked == status = "completed"
               row == [run[r] EXCEPT !.status = status, !.acked = acked]
    <3>1. run' = [run EXCEPT ![r] = row]
      BY <1>1, <2>1 DEF RunInv, TypeOK
    <3>2. row \in RunRow
      BY <1>1 DEF RunRow, RunStatus, SettledStatus, FailedStatus
    <3>3. LedgerRows' = [LedgerRows EXCEPT ![r] = EntryOf(row)]
      BY <3>1, <3>2, OneEntry DEF RunInv
    <3>4. EntryOf(row) = Ledger!With(LedgerRows[r], status, acked)
      BY <1>1, EntriesOfRows DEF EntryOf, RunRow, Ledger!With
    <3>5. LedgerRows[r].status \in {"running", "needs_confirmation"}
      BY <1>2, <1>5, <2>1, EntriesOfRows DEF FinishChatRun
    <3> HIDE DEF row
    <3>6. CASE status = "completed"
      <4>1. Ledger!Complete(r)
        BY <3>3, <3>4, <3>5, <3>6 DEF Ledger!Complete
      <4> QED
        BY <4>1 DEF LedgerStep, Ledger!Next
    <3>7. CASE status \in {"interrupted", "error"}
      <4>1. acked = FALSE
        BY <3>7
      <4>2. Ledger!Fail(r, status)
        BY <3>3, <3>4, <3>5, <4>1 DEF Ledger!Fail, Ledger!Open
      <4> QED
        BY <3>7, <4>2 DEF LedgerStep, Ledger!Next
    <3> QED
      BY <3>6, <3>7
  <2> QED
    BY <1>5, <2>1, SameRuns DEF FinishChatRun
<1> QED
  BY <1>3, <1>4, <1>5 DEF TurnStep

LEMMA NextLedger == RunInv /\ [Next]_vars => [Ledger!Next]_LedgerRows
<1> SUFFICES ASSUME RunInv, [Next]_vars PROVE LedgerStep
  BY DEF LedgerStep
<1>1. CASE (\E c \in Commands : WriteStep(c)) \/ Environment \/ UNCHANGED vars
  BY <1>1, SameRuns
     DEF WriteStep, CommitOp, OpFails, Environment, Tick, Exit, Start, vars, dbVars
<1> QED
  BY <1>1, UserCommandLedger, SchedulerLedger, WorkerLedger, TurnLedger DEF Next

\* The subsystem keeps the promises of RunLedger for any tasks and schedules, with
\* database faults, exits at any moment and a clock that moves between any two
\* statements.
THEOREM ImplementsLedger == Spec => LedgerSpec
BY InitLedger, InitRunInv, NextRunInv, NextLedger, PTL DEF Spec, LedgerSpec, Ledger!Spec
=============================================================================

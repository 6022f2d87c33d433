------------------------ MODULE ScheduledTasksProofs ------------------------
(***************************************************************************)
(* Proofs about ScheduledTasks for every set of tasks and schedules, every *)
(* bound, with and without database faults, and whatever the clock does.   *)
(***************************************************************************)
EXTENDS ScheduledTasks, TLAPS

\* Slots computed from a schedule and the clock are times.
LEMMA SlotIsNat ==
    ASSUME NEW s \in Schedules, NEW from \in Nat, NEW clock \in Nat
    PROVE  /\ InitialNextRunAt(s, clock) \in Nat
           /\ NextRunAfterDue(s, from, clock) \in Nat
<1>1. s.period \in Nat /\ s.period > 0
  BY ConstantAssumption
<1>2. \A n \in Nat : n \div s.period \in Nat
  BY <1>1
<1>3. \A n \in Nat : s.period * ((n \div s.period) + 1) \in Nat
  BY <1>1, <1>2
<1>4. CalendarNext(s, clock) \in Nat
  BY <1>3 DEF CalendarNext
<1>5. IntervalNext(s, from, clock) \in Nat
  <2> DEFINE elapsed == IF clock > from THEN clock - from ELSE 0
  <2>1. elapsed \in Nat
    OBVIOUS
  <2>2. s.period * ((elapsed \div s.period) + 1) \in Nat
    BY <1>3, <2>1
  <2> QED
    BY <2>2, SMT DEF IntervalNext
<1>6. clock + s.period \in Nat
  BY <1>1
<1> QED
  BY <1>4, <1>5, <1>6 DEF InitialNextRunAt, NextRunAfterDue

LEMMA NoTaskRowType ==
    ASSUME NEW state \in {"absent", "present", "deleted"}
    PROVE  NoTaskRow(state) \in TaskRow
<1>1. PICK s \in Schedules : TRUE
  BY ConstantAssumption
<1>2. (CHOOSE x \in Schedules : TRUE) \in Schedules
  BY <1>1, Zenon
<1> QED
  BY <1>2 DEF NoTaskRow, TaskRow, NoSlot

LEMMA InitTypeOK == Init => TypeOK
<1> SUFFICES ASSUME Init PROVE TypeOK
  OBVIOUS
<1>1. NoTaskRow("absent") \in TaskRow
  BY NoTaskRowType
<1>2. LoopAt("recover") \in SchedRow
  BY DEF LoopAt, SchedRow
<1>3. AbsentRow \in RunRow
  BY DEF AbsentRow, RunRow, RunStatus
<1>4. /\ 0 \in 0..Horizon /\ 0 \in 0..MaxRuns /\ 0 \in 0..Retries
      /\ 0 \in 0..MaxCrashes /\ 0 \in 0..MaxEdits
  BY ConstantAssumption
<1>5. "none" \in WorkerPc /\ NoOp \in Ops
  BY DEF WorkerPc, Ops
<1> QED
  BY <1>1, <1>2, <1>3, <1>4, <1>5 DEF Init, TypeOK

LEMMA PrepareType ==
    ASSUME TypeOK, NEW c \in Commands, NEW kind \in {"create", "update", "enable"},
           NEW t \in Tasks, NEW s \in Schedules, NEW e \in BOOLEAN,
           Prepare(c, kind, t, s, e), edits' \in 0..MaxEdits
    PROVE  TypeOK'
<1> USE DEF dbVars, workVars
<1>1. FirstSlot(e, s) \in Nat
  BY SlotIsNat DEF FirstSlot, NoSlot, TypeOK
<1>2. [kind |-> kind, task |-> t, enabled |-> e, schedule |-> s, next |-> FirstSlot(e, s)]
        \in Ops
  BY <1>1 DEF Ops
<1>3. op' \in [Commands -> Ops]
  BY <1>2 DEF Prepare, TypeOK
<1> QED
  BY <1>3 DEF Prepare, TypeOK

\* One step per command of the UI.
LEMMA UserCommandTypeOK == TypeOK /\ UserCommand => TypeOK'
<1> SUFFICES ASSUME TypeOK, UserCommand PROVE TypeOK'
  OBVIOUS
<1> USE DEF dbVars, workVars, bounds
<1>0. edits \in 0..MaxEdits /\ (edits < MaxEdits => edits + 1 \in 0..MaxEdits)
  BY ConstantAssumption DEF TypeOK
<1>1. ASSUME NEW c \in Commands, NEW t \in Tasks, NEW s \in Schedules,
             NEW e \in BOOLEAN, PrepareCreate(c, t, s, e) \/ PrepareUpdate(c, t, s, e)
      PROVE  TypeOK'
  BY <1>0, <1>1, PrepareType DEF PrepareCreate, PrepareUpdate
<1>2. ASSUME NEW c \in Commands, NEW t \in Tasks, NEW e \in BOOLEAN,
             PrepareEnable(c, t, e)
      PROVE  TypeOK'
  <2>1. task[t].schedule \in Schedules
    BY DEF TypeOK, TaskRow
  <2> QED
    BY <1>0, <1>2, <2>1, PrepareType DEF PrepareEnable
<1>3. ASSUME NEW t \in Tasks, Acknowledge(t)
      PROVE  TypeOK'
  <2>1. run' \in [RunIds -> RunRow]
    <3>1. PICK r \in RunIds : run' = [run EXCEPT ![r].acked = TRUE]
      BY <1>3 DEF Acknowledge, Rows
    <3>2. [run[r] EXCEPT !.acked = TRUE] \in RunRow
      BY DEF TypeOK, RunRow
    <3> QED
      BY <3>1, <3>2 DEF TypeOK
  <2> QED
    BY <1>3, <2>1 DEF Acknowledge, TypeOK
<1>4. ASSUME NEW t \in Tasks, DeleteTask(t)
      PROVE  TypeOK'
  <2>1. AbsentRow \in RunRow
    BY DEF AbsentRow, RunRow, RunStatus
  <2>2. run' \in [RunIds -> RunRow]
    <3>1. run' = [r \in RunIds |-> IF r \in Rows(t) THEN AbsentRow ELSE run[r]]
      BY <1>4 DEF DeleteTask
    <3>2. \A r \in RunIds : run[r] \in RunRow
      BY DEF TypeOK
    <3> QED
      BY <2>1, <3>1, <3>2
  <2>3. task' \in [Tasks -> TaskRow]
    BY <1>4, NoTaskRowType DEF DeleteTask, TypeOK
  <2> QED
    BY <1>4, <2>2, <2>3 DEF DeleteTask, TypeOK
<1> QED
  BY <1>1, <1>2, <1>3, <1>4 DEF UserCommand

LEMMA WriteStepTypeOK ==
    ASSUME TypeOK, NEW c \in Commands, WriteStep(c)
    PROVE  TypeOK'
<1> USE DEF dbVars, workVars, bounds
<1>1. op' \in [Commands -> Ops]
  <2>1. op' = [op EXCEPT ![c] = NoOp] /\ NoOp \in Ops
    BY DEF WriteStep, CommitOp, OpFails, Ops
  <2> QED
    BY <2>1 DEF TypeOK
<1>2. CASE CommitOp(c)
  <2>1. op[c] \in Ops /\ op[c] # NoOp
    BY <1>2 DEF CommitOp, TypeOK
  <2>2. /\ op[c].enabled \in BOOLEAN /\ op[c].schedule \in Schedules /\ op[c].next \in Nat
        /\ op[c].task \in Tasks
    BY <2>1 DEF Ops
  <2>3. Written(task[op[c].task], op[c]) \in TaskRow
    <3> DEFINE o   == op[c]
               row == task[o.task]
    <3>1. row \in TaskRow
      BY <2>2 DEF TypeOK
    <3> HIDE DEF o, row
    <3>2. o.enabled \in BOOLEAN /\ o.schedule \in Schedules /\ o.next \in Nat
      BY <2>2 DEF o
    <3>3. [row EXCEPT !.enabled = o.enabled, !.next = o.next] \in TaskRow
      BY <3>1, <3>2 DEF TaskRow
    <3>4. [state |-> "present", enabled |-> o.enabled, schedule |-> o.schedule,
           next |-> o.next] \in TaskRow
      BY <3>2 DEF TaskRow
    <3>5. Written(row, o) \in TaskRow
      BY <3>3, <3>4 DEF Written
    <3> QED
      BY <3>5 DEF o, row
  <2>4. task' \in [Tasks -> TaskRow]
    BY <1>2, <2>2, <2>3 DEF CommitOp, TypeOK
  <2>5. permit' \in BOOLEAN
    <3>1. permit' = TRUE \/ permit' = permit
      BY <1>2 DEF CommitOp
    <3> QED
      BY <3>1 DEF TypeOK
  <2> QED
    BY <1>1, <1>2, <2>4, <2>5 DEF CommitOp, TypeOK
<1>3. CASE OpFails(c)
  BY <1>1, <1>3 DEF OpFails, TypeOK
<1> QED
  BY <1>2, <1>3 DEF WriteStep

LEMMA SchedRowType ==
    ASSUME NEW pc \in {"down", "recover", "begin", "list", "claim", "delay", "sleep"}
    PROVE  LoopAt(pc) \in SchedRow
BY DEF LoopAt, SchedRow

LEMMA SnapshotType ==
    ASSUME TypeOK
    PROVE  /\ DueSnapshots \subseteq Snapshot
           /\ \A x \in sched.due : x \in Snapshot
<1>1. \A t \in Tasks : task[t].next \in Nat /\ task[t].schedule \in Schedules
  BY DEF TypeOK, TaskRow
<1>2. DueSnapshots \subseteq Snapshot
  BY <1>1 DEF DueSnapshots, Snapshot
<1>3. \A x \in sched.due : x \in Snapshot
  BY DEF TypeOK, SchedRow
<1> QED
  BY <1>2, <1>3

LEMMA DeadlineIsNat ==
    ASSUME TypeOK
    PROVE  \A d \in Deadlines : d \in Nat
<1>1. now \in Nat /\ \A t \in Tasks : task[t].next \in Nat
  BY ConstantAssumption DEF TypeOK, TaskRow
<1>2. \A n \in Nat : DelayUntil(n) \in Nat
  BY <1>1, ConstantAssumption DEF DelayUntil
<1>3. now + IdleDelay \in Nat
  BY <1>1, ConstantAssumption
<1> QED
  BY <1>1, <1>2, <1>3 DEF Deadlines, FirstRunnable

LEMMA SchedulerTypeOK == TypeOK /\ Scheduler => TypeOK'
<1> SUFFICES ASSUME TypeOK, Scheduler PROVE TypeOK'
  OBVIOUS
<1> USE DEF dbVars, workVars, bounds
<1>0. now \in Nat
  BY ConstantAssumption DEF TypeOK
<1>1. CASE Recover
  <2>1. run' \in [RunIds -> RunRow]
    <3>1. \A r \in RunIds : /\ run[r] \in RunRow
                            /\ [run[r] EXCEPT !.status = "interrupted", !.acked = FALSE]
                                 \in RunRow
      BY DEF TypeOK, RunRow, RunStatus, SettledStatus, FailedStatus
    <3> QED
      BY <1>1, <3>1 DEF Recover, TypeOK
  <2> QED
    BY <1>1, <2>1, SchedRowType DEF Recover, TypeOK
<1>2. CASE BeginPass
  <2>1. [sched EXCEPT !.pc = "list", !.passNow = now] \in SchedRow
    BY <1>0 DEF TypeOK, SchedRow
  <2> QED
    BY <1>2, <2>1 DEF BeginPass, TypeOK
<1>3. CASE ListDue
  <2>1. sched' \in SchedRow
    <3>1. [sched EXCEPT !.pc = "claim", !.due = DueSnapshots] \in SchedRow
      BY SnapshotType DEF TypeOK, SchedRow
    <3> QED
      BY <1>3, <3>1, SchedRowType DEF ListDue
  <2> QED
    BY <1>3, <2>1 DEF ListDue, TypeOK
<1>4. CASE EndPass
  BY <1>4, SchedRowType DEF EndPass, TypeOK
<1>5. CASE ComputeDelay
  <2>1. PICK d \in Nat : sched' = [sched EXCEPT !.pc = "sleep", !.since = now, !.deadline = d]
    <3>1. now + IdleDelay \in Nat
      BY ConstantAssumption DEF TypeOK
    <3> QED
      BY <1>5, <3>1, DeadlineIsNat DEF ComputeDelay
  <2>2. [sched EXCEPT !.pc = "sleep", !.since = now, !.deadline = d] \in SchedRow
    BY <1>0, <2>1 DEF TypeOK, SchedRow
  <2> QED
    BY <1>5, <2>1, <2>2 DEF ComputeDelay, TypeOK
<1>6. CASE WakeUp
  BY <1>6, SchedRowType DEF WakeUp, TypeOK
<1>7. ASSUME NEW x \in sched.due, Claim(x)
      PROVE  TypeOK'
  <2>1. x \in Snapshot /\ sched.passNow \in Nat
    BY SnapshotType DEF TypeOK, SchedRow
  <2>2. lastRun' \in 0..MaxRuns /\ lastRun + 1 \in RunIds
    BY <1>7, ConstantAssumption DEF Claim, InsertRun, TypeOK, RunIds
  <2>3. [task |-> x.task, slot |-> x.slot, status |-> "queued",
         acked |-> FALSE, linked |-> FALSE] \in RunRow
    BY <2>1 DEF Snapshot, RunRow, RunStatus, OpenStatus
  <2>4. run' \in [RunIds -> RunRow]
    BY <1>7, <2>2, <2>3 DEF Claim, InsertRun, TypeOK
  <2>5. task' \in [Tasks -> TaskRow]
    <3>1. NextRunAfterDue(x.schedule, x.slot, sched.passNow) \in Nat
      BY <2>1, SlotIsNat DEF Snapshot
    <3> QED
      BY <1>7, <2>1, <3>1 DEF Claim, InsertRun, TypeOK, TaskRow, Snapshot
  <2>6. worker' \in [RunIds -> WorkerPc]
    BY <1>7, <2>2 DEF Claim, TypeOK, WorkerPc
  <2>7. sched' \in SchedRow
    <3>1. [sched EXCEPT !.due = @ \ {x}] \in SchedRow
      BY DEF TypeOK, SchedRow
    <3> QED
      BY <1>7, <3>1, SchedRowType DEF Claim
  <2> QED
    BY <1>7, <2>2, <2>4, <2>5, <2>6, <2>7 DEF Claim, TypeOK
<1>8. ASSUME NEW x \in sched.due, SkipStaleSnapshot(x)
      PROVE  TypeOK'
  <2>1. sched' \in SchedRow
    BY <1>8 DEF SkipStaleSnapshot, TypeOK, SchedRow
  <2> QED
    BY <1>8, <2>1 DEF SkipStaleSnapshot, TypeOK
<1>9. ASSUME NEW x \in sched.due, ClaimFails(x)
      PROVE  TypeOK'
  BY <1>9, SchedRowType DEF ClaimFails, TypeOK
<1> QED
  BY <1>1, <1>2, <1>3, <1>4, <1>5, <1>6, <1>7, <1>8, <1>9 DEF Scheduler

LEMMA WorkerTypeOK ==
    ASSUME TypeOK, NEW r \in RunIds, WorkerStep(r)
    PROVE  TypeOK'
<1> USE DEF dbVars, workVars, bounds
<1>1. CASE ResolveThread(r)
  BY <1>1 DEF ResolveThread, TypeOK, WorkerPc
<1>2. CASE ThreadIdle(r)
  <2>1. 0 \in 0..Retries
    BY ConstantAssumption
  <2> QED
    BY <1>2, <2>1 DEF ThreadIdle, TypeOK, WorkerPc
<1>3. CASE ThreadBusyRetry(r)
  <2>1. attempt[r] + 1 \in 0..Retries
    BY <1>3, ConstantAssumption DEF ThreadBusyRetry, TypeOK
  <2> QED
    BY <1>3, <2>1 DEF ThreadBusyRetry, TypeOK
<1>4. CASE ThreadStaysBusy(r)
  <2>1. 0 \in 0..Retries
    BY ConstantAssumption
  <2>2. [run[r] EXCEPT !.status = "skipped"] \in RunRow
    BY DEF TypeOK, RunRow, RunStatus, SettledStatus
  <2> QED
    BY <1>4, <2>1, <2>2 DEF ThreadStaysBusy, SetRow, TypeOK, WorkerPc
<1>5. CASE SendMessage(r)
  <2>1. [run[r] EXCEPT !.status = "running", !.linked = TRUE] \in RunRow
    BY DEF TypeOK, RunRow, RunStatus, OpenStatus
  <2> QED
    BY <1>5, <2>1 DEF SendMessage, SetRow, TypeOK, WorkerPc
<1>6. CASE MarkRunError(r)
  <2>1. [run[r] EXCEPT !.status = "error", !.acked = FALSE] \in RunRow
    BY DEF TypeOK, RunRow, RunStatus, SettledStatus, FailedStatus
  <2> QED
    BY <1>6, <2>1 DEF MarkRunError, SetRow, TypeOK, WorkerPc
<1> QED
  BY <1>1, <1>2, <1>3, <1>4, <1>5, <1>6 DEF WorkerStep

LEMMA TurnTypeOK ==
    ASSUME TypeOK, NEW r \in RunIds, TurnStep(r)
    PROVE  TypeOK'
<1> USE DEF dbVars, workVars, bounds
<1>1. CASE TurnNeedsConfirmation(r)
  <2>1. [run[r] EXCEPT !.status = "needs_confirmation", !.acked = FALSE] \in RunRow
    BY DEF TypeOK, RunRow, RunStatus, OpenStatus
  <2>2. run' = [run EXCEPT ![r] = [run[r] EXCEPT !.status = "needs_confirmation",
                                                !.acked = FALSE]]
    BY <1>1 DEF TurnNeedsConfirmation, TypeOK
  <2> QED
    BY <1>1, <2>1, <2>2 DEF TurnNeedsConfirmation, TypeOK
<1>2. CASE ThreadDeleted(r)
  <2>1. [run[r] EXCEPT !.linked = FALSE] \in RunRow
    BY DEF TypeOK, RunRow
  <2> QED
    BY <1>2, <2>1 DEF ThreadDeleted, TypeOK
<1>3. CASE FinishChatRun(r)
  <2>1. run' \in [RunIds -> RunRow]
    <3>1. ASSUME NEW status \in {"completed", "interrupted", "error"},
                 run' = [run EXCEPT ![r].status = status,
                                    ![r].acked = (status = "completed")]
          PROVE  run' \in [RunIds -> RunRow]
      <4>1. [run[r] EXCEPT !.status = status, !.acked = (status = "completed")] \in RunRow
        BY DEF TypeOK, RunRow, RunStatus, SettledStatus, FailedStatus
      <4>2. run' = [run EXCEPT ![r] = [run[r] EXCEPT !.status = status,
                                                    !.acked = (status = "completed")]]
        BY <3>1 DEF TypeOK
      <4> QED
        BY <4>1, <4>2 DEF TypeOK
    <3> QED
      BY <1>3, <3>1 DEF FinishChatRun, TypeOK
  <2> QED
    BY <1>3, <2>1 DEF FinishChatRun, TypeOK, WorkerPc
<1> QED
  BY <1>1, <1>2, <1>3 DEF TurnStep

LEMMA EnvironmentTypeOK == TypeOK /\ Environment => TypeOK'
<1> SUFFICES ASSUME TypeOK, Environment PROVE TypeOK'
  OBVIOUS
<1> USE DEF dbVars, workVars, bounds
<1>1. CASE Tick
  BY <1>1, ConstantAssumption DEF Tick, TypeOK
<1>2. CASE Exit
  <2>1. crashes' \in 0..MaxCrashes /\ 0 \in 0..Retries
    BY <1>2, ConstantAssumption DEF Exit, TypeOK
  <2>2. "none" \in WorkerPc /\ NoOp \in Ops
    BY DEF WorkerPc, Ops
  <2> QED
    BY <1>2, <2>1, <2>2, SchedRowType DEF Exit, TypeOK
<1>3. CASE Start
  BY <1>3, SchedRowType DEF Start, TypeOK
<1> QED
  BY <1>1, <1>2, <1>3 DEF Environment

LEMMA NextTypeOK == TypeOK /\ [Next]_vars => TypeOK'
<1>1. CASE UNCHANGED vars
  BY <1>1 DEF vars, TypeOK
<1> QED
  BY <1>1, UserCommandTypeOK, WriteStepTypeOK, SchedulerTypeOK, EnvironmentTypeOK,
     WorkerTypeOK, TurnTypeOK DEF Next

\* Every row, every program counter and every counter keeps its type.
THEOREM TypeCorrect == Spec => []TypeOK
BY InitTypeOK, NextTypeOK, PTL DEF Spec

-----------------------------------------------------------------------------
(* One run of a task at a time.                                            *)

\* Steps that touch neither runs nor workers.
LEMMA QuietStep ==
    ASSUME RunInv, TypeOK', UNCHANGED <<run, lastRun, worker>>,
           sched'.pc \in {"down", "recover"} => sched.pc \in {"down", "recover"}
    PROVE  RunInv'
BY DEF RunInv, WorkerMatchesRow, RowsAllocated, NoWorkerBeforeRecovery,
       BlockingRunIsLatest, Rows, Blocks

\* Steps after which no row blocks that did not block before.
LEMMA NoNewBlocker ==
    ASSUME BlockingRunIsLatest,
           \A q \in RunIds : run'[q].status # "none" =>
               /\ run[q].status # "none"
               /\ run'[q].task = run[q].task
               /\ Blocks(run'[q]) => Blocks(run[q])
    PROVE  BlockingRunIsLatest'
BY DEF BlockingRunIsLatest, Rows

LEMMA InitRunInv == Init => RunInv
<1> SUFFICES ASSUME Init PROVE RunInv
  OBVIOUS
<1>1. TypeOK
  BY InitTypeOK
<1>2. \A r \in RunIds : run[r] = AbsentRow /\ worker[r] = "none" /\ run[r].status = "none"
  BY DEF Init, AbsentRow
<1> QED
  BY <1>1, <1>2 DEF RunInv, WorkerMatchesRow, RowsAllocated, NoWorkerBeforeRecovery,
                    BlockingRunIsLatest, Rows

LEMMA UserCommandRunInv ==
    ASSUME RunInv, TypeOK', UserCommand
    PROVE  RunInv'
<1> USE DEF dbVars, workVars, bounds
<1>1. ASSUME NEW c \in Commands, NEW t \in Tasks, NEW s \in Schedules,
             NEW e \in BOOLEAN, PrepareCreate(c, t, s, e) \/ PrepareUpdate(c, t, s, e)
      PROVE  RunInv'
  BY <1>1, QuietStep DEF Prepare, PrepareCreate, PrepareUpdate
<1>2. ASSUME NEW t \in Tasks, Acknowledge(t)
      PROVE  RunInv'
  <2>1. PICK r \in RunIds : /\ run[r].status # "none"
                            /\ run' = [run EXCEPT ![r].acked = TRUE]
    BY <1>2 DEF Acknowledge, Rows
  <2>2. UNCHANGED <<lastRun, worker, sched>>
    BY <1>2 DEF Acknowledge
  <2>3. \A q \in RunIds : /\ run'[q].status = run[q].status
                          /\ run'[q].task = run[q].task
                          /\ q # r => run'[q] = run[q]
                          /\ Blocks(run'[q]) => Blocks(run[q])
    BY <2>1 DEF RunInv, TypeOK, RunRow, Blocks
  <2>4. BlockingRunIsLatest'
    BY <2>3, NoNewBlocker DEF RunInv
  <2> QED
    BY <2>1, <2>2, <2>3, <2>4
       DEF RunInv, WorkerMatchesRow, RowsAllocated, NoWorkerBeforeRecovery
<1>3. ASSUME NEW t \in Tasks, DeleteTask(t)
      PROVE  RunInv'
  <2>1. UNCHANGED <<lastRun, worker, sched>>
    BY <1>3 DEF DeleteTask
  <2>2. \A q \in RunIds : run'[q] = run[q] \/ run'[q] = AbsentRow
    BY <1>3 DEF DeleteTask
  <2>3. AbsentRow.status = "none"
    BY DEF AbsentRow
  <2>4. BlockingRunIsLatest'
    BY <2>2, <2>3, NoNewBlocker DEF RunInv
  <2>5. WorkerMatchesRow'
    BY <2>1, <2>2, <2>3 DEF RunInv, WorkerMatchesRow
  <2>6. RowsAllocated'
    BY <2>1, <2>2, <2>3 DEF RunInv, RowsAllocated
  <2>7. NoWorkerBeforeRecovery'
    BY <2>1 DEF RunInv, NoWorkerBeforeRecovery
  <2> QED
    BY <2>4, <2>5, <2>6, <2>7 DEF RunInv
<1>4. ASSUME NEW c \in Commands, NEW t \in Tasks, NEW e \in BOOLEAN,
             PrepareEnable(c, t, e)
      PROVE  RunInv'
  BY <1>4, QuietStep DEF Prepare, PrepareEnable
<1> QED
  BY <1>1, <1>2, <1>3, <1>4 DEF UserCommand

LEMMA SchedulerRunInv ==
    ASSUME RunInv, TypeOK', Scheduler
    PROVE  RunInv'
<1> USE DEF dbVars, workVars, bounds
<1>1. CASE Recover
  <2>1. UNCHANGED <<lastRun, worker>> /\ sched'.pc = "begin"
    BY <1>1 DEF Recover, LoopAt
  <2>2. \A r \in RunIds : worker[r] = "none"
    BY <1>1 DEF Recover, RunInv, NoWorkerBeforeRecovery
  <2>3. \A q \in RunIds :
           \/ run'[q] = run[q]
           \/ /\ Unfinished(run[q])
              /\ run'[q] = [run[q] EXCEPT !.status = "interrupted", !.acked = FALSE]
    BY <1>1 DEF Recover
  <2>4. \A q \in RunIds : /\ run'[q].task = run[q].task
                          /\ run'[q].status = "none" <=> run[q].status = "none"
                          /\ run'[q].status = "none" => run'[q] = run[q]
                          /\ Blocks(run'[q]) => Blocks(run[q])
    <3> SUFFICES ASSUME NEW q \in RunIds
                 PROVE  /\ run'[q].task = run[q].task
                        /\ run'[q].status = "none" <=> run[q].status = "none"
                        /\ run'[q].status = "none" => run'[q] = run[q]
                        /\ Blocks(run'[q]) => Blocks(run[q])
      OBVIOUS
    <3>1. run[q] \in RunRow
      BY DEF RunInv, TypeOK
    <3>2. CASE run'[q] = run[q]
      BY <3>2
    <3>3. CASE /\ Unfinished(run[q])
               /\ run'[q] = [run[q] EXCEPT !.status = "interrupted", !.acked = FALSE]
      <4>1. run'[q].task = run[q].task /\ run'[q].status = "interrupted"
        BY <3>1, <3>3 DEF RunRow
      <4>2. run[q].status # "none" /\ Blocks(run[q])
        BY <3>3 DEF Unfinished, Blocks, OpenStatus
      <4> QED
        BY <4>1, <4>2
    <3> QED
      BY <2>3, <3>2, <3>3
  <2>5. BlockingRunIsLatest'
    BY <2>4, NoNewBlocker DEF RunInv
  <2> QED
    BY <2>1, <2>2, <2>4, <2>5
       DEF RunInv, WorkerMatchesRow, RowsAllocated, NoWorkerBeforeRecovery
<1>2. CASE BeginPass \/ ListDue \/ EndPass \/ ComputeDelay \/ WakeUp
  <2>1. UNCHANGED <<run, lastRun, worker>>
    BY <1>2 DEF BeginPass, ListDue, EndPass, ComputeDelay, WakeUp
  <2>2. sched'.pc \notin {"down", "recover"}
    <3>1. /\ [sched EXCEPT !.pc = "list", !.passNow = now].pc = "list"
          /\ [sched EXCEPT !.pc = "claim", !.due = DueSnapshots].pc = "claim"
          /\ \A d : [sched EXCEPT !.pc = "sleep", !.since = now, !.deadline = d].pc = "sleep"
          /\ LoopAt("delay").pc = "delay" /\ LoopAt("begin").pc = "begin"
      BY DEF RunInv, TypeOK, SchedRow, LoopAt
    <3>2. CASE BeginPass
      BY <3>1, <3>2 DEF BeginPass
    <3>3. CASE ListDue
      BY <3>1, <3>3 DEF ListDue
    <3>4. CASE EndPass \/ WakeUp
      BY <3>1, <3>4 DEF EndPass, WakeUp
    <3>5. CASE ComputeDelay
      BY <3>1, <3>5 DEF ComputeDelay
    <3> QED
      BY <1>2, <3>2, <3>3, <3>4, <3>5
  <2> QED
    BY <2>1, <2>2, QuietStep
<1>3. ASSUME NEW x \in sched.due, SkipStaleSnapshot(x) \/ ClaimFails(x)
      PROVE  RunInv'
  <2>1. UNCHANGED <<run, lastRun, worker>>
    BY <1>3 DEF SkipStaleSnapshot, ClaimFails
  <2>2. sched'.pc \notin {"down", "recover"}
    BY <1>3 DEF SkipStaleSnapshot, ClaimFails, NextSnapshot, LoopAt, RunInv, TypeOK, SchedRow
  <2> QED
    BY <2>1, <2>2, QuietStep
<1>4. ASSUME NEW x \in sched.due, Claim(x)
      PROVE  RunInv'
  <2> DEFINE new == lastRun + 1
  <2>1. new \in RunIds /\ lastRun' = new
    BY <1>4, ConstantAssumption DEF Claim, InsertRun, RunInv, TypeOK, RunIds
  <2>2. run' = [run EXCEPT ![new] = [task |-> x.task, slot |-> x.slot, status |-> "queued",
                                     acked |-> FALSE, linked |-> FALSE]]
    BY <1>4 DEF Claim, InsertRun
  <2>3. /\ run'[new].task = x.task /\ run'[new].status = "queued"
        /\ \A q \in RunIds : q # new => run'[q] = run[q]
    BY <2>1, <2>2 DEF RunInv, TypeOK
  <2>4. /\ worker'[new] \in {"resolve", "none"}
        /\ \A q \in RunIds : q # new => worker'[q] = worker[q]
    BY <1>4, <2>1 DEF Claim, RunInv, TypeOK, RowsAllocated
  <2>5. sched'.pc \notin {"down", "recover"}
    BY <1>4 DEF Claim, NextSnapshot, LoopAt, RunInv, TypeOK, SchedRow
  <2>6. \A q \in RunIds : q > lastRun => run[q].status = "none"
    BY DEF RunInv, RowsAllocated
  <2>7. \A q \in RunIds : q > new => q > lastRun /\ q # new
    BY <2>1 DEF RunInv, TypeOK, RunIds
  <2>8. BlockingRunIsLatest'
    <3>1. \A q \in Rows(x.task) : ~Blocks(run[q])
      BY <1>4 DEF Claim, Eligible, Runnable, Blocked
    <3> SUFFICES ASSUME NEW t \in Tasks, NEW r \in Rows(t)', NEW q \in Rows(t)',
                        Blocks(run[r])'
                 PROVE  q <= r
      BY DEF BlockingRunIsLatest
    <3>2. CASE r = new
      <4>1. q = new \/ ~(q > lastRun)
        BY <2>3, <2>6 DEF Rows
      <4> QED
        BY <3>2, <4>1, <2>1 DEF RunInv, TypeOK, RunIds, Rows
    <3>3. CASE r # new
      <4>1. r \in Rows(t) /\ Blocks(run[r])
        BY <3>3, <2>3 DEF Rows
      <4>2. t # x.task
        BY <4>1, <3>1
      <4>3. q \in Rows(t)
        BY <4>2, <2>3 DEF Rows
      <4> QED
        BY <4>1, <4>3 DEF RunInv, BlockingRunIsLatest
    <3> QED
      BY <3>2, <3>3
  <2>9. WorkerMatchesRow'
    BY <2>3, <2>4 DEF RunInv, WorkerMatchesRow
  <2>10. RowsAllocated'
    BY <2>1, <2>3, <2>4, <2>7 DEF RunInv, RowsAllocated
  <2> QED
    BY <2>5, <2>8, <2>9, <2>10 DEF RunInv, NoWorkerBeforeRecovery
<1> QED
  BY <1>1, <1>2, <1>3, <1>4 DEF Scheduler

\* A worker moves from one step to the next, and writes at most its own row: it
\* stays open, or it settles and the worker is gone.
LEMMA OwnRowStep ==
    ASSUME RunInv, TypeOK', NEW r \in RunIds, worker[r] # "none",
           UNCHANGED <<lastRun, sched>>,
           NEW row \in RunRow, NEW pc \in WorkerPc,
           worker' = [worker EXCEPT ![r] = pc],
           run' = [run EXCEPT ![r] = row],
           \/ row = run[r]
           \/ /\ run[r].status # "none" /\ row.status # "none"
              /\ row.task = run[r].task /\ Blocks(run[r]),
           pc \in {"resolve", "busy", "send", "fail"} => row.status \in {"queued", "none"},
           pc = "turn" => row.status \in {"running", "needs_confirmation", "none"}
    PROVE  RunInv'
<1>1. /\ run'[r] = row /\ worker'[r] = pc
      /\ \A q \in RunIds : q # r => run'[q] = run[q] /\ worker'[q] = worker[q]
  BY DEF RunInv, TypeOK
<1>2. \A q \in RunIds : run'[q].status # "none" =>
           /\ run[q].status # "none"
           /\ run'[q].task = run[q].task
           /\ Blocks(run'[q]) => Blocks(run[q])
  BY <1>1
<1>3. BlockingRunIsLatest'
  BY <1>2, NoNewBlocker DEF RunInv
<1>4. WorkerMatchesRow'
  BY <1>1 DEF RunInv, WorkerMatchesRow
<1>5. r <= lastRun
  BY DEF RunInv, RowsAllocated, TypeOK, RunIds
<1>6. RowsAllocated'
  BY <1>1, <1>5 DEF RunInv, RowsAllocated, TypeOK, RunIds
<1>7. NoWorkerBeforeRecovery'
  BY DEF RunInv, NoWorkerBeforeRecovery
<1> QED
  BY <1>3, <1>4, <1>6, <1>7 DEF RunInv

\* The row a worker step leaves, when the worker is where its pc says.
LEMMA QueuedRowBlocks ==
    ASSUME RunInv, NEW r \in RunIds
    PROVE  /\ worker[r] \in {"resolve", "busy", "send", "fail"} /\ Present(r)
                 => run[r].status = "queued" /\ Blocks(run[r])
           /\ worker[r] = "turn" /\ (Present(r) \/ run[r].linked)
                 => /\ run[r].status \in {"running", "needs_confirmation"}
                    /\ Blocks(run[r])
BY DEF RunInv, WorkerMatchesRow, RowsAllocated, AbsentRow, Present, Blocks, OpenStatus

LEMMA WorkerRunInv ==
    ASSUME RunInv, TypeOK', NEW r \in RunIds, WorkerStep(r)
    PROVE  RunInv'
<1> USE DEF dbVars, workVars, bounds
<1>1. /\ run[r] \in RunRow /\ run = [run EXCEPT ![r] = run[r]]
      /\ worker[r] \in WorkerPc /\ worker = [worker EXCEPT ![r] = worker[r]]
      /\ {"none", "busy", "send", "fail", "turn"} \subseteq WorkerPc
  BY DEF RunInv, TypeOK, WorkerPc
<1>2. worker[r] \in {"resolve", "busy", "send", "fail"}
  BY DEF WorkerStep, ResolveThread, ThreadIdle, ThreadBusyRetry, ThreadStaysBusy, SendMessage,
         MarkRunError
<1>3. /\ run[r].status \in {"queued", "none"}
      /\ Present(r) => run[r].status = "queued" /\ Blocks(run[r])
  BY <1>2, QueuedRowBlocks DEF RunInv, WorkerMatchesRow
<1>4. CASE ResolveThread(r)
  <2>1. PICK pc \in {"busy", "fail"} : worker' = [worker EXCEPT ![r] = pc]
    BY <1>4 DEF ResolveThread
  <2> QED
    BY <1>1, <1>2, <1>3, <1>4, <2>1, OwnRowStep DEF ResolveThread
<1>5. CASE ThreadIdle(r)
  BY <1>1, <1>2, <1>3, <1>5, OwnRowStep DEF ThreadIdle
<1>6. CASE ThreadBusyRetry(r)
  BY <1>1, <1>2, <1>3, <1>6, QuietStep DEF ThreadBusyRetry
<1>7. CASE ThreadStaysBusy(r)
  <2>1. CASE /\ SetRow(r, [run[r] EXCEPT !.status = "skipped"])
             /\ worker' = [worker EXCEPT ![r] = "none"]
    <3> DEFINE row == IF Present(r) THEN [run[r] EXCEPT !.status = "skipped"] ELSE run[r]
    <3>1. run' = [run EXCEPT ![r] = row]
      BY <1>1, <2>1 DEF SetRow
    <3>2. row \in RunRow /\ row.task = run[r].task
      BY <1>1 DEF RunRow, RunStatus, SettledStatus
    <3>3. row = run[r] \/ (Present(r) /\ row.status = "skipped")
      BY <1>1 DEF RunRow
    <3> QED
      BY <1>1, <1>2, <1>3, <1>7, <2>1, <3>1, <3>2, <3>3, OwnRowStep
         DEF ThreadStaysBusy, Present
  <2>2. CASE UNCHANGED run /\ worker' = [worker EXCEPT ![r] = "fail"]
    BY <1>1, <1>2, <1>3, <1>7, <2>2, OwnRowStep DEF ThreadStaysBusy
  <2> QED
    BY <1>7, <2>1, <2>2 DEF ThreadStaysBusy
<1>8. CASE SendMessage(r)
  <2>1. CASE /\ SetRow(r, [run[r] EXCEPT !.status = "running", !.linked = TRUE])
             /\ worker' = [worker EXCEPT ![r] = "turn"]
    <3> DEFINE row == IF Present(r) THEN [run[r] EXCEPT !.status = "running", !.linked = TRUE]
                                    ELSE run[r]
    <3>1. run' = [run EXCEPT ![r] = row]
      BY <1>1, <2>1 DEF SetRow
    <3>2. row \in RunRow /\ row.task = run[r].task
      BY <1>1 DEF RunRow, RunStatus, OpenStatus
    <3>3. row = run[r] \/ (Present(r) /\ row.status = "running")
      BY <1>1 DEF RunRow
    <3>4. row.status \in {"running", "none"}
      BY <1>1, <1>3 DEF RunRow, Present
    <3> QED
      BY <1>1, <1>2, <1>3, <1>8, <2>1, <3>1, <3>2, <3>3, <3>4, OwnRowStep
         DEF SendMessage, Present
  <2>2. CASE UNCHANGED run /\ worker' = [worker EXCEPT ![r] = "fail"]
    BY <1>1, <1>2, <1>3, <1>8, <2>2, OwnRowStep DEF SendMessage
  <2> QED
    BY <1>8, <2>1, <2>2 DEF SendMessage
<1>9. CASE MarkRunError(r)
  <2>1. CASE SetRow(r, [run[r] EXCEPT !.status = "error", !.acked = FALSE])
    <3> DEFINE row == IF Present(r) THEN [run[r] EXCEPT !.status = "error", !.acked = FALSE]
                                    ELSE run[r]
    <3>1. run' = [run EXCEPT ![r] = row]
      BY <1>1, <2>1 DEF SetRow
    <3>2. row \in RunRow /\ row.task = run[r].task
      BY <1>1 DEF RunRow, RunStatus, SettledStatus, FailedStatus
    <3>3. row = run[r] \/ (Present(r) /\ row.status = "error")
      BY <1>1 DEF RunRow
    <3> QED
      BY <1>1, <1>2, <1>3, <1>9, <3>1, <3>2, <3>3, OwnRowStep DEF MarkRunError, Present
  <2>2. CASE UNCHANGED run
    BY <1>1, <1>2, <1>3, <1>9, <2>2, OwnRowStep DEF MarkRunError
  <2> QED
    BY <1>9, <2>1, <2>2 DEF MarkRunError
<1> QED
  BY <1>4, <1>5, <1>6, <1>7, <1>8, <1>9 DEF WorkerStep

LEMMA TurnRunInv ==
    ASSUME RunInv, TypeOK', NEW r \in RunIds, TurnStep(r)
    PROVE  RunInv'
<1> USE DEF dbVars, workVars, bounds
<1>1. /\ run[r] \in RunRow /\ run = [run EXCEPT ![r] = run[r]]
      /\ worker[r] \in WorkerPc /\ worker = [worker EXCEPT ![r] = worker[r]]
      /\ {"none", "turn"} \subseteq WorkerPc
  BY DEF RunInv, TypeOK, WorkerPc
<1>2. worker[r] = "turn"
  BY DEF TurnStep, TurnNeedsConfirmation, ThreadDeleted, FinishChatRun
<1>3. /\ run[r].status \in {"running", "needs_confirmation", "none"}
      /\ run[r].linked => /\ run[r].status \in {"running", "needs_confirmation"}
                          /\ Blocks(run[r])
  BY <1>2, QueuedRowBlocks DEF RunInv, WorkerMatchesRow
<1>4. CASE TurnNeedsConfirmation(r)
  <2> DEFINE row == [run[r] EXCEPT !.status = "needs_confirmation", !.acked = FALSE]
  <2>1. run' = [run EXCEPT ![r] = row]
    BY <1>1, <1>4 DEF TurnNeedsConfirmation, RunInv, TypeOK
  <2>2. row \in RunRow /\ row.task = run[r].task /\ row.status = "needs_confirmation"
    BY <1>1 DEF RunRow, RunStatus, OpenStatus
  <2> HIDE DEF row
  <2> QED
    BY <1>1, <1>2, <1>3, <1>4, <2>1, <2>2, OwnRowStep DEF TurnNeedsConfirmation
<1>5. CASE ThreadDeleted(r)
  <2> DEFINE row == [run[r] EXCEPT !.linked = FALSE]
  <2>1. run' = [run EXCEPT ![r] = row]
    BY <1>1, <1>5 DEF ThreadDeleted, RunInv, TypeOK
  <2>2. row \in RunRow /\ row.task = run[r].task /\ row.status = run[r].status
    BY <1>1 DEF RunRow
  <2>3. row.status \in {"running", "needs_confirmation"} /\ Blocks(run[r])
    BY <1>3, <1>5, <2>2 DEF ThreadDeleted
  <2>4. worker' = [worker EXCEPT ![r] = "turn"] /\ UNCHANGED <<lastRun, sched>>
    BY <1>1, <1>2, <1>5 DEF ThreadDeleted
  <2> HIDE DEF row
  <2> QED
    BY <1>1, <1>2, <1>3, <2>1, <2>2, <2>3, <2>4, OwnRowStep
<1>6. CASE FinishChatRun(r)
  <2>1. ASSUME NEW status \in {"completed", "interrupted", "error"}, run[r].linked,
               run' = [run EXCEPT ![r].status = status, ![r].acked = (status = "completed")]
        PROVE  RunInv'
    <3> DEFINE row == [run[r] EXCEPT !.status = status, !.acked = (status = "completed")]
    <3>1. run' = [run EXCEPT ![r] = row]
      BY <1>1, <2>1 DEF RunInv, TypeOK
    <3>2. row \in RunRow /\ row.task = run[r].task /\ row.status = status
      BY <1>1 DEF RunRow, RunStatus, SettledStatus, FailedStatus
    <3> HIDE DEF row
    <3> QED
      BY <1>1, <1>2, <1>3, <1>6, <2>1, <3>1, <3>2, OwnRowStep DEF FinishChatRun
  <2>2. CASE UNCHANGED run
    BY <1>1, <1>2, <1>3, <1>6, <2>2, OwnRowStep DEF FinishChatRun
  <2> QED
    BY <1>6, <2>1, <2>2 DEF FinishChatRun
<1> QED
  BY <1>4, <1>5, <1>6 DEF TurnStep

LEMMA EnvironmentRunInv ==
    ASSUME RunInv, TypeOK', Environment
    PROVE  RunInv'
<1> USE DEF dbVars, workVars, bounds
<1>1. CASE Tick
  BY <1>1, QuietStep DEF Tick
<1>2. CASE Exit
  <2>1. UNCHANGED <<run, lastRun>> /\ \A r \in RunIds : worker'[r] = "none"
    BY <1>2 DEF Exit
  <2>2. BlockingRunIsLatest'
    BY <2>1, NoNewBlocker DEF RunInv
  <2>3. WorkerMatchesRow' /\ NoWorkerBeforeRecovery'
    BY <2>1 DEF WorkerMatchesRow, NoWorkerBeforeRecovery
  <2>4. RowsAllocated'
    BY <2>1 DEF RunInv, RowsAllocated
  <2> QED
    BY <2>2, <2>3, <2>4 DEF RunInv
<1>3. CASE Start
  BY <1>3, QuietStep DEF Start
<1> QED
  BY <1>1, <1>2, <1>3 DEF Environment

LEMMA NextRunInv == RunInv /\ [Next]_vars => RunInv'
<1> SUFFICES ASSUME RunInv, [Next]_vars PROVE RunInv'
  OBVIOUS
<1>1. TypeOK'
  BY NextTypeOK DEF RunInv
<1>2. CASE \E c \in Commands : WriteStep(c)
  BY <1>1, <1>2, QuietStep DEF WriteStep, CommitOp, OpFails, dbVars, workVars
<1>3. CASE UNCHANGED vars
  BY <1>1, <1>3, QuietStep DEF vars
<1> QED
  BY <1>1, <1>2, <1>3, UserCommandRunInv, SchedulerRunInv, WorkerRunInv, TurnRunInv,
     EnvironmentRunInv DEF Next

\* A run that blocks its task is the youngest run of the task, whatever the clock,
\* the faults of the database, the exits and the edits of the user do.
THEOREM OneRunAtATime == Spec => []BlockingRunIsLatest
<1>1. RunInv => BlockingRunIsLatest
  BY DEF RunInv
<1> QED
  BY <1>1, InitRunInv, NextRunInv, PTL DEF Spec

\* The whole inductive invariant: what holds of the rows and their workers in
\* every state of the subsystem.
THEOREM RowsAndWorkers == Spec => []RunInv
BY InitRunInv, NextRunInv, PTL DEF Spec

-----------------------------------------------------------------------------
(* Open runs have a worker.                                                *)

\* A run that a step changed is settled, or still has its worker.
LEMMA OpenKept ==
    ASSUME OpenRunIsWorked,
           sched'.pc \notin {"down", "recover"} => sched.pc \notin {"down", "recover"},
           \A q \in RunIds :
               \/ run'[q] = run[q] /\ worker'[q] = worker[q]
               \/ ~Unfinished(run'[q])
               \/ worker'[q] # "none"
               \/ run'[q].status = "running" /\ ~run'[q].linked
    PROVE  OpenRunIsWorked'
BY DEF OpenRunIsWorked

LEMMA UserCommandOpen ==
    ASSUME RunInv, OpenRunIsWorked, UserCommand
    PROVE  OpenRunIsWorked'
<1> USE DEF dbVars, workVars, bounds
<1>1. ASSUME NEW c \in Commands, NEW t \in Tasks, NEW s \in Schedules,
             NEW e \in BOOLEAN, PrepareCreate(c, t, s, e) \/ PrepareUpdate(c, t, s, e)
      PROVE  OpenRunIsWorked'
  BY <1>1, OpenKept DEF Prepare, PrepareCreate, PrepareUpdate
<1>2. ASSUME NEW c \in Commands, NEW t \in Tasks, NEW e \in BOOLEAN,
             PrepareEnable(c, t, e)
      PROVE  OpenRunIsWorked'
  BY <1>2, OpenKept DEF Prepare, PrepareEnable
<1>3. ASSUME NEW t \in Tasks, Acknowledge(t)
      PROVE  OpenRunIsWorked'
  <2>1. PICK r \in RunIds : run' = [run EXCEPT ![r].acked = TRUE]
    BY <1>3 DEF Acknowledge, Rows
  <2>2. \A q \in RunIds : run'[q].status = run[q].status /\ run'[q].linked = run[q].linked
    BY <2>1 DEF RunInv, TypeOK, RunRow
  <2> QED
    BY <1>3, <2>2 DEF Acknowledge, OpenRunIsWorked, Unfinished
<1>4. ASSUME NEW t \in Tasks, DeleteTask(t)
      PROVE  OpenRunIsWorked'
  <2>1. \A q \in RunIds : run'[q] = run[q] \/ run'[q].status = "none"
    BY <1>4 DEF DeleteTask, AbsentRow
  <2> QED
    BY <1>4, <2>1, OpenKept DEF DeleteTask, Unfinished
<1> QED
  BY <1>1, <1>2, <1>3, <1>4 DEF UserCommand

LEMMA SchedulerOpen ==
    ASSUME RunInv, OpenRunIsWorked, ~Faults, Scheduler
    PROVE  OpenRunIsWorked'
<1> USE DEF dbVars, workVars, bounds
<1>1. CASE Recover
  <2>1. \A q \in RunIds : run[q] \in RunRow
    BY DEF RunInv, TypeOK
  <2>2. \A q \in RunIds : ~Unfinished(run'[q])
    BY <1>1, <2>1 DEF Recover, Unfinished, RunRow
  <2> QED
    BY <2>2 DEF OpenRunIsWorked
<1>2. CASE BeginPass \/ ListDue \/ EndPass \/ ComputeDelay \/ WakeUp
  BY <1>2, OpenKept DEF BeginPass, ListDue, EndPass, ComputeDelay, WakeUp
<1>3. ASSUME NEW x \in sched.due, SkipStaleSnapshot(x) \/ ClaimFails(x)
      PROVE  OpenRunIsWorked'
  BY <1>3, OpenKept DEF SkipStaleSnapshot, ClaimFails, NextSnapshot
<1>4. ASSUME NEW x \in sched.due, Claim(x)
      PROVE  OpenRunIsWorked'
  <2> DEFINE new == lastRun + 1
  <2>1. new \in RunIds
    BY <1>4, ConstantAssumption DEF Claim, InsertRun, RunInv, TypeOK, RunIds
  <2>2. worker' = [worker EXCEPT ![new] = "resolve"] /\ sched.pc = "claim"
    BY <1>4 DEF Claim, NextSnapshot
  <2>3. \A q \in RunIds : \/ run'[q] = run[q] /\ worker'[q] = worker[q]
                          \/ worker'[q] # "none"
    BY <1>4, <2>1, <2>2 DEF Claim, InsertRun, RunInv, TypeOK
  <2> QED
    BY <2>2, <2>3, OpenKept
<1> QED
  BY <1>1, <1>2, <1>3, <1>4 DEF Scheduler

LEMMA WorkerOpen ==
    ASSUME RunInv, OpenRunIsWorked, ~Faults, NEW r \in RunIds, WorkerStep(r)
    PROVE  OpenRunIsWorked'
<1> USE DEF dbVars, workVars, bounds
<1>1. /\ run \in [RunIds -> RunRow] /\ worker \in [RunIds -> WorkerPc]
      /\ UNCHANGED sched
  BY DEF RunInv, TypeOK, WorkerStep, ResolveThread, ThreadIdle, ThreadBusyRetry, ThreadStaysBusy,
         SendMessage, MarkRunError
<1>2. \A q \in RunIds : q # r => run'[q] = run[q] /\ worker'[q] = worker[q]
  BY <1>1 DEF WorkerStep, ResolveThread, ThreadIdle, ThreadBusyRetry, ThreadStaysBusy,
              SendMessage, MarkRunError, SetRow
<1>3. CASE ResolveThread(r) \/ ThreadIdle(r) \/ ThreadBusyRetry(r) \/ SendMessage(r)
  <2>1. worker'[r] # "none"
    BY <1>1, <1>3 DEF ResolveThread, ThreadIdle, ThreadBusyRetry, SendMessage
  <2> QED
    BY <1>1, <1>2, <2>1, OpenKept
<1>4. CASE ThreadStaysBusy(r) \/ MarkRunError(r)
  <2>1. run'[r].status \in {"skipped", "error", "none"}
    <3>1. PICK row \in RunRow : row.status \in {"skipped", "error"} /\ SetRow(r, row)
      <4>1. /\ [run[r] EXCEPT !.status = "skipped"] \in RunRow
            /\ [run[r] EXCEPT !.status = "skipped"].status = "skipped"
        BY <1>1 DEF RunRow, RunStatus, SettledStatus
      <4>2. /\ [run[r] EXCEPT !.status = "error", !.acked = FALSE] \in RunRow
            /\ [run[r] EXCEPT !.status = "error", !.acked = FALSE].status = "error"
        BY <1>1 DEF RunRow, RunStatus, SettledStatus, FailedStatus
      <4> QED
        BY <1>4, <4>1, <4>2 DEF ThreadStaysBusy, MarkRunError
    <3> QED
      BY <1>1, <3>1 DEF SetRow, Present
  <2> QED
    BY <1>1, <1>2, <2>1, OpenKept DEF Unfinished
<1> QED
  BY <1>3, <1>4 DEF WorkerStep

LEMMA TurnOpen ==
    ASSUME RunInv, OpenRunIsWorked, ~Faults, NEW r \in RunIds, TurnStep(r)
    PROVE  OpenRunIsWorked'
<1> USE DEF dbVars, workVars, bounds
<1>1. /\ run \in [RunIds -> RunRow] /\ worker \in [RunIds -> WorkerPc]
      /\ UNCHANGED sched
  BY DEF RunInv, TypeOK, TurnStep, TurnNeedsConfirmation, ThreadDeleted, FinishChatRun
<1>2. \A q \in RunIds : q # r => run'[q] = run[q] /\ worker'[q] = worker[q]
  BY <1>1 DEF TurnStep, TurnNeedsConfirmation, ThreadDeleted, FinishChatRun
<1>3. CASE TurnNeedsConfirmation(r) \/ ThreadDeleted(r)
  BY <1>1, <1>2, <1>3, OpenKept DEF TurnNeedsConfirmation, ThreadDeleted
<1>4. CASE FinishChatRun(r)
  <2>1. CASE run[r].linked
    <3>1. run'[r].status \in {"completed", "interrupted", "error"}
      BY <1>1, <1>4, <2>1 DEF FinishChatRun, RunRow
    <3> QED
      BY <1>1, <1>2, <3>1, OpenKept DEF Unfinished
  <2>2. CASE ~run[r].linked
    <3>1. run' = run
      BY <1>4, <2>2 DEF FinishChatRun
    <3>2. run[r].status \in {"running", "needs_confirmation", "none"}
      BY <1>4 DEF FinishChatRun, RunInv, WorkerMatchesRow
    <3> QED
      BY <1>1, <1>2, <2>2, <3>1, <3>2, OpenKept DEF Unfinished
  <2> QED
    BY <2>1, <2>2
<1> QED
  BY <1>3, <1>4 DEF TurnStep

\* Where statements do not fail, a queued or running row of a live session has
\* the worker of execute_claimed_task or the turn that will settle it, unless its
\* message went with its thread.
THEOREM OpenRunsAreWorked ==
    ASSUME ~Faults
    PROVE  Spec => []OpenRunIsWorked
<1>1. Init => RunInv /\ OpenRunIsWorked
  BY InitRunInv DEF Init, OpenRunIsWorked, LoopAt
<1>2. RunInv /\ OpenRunIsWorked /\ [Next]_vars => RunInv' /\ OpenRunIsWorked'
  <2> SUFFICES ASSUME RunInv, OpenRunIsWorked, [Next]_vars
               PROVE  OpenRunIsWorked'
    BY NextRunInv
  <2>1. CASE \E c \in Commands : WriteStep(c)
    BY <2>1, OpenKept DEF WriteStep, CommitOp, OpFails, dbVars, workVars
  <2>2. CASE Environment
    BY <2>2, OpenKept DEF Environment, Tick, Exit, Start, OpenRunIsWorked, LoopAt, dbVars,
       workVars
  <2>3. CASE UNCHANGED vars
    BY <2>3, OpenKept DEF vars
  <2> QED
    BY <2>1, <2>2, <2>3, UserCommandOpen, SchedulerOpen, WorkerOpen, TurnOpen DEF Next
<1> QED
  BY <1>1, <1>2, PTL DEF Spec

-----------------------------------------------------------------------------
(* The loop does not sleep past a task that is due.                        *)

\* A step of the others while the loop sleeps wakes it, or gives it no reason to.
LEMMA SleepKept ==
    ASSUME SleepCoversDue, UNCHANGED sched,
           ~permit' => /\ ~permit
                       /\ UNCHANGED task
                       /\ \A t \in Tasks : Runnable(t)' /\ ~SkippedLast(t)'
                                             => Runnable(t) /\ ~SkippedLast(t)
    PROVE  SleepCoversDue'
BY DEF SleepCoversDue, LookedAtInTime

LEMMA SameRows ==
    ASSUME UNCHANGED <<task, run>>, NEW t \in Tasks
    PROVE  (Runnable(t)' <=> Runnable(t)) /\ (SkippedLast(t)' <=> SkippedLast(t))
BY DEF Runnable, Blocked, Blocks, SkippedLast, Rows

\* Steps that change neither rows nor the state of the loop.
LEMMA SleepQuiet ==
    ASSUME SleepCoversDue, UNCHANGED <<task, run, sched>>, ~permit' => ~permit
    PROVE  SleepCoversDue'
BY SameRows, SleepKept

\* A worker that writes its row and leaves it open, or failed without an
\* acknowledgement, or skipped.
LEMMA OwnRowSleep ==
    ASSUME RunInv, SleepCoversDue, UNCHANGED <<task, sched, permit>>,
           NEW r \in RunIds, NEW row \in RunRow, run' = [run EXCEPT ![r] = row],
           \/ row = run[r]
           \/ /\ Present(r) /\ Blocks(run[r]) /\ row.task = run[r].task
              /\ row.status # "none"
              /\ Blocks(row) \/ row.status = "skipped"
    PROVE  SleepCoversDue'
<1>1. /\ run'[r] = row /\ \A q \in RunIds : q # r => run'[q] = run[q]
  BY DEF RunInv, TypeOK
<1>2. CASE row = run[r]
  BY <1>2, SleepQuiet DEF RunInv, TypeOK
<1>3. CASE /\ Present(r) /\ Blocks(run[r]) /\ row.task = run[r].task
           /\ row.status # "none"
           /\ Blocks(row) \/ row.status = "skipped"
  <2>1. \A t : Rows(t)' = Rows(t)
    BY <1>1, <1>3 DEF Rows, Present
  <2>2. run[r].status # "skipped"
    BY <1>3 DEF Blocks, OpenStatus, FailedStatus
  <2> SUFFICES ASSUME NEW t \in Tasks, Runnable(t)', ~SkippedLast(t)'
               PROVE  Runnable(t) /\ ~SkippedLast(t)
    BY SleepKept
  <2>3. r \in Rows(t) => \A q \in Rows(t) : q <= r
    BY <1>3 DEF RunInv, BlockingRunIsLatest
  <2>4. r \in Rows(t) => Blocks(row)
    <3> SUFFICES ASSUME r \in Rows(t), row.status = "skipped" PROVE FALSE
      BY <1>3
    <3> QED
      BY <1>1, <2>1, <2>3 DEF SkippedLast
  <2>5. \A q \in Rows(t) : ~Blocks(run'[q])
    BY <2>1 DEF Runnable, Blocked
  <2>6. r \notin Rows(t)
    BY <1>1, <2>4, <2>5
  <2>7. \A q \in Rows(t) : run'[q] = run[q]
    BY <1>1, <2>6 DEF Rows
  <2> QED
    BY <2>1, <2>5, <2>7 DEF Runnable, Blocked, SkippedLast
<1> QED
  BY <1>2, <1>3

LEMMA WorkerSleep ==
    ASSUME RunInv, SleepCoversDue, ~Faults, NEW r \in RunIds, WorkerStep(r)
    PROVE  SleepCoversDue'
<1> USE DEF dbVars, workVars, bounds
<1>1. run[r] \in RunRow /\ run \in [RunIds -> RunRow] /\ UNCHANGED <<task, sched, permit>>
  BY DEF RunInv, TypeOK, WorkerStep, ResolveThread, ThreadIdle, ThreadBusyRetry, ThreadStaysBusy,
         SendMessage, MarkRunError
<1>2. Present(r) => Blocks(run[r])
  BY QueuedRowBlocks DEF WorkerStep, ResolveThread, ThreadIdle, ThreadBusyRetry,
     ThreadStaysBusy, SendMessage, MarkRunError
<1>3. CASE UNCHANGED run
  BY <1>1, <1>3, SleepQuiet
<1>4. ASSUME NEW row \in RunRow, row.task = run[r].task, SetRow(r, row),
             row.status = "skipped" \/ Blocks(row), row.status # "none"
      PROVE  SleepCoversDue'
  <2>1. CASE Present(r)
    BY <1>1, <1>2, <1>4, <2>1, OwnRowSleep DEF SetRow
  <2>2. CASE ~Present(r)
    BY <1>3, <1>4, <2>2 DEF SetRow
  <2> QED
    BY <2>1, <2>2
<1>5. CASE ThreadStaysBusy(r)
  <2> DEFINE row == [run[r] EXCEPT !.status = "skipped"]
  <2>1. row \in RunRow /\ row.task = run[r].task /\ row.status = "skipped"
    BY <1>1 DEF RunRow, RunStatus, SettledStatus
  <2> HIDE DEF row
  <2>2. SetRow(r, row)
    BY <1>5 DEF ThreadStaysBusy, row
  <2> QED
    BY <1>4, <2>1, <2>2
<1>6. CASE SendMessage(r)
  <2> DEFINE row == [run[r] EXCEPT !.status = "running", !.linked = TRUE]
  <2>1. row \in RunRow /\ row.task = run[r].task /\ row.status = "running"
    BY <1>1 DEF RunRow, RunStatus, OpenStatus
  <2> HIDE DEF row
  <2>2. SetRow(r, row) \/ UNCHANGED run
    BY <1>6 DEF SendMessage, row
  <2> QED
    BY <1>3, <1>4, <2>1, <2>2 DEF Blocks, OpenStatus
<1>7. CASE MarkRunError(r)
  <2> DEFINE row == [run[r] EXCEPT !.status = "error", !.acked = FALSE]
  <2>1. row \in RunRow /\ row.task = run[r].task /\ row.status = "error" /\ ~row.acked
    BY <1>1 DEF RunRow, RunStatus, SettledStatus, FailedStatus
  <2> HIDE DEF row
  <2>2. SetRow(r, row)
    BY <1>7 DEF MarkRunError, row
  <2> QED
    BY <1>4, <2>1, <2>2 DEF Blocks, FailedStatus
<1> QED
  BY <1>3, <1>5, <1>6, <1>7 DEF WorkerStep, ResolveThread, ThreadIdle, ThreadBusyRetry

LEMMA TurnSleep ==
    ASSUME RunInv, SleepCoversDue, NEW r \in RunIds, TurnStep(r)
    PROVE  SleepCoversDue'
<1> USE DEF dbVars, workVars, bounds
<1>1. run[r] \in RunRow /\ run \in [RunIds -> RunRow] /\ UNCHANGED <<task, sched>>
  BY DEF RunInv, TypeOK, TurnStep, TurnNeedsConfirmation, ThreadDeleted, FinishChatRun
<1>2. worker[r] = "turn" /\ run[r].linked =>
         Present(r) /\ Blocks(run[r]) /\ run[r].status \in OpenStatus
  BY QueuedRowBlocks DEF Present, OpenStatus
<1>3. CASE TurnNeedsConfirmation(r)
  <2> DEFINE row == [run[r] EXCEPT !.status = "needs_confirmation", !.acked = FALSE]
  <2>1. row \in RunRow /\ row.task = run[r].task /\ row.status = "needs_confirmation"
    BY <1>1 DEF RunRow, RunStatus, OpenStatus
  <2>2. run' = [run EXCEPT ![r] = row]
    BY <1>1, <1>3 DEF TurnNeedsConfirmation
  <2>3. Blocks(row)
    BY <2>1 DEF Blocks, OpenStatus
  <2> HIDE DEF row
  <2> QED
    BY <1>1, <1>2, <1>3, <2>1, <2>2, <2>3, OwnRowSleep DEF TurnNeedsConfirmation
<1>4. CASE ThreadDeleted(r)
  <2> DEFINE row == [run[r] EXCEPT !.linked = FALSE]
  <2>1. row \in RunRow /\ row.task = run[r].task /\ row.status = run[r].status
    BY <1>1 DEF RunRow
  <2>2. run' = [run EXCEPT ![r] = row]
    BY <1>1, <1>4 DEF ThreadDeleted
  <2> HIDE DEF row
  <2>3. Blocks(row) /\ row.status # "none"
    BY <1>2, <1>4, <2>1 DEF ThreadDeleted, Blocks, OpenStatus
  <2> QED
    BY <1>1, <1>2, <1>4, <2>1, <2>2, <2>3, OwnRowSleep DEF ThreadDeleted
<1>5. CASE FinishChatRun(r)
  BY <1>1, <1>5, SleepKept, SleepQuiet DEF FinishChatRun
<1> QED
  BY <1>3, <1>4, <1>5 DEF TurnStep

\* The wait next_scheduler_delay computes reaches no further than one recheck
\* after the slot of any task that may run.
LEMMA DelaySleep ==
    ASSUME RunInv, ~Faults, ComputeDelay
    PROVE  SleepCoversDue'
<1>1. /\ now \in Nat /\ \A t \in Tasks : task[t].next \in Nat
      /\ RecheckDelay \in Nat \ {0} /\ IdleDelay \in Nat
      /\ sched \in SchedRow /\ UNCHANGED <<task, run>>
  BY ConstantAssumption DEF RunInv, TypeOK, TaskRow, ComputeDelay, dbVars
<1>2. PICK deadline \in Deadlines :
         sched' = [sched EXCEPT !.pc = "sleep", !.since = now, !.deadline = deadline]
  BY DEF ComputeDelay
<1>3. sched'.since = now /\ sched'.deadline = deadline
  BY <1>1, <1>2 DEF SchedRow
<1> SUFFICES ASSUME NEW t \in Tasks, Runnable(t)
             PROVE  LookedAtInTime(t)'
  BY <1>1, SameRows DEF SleepCoversDue
<1>4. PICK u \in FirstRunnable : deadline = DelayUntil(task[u].next)
  BY <1>2 DEF Deadlines
<1>5. task[u].next <= task[t].next /\ u \in Tasks
  BY <1>4 DEF FirstRunnable
<1> QED
  BY <1>1, <1>3, <1>4, <1>5 DEF LookedAtInTime, DelayUntil

\* Where statements do not fail, the scheduler sleeps past no task it could claim,
\* whatever is edited, acknowledged, finished or deleted while it sleeps.
THEOREM SleepIsCovered ==
    ASSUME ~Faults
    PROVE  Spec => []SleepCoversDue
<1>1. Init => RunInv /\ SleepCoversDue
  BY InitRunInv DEF Init, SleepCoversDue, LoopAt
<1>2. RunInv /\ SleepCoversDue /\ [Next]_vars => RunInv' /\ SleepCoversDue'
  <2> SUFFICES ASSUME RunInv, SleepCoversDue, [Next]_vars
               PROVE  SleepCoversDue'
    BY NextRunInv
  <2> USE DEF dbVars, workVars, bounds
  <2>1. CASE UserCommand
    <3>1. CASE permit' = TRUE /\ UNCHANGED sched
      BY <3>1, SleepKept
    <3>2. CASE UNCHANGED <<task, run, sched, permit>>
      BY <3>2, SleepQuiet
    <3> QED
      BY <2>1, <3>1, <3>2 DEF UserCommand, Prepare, PrepareCreate, PrepareUpdate, PrepareEnable,
         Acknowledge, DeleteTask
  <2>2. CASE \E c \in Commands : WriteStep(c)
    BY <2>2, SleepKept, SleepQuiet DEF WriteStep, CommitOp, OpFails
  <2>3. CASE Scheduler
    <3>1. CASE ComputeDelay
      BY <3>1, DelaySleep
    <3>2. CASE ~ComputeDelay
      <4>1. sched'.pc # "sleep"
        <5>1. sched \in SchedRow
          BY DEF RunInv, TypeOK
        <5>2. /\ [sched EXCEPT !.pc = "list", !.passNow = now].pc = "list"
              /\ [sched EXCEPT !.pc = "claim", !.due = DueSnapshots].pc = "claim"
              /\ \A x : [sched EXCEPT !.due = @ \ {x}].pc = sched.pc
              /\ LoopAt("delay").pc = "delay" /\ LoopAt("begin").pc = "begin"
          BY <5>1 DEF SchedRow, LoopAt
        <5>3. CASE Recover \/ BeginPass \/ ListDue \/ EndPass \/ WakeUp
          BY <5>2, <5>3 DEF Recover, BeginPass, ListDue, EndPass, WakeUp
        <5>4. ASSUME NEW x \in sched.due, Claim(x) \/ SkipStaleSnapshot(x) \/ ClaimFails(x)
              PROVE  sched'.pc # "sleep"
          BY <5>2, <5>4 DEF Claim, SkipStaleSnapshot, ClaimFails, NextSnapshot
        <5> QED
          BY <2>3, <3>2, <5>3, <5>4 DEF Scheduler
      <4> QED
        BY <4>1 DEF SleepCoversDue
    <3> QED
      BY <3>1, <3>2
  <2>4. CASE Environment
    <3>1. CASE Tick
      BY <3>1, SleepQuiet DEF Tick
    <3>2. CASE Exit \/ Start
      BY <3>2 DEF Exit, Start, LoopAt, SleepCoversDue
    <3> QED
      BY <2>4, <3>1, <3>2 DEF Environment
  <2>5. CASE UNCHANGED vars
    BY <2>5, SleepQuiet DEF vars
  <2> QED
    BY <2>1, <2>2, <2>3, <2>4, <2>5, WorkerSleep, TurnSleep DEF Next
<1> QED
  BY <1>1, <1>2, PTL DEF Spec
=============================================================================

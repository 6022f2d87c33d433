--------------------------- MODULE ScheduledTasks ---------------------------
(***************************************************************************)
(* The scheduled-task subsystem of the desktop backend: the rows of        *)
(* scheduled_tasks and scheduled_task_runs, the single scheduler loop of   *)
(* ScheduledTaskManager::start with its Notify permit, one spawned worker  *)
(* per claimed run, the commands of the UI that edit tasks, and the        *)
(* settlement of a run by the chat turn it started.                        *)
(*                                                                         *)
(* A tick of the clock is the grain at which schedules differ.  Every      *)
(* database statement is atomic (SQLite), every await between two of them  *)
(* is a point where the other actors may step.                             *)
(***************************************************************************)
EXTENDS Naturals

CONSTANTS
    Tasks,            \* identities a created task may get
    NoTask,           \* the task of a run id that has no row
    Commands,         \* identities of the UI commands that may be in flight
    Schedules,        \* records [type |-> "interval" | "calendar", period]
    Horizon,          \* bound: last value of the clock
    MaxRuns,          \* bound: run rows ever inserted
    MaxCrashes,       \* bound: exits of the application
    MaxEdits,         \* bound: updates and enable/disable switches
    Retries,          \* THREAD_BUSY_RETRY_COUNT
    RecheckDelay,     \* SCHEDULER_RECHECK_DELAY in ticks
    IdleDelay,        \* SCHEDULER_IDLE_DELAY in ticks
    Faults,           \* TRUE: a database call may fail
    ClockMovesInside  \* TRUE: the clock may pass a slot between its reading
                      \* and the statement that uses what was read

RunIds == 1..MaxRuns

\* No time: next_run_at IS NULL.  Every computed slot is at least 1.
NoSlot == 0

ASSUME ConstantAssumption ==
    /\ NoTask \notin Tasks
    /\ Schedules # {}
    /\ Schedules \subseteq [type : {"interval", "calendar"}, period : Nat \ {0}]
    /\ Horizon \in Nat /\ MaxRuns \in Nat /\ MaxCrashes \in Nat
    /\ MaxEdits \in Nat
    /\ Retries \in Nat \ {0}
    /\ RecheckDelay \in Nat \ {0} /\ IdleDelay \in Nat \ {0}
    /\ Faults \in BOOLEAN /\ ClockMovesInside \in BOOLEAN

VARIABLES
    now,        \* Utc::now()
    task,       \* scheduled_tasks, one row per identity
    run,        \* scheduled_task_runs, one row per identity, ids in created_at order
    lastRun,    \* the youngest run id in use
    worker,     \* where the spawned execute_claimed_task of a run stands
    attempt,    \* its loop counter while the target thread is busy
    sched,      \* the scheduler loop: pc, clock of the pass, listed snapshots, deadline
    permit,     \* the stored permit of the Notify
    op,         \* each UI command between its computation and its write
    crashes, edits

dbVars   == <<task, run, lastRun>>
workVars == <<worker, attempt>>
bounds   == <<crashes, edits>>
vars     == <<now, task, run, lastRun, worker, attempt, sched, permit, op,
              crashes, edits>>

-----------------------------------------------------------------------------
(* Types.                                                                  *)

OpenStatus    == {"queued", "running", "needs_confirmation"}
FailedStatus  == {"error", "interrupted"}
SettledStatus == {"completed", "skipped"} \cup FailedStatus
RunStatus     == OpenStatus \cup SettledStatus \cup {"none"}

TaskRow == [state    : {"absent", "present", "deleted"},
            enabled  : BOOLEAN,
            schedule : Schedules,
            next     : Nat]

RunRow == [task   : Tasks \cup {NoTask},
           slot   : Nat,
           status : RunStatus,
           acked  : BOOLEAN,     \* acknowledged_at IS NOT NULL
           linked : BOOLEAN]     \* assistant_message_id IS NOT NULL

AbsentRow == [task |-> NoTask, slot |-> 0, status |-> "none",
              acked |-> FALSE, linked |-> FALSE]

Snapshot == [task : Tasks, slot : Nat, schedule : Schedules]

SchedRow == [pc       : {"down", "recover", "begin", "list", "claim", "delay", "sleep"},
             passNow  : Nat,
             due      : SUBSET Snapshot,
             since    : Nat,
             deadline : Nat]

WorkerPc == {"none", "resolve", "busy", "send", "fail", "turn"}

\* The schedule of an "enable" is the one it read, which it does not write.
NoOp == [kind |-> "none"]
Ops  == {NoOp} \cup
        [kind : {"create", "update", "enable"}, task : Tasks, enabled : BOOLEAN,
         schedule : Schedules, next : Nat]

TypeOK ==
    /\ now \in 0..Horizon
    /\ task \in [Tasks -> TaskRow]
    /\ run \in [RunIds -> RunRow]
    /\ lastRun \in 0..MaxRuns
    /\ worker \in [RunIds -> WorkerPc]
    /\ attempt \in [RunIds -> 0..Retries]
    /\ sched \in SchedRow
    /\ permit \in BOOLEAN
    /\ op \in [Commands -> Ops]
    /\ crashes \in 0..MaxCrashes
    /\ edits \in 0..MaxEdits

-----------------------------------------------------------------------------
(* schedule.rs.  Daily and weekly schedules are the "calendar" ones: their *)
(* slots are fixed points of the clock, here the multiples of the period.  *)

\* Mutant: rounds the elapsed periods up, so a slot due this instant is kept.
IntervalNextRoundedUp(s, from, clock) ==
    LET elapsed == IF clock > from THEN clock - from ELSE 0
    IN  from + s.period * ((elapsed + s.period - 1) \div s.period)

IntervalNext(s, from, clock) ==
    LET elapsed == IF clock > from THEN clock - from ELSE 0
    IN  from + s.period * ((elapsed \div s.period) + 1)

CalendarNext(s, clock) == s.period * ((clock \div s.period) + 1)

InitialNextRunAt(s, clock) ==
    IF s.type = "interval" THEN clock + s.period ELSE CalendarNext(s, clock)

NextRunAfterDue(s, scheduledFor, clock) ==
    IF s.type = "interval" THEN IntervalNext(s, scheduledFor, clock)
                           ELSE CalendarNext(s, clock)

(* scheduled_tasks.rs: the predicates the queries share.                   *)

Rows(t) == {r \in RunIds : run[r].status # "none" /\ run[r].task = t}

\* The NOT EXISTS clause of next_due_at, list_due_tasks and claim_due_task.
Blocks(row) ==
    \/ row.status \in OpenStatus
    \/ row.status \in FailedStatus /\ ~row.acked

Blocked(t) == \E r \in Rows(t) : Blocks(run[r])

\* Mutant: the query without its NOT EXISTS clause.
RunnableThoughBlocked(t) ==
    /\ task[t].state = "present"
    /\ task[t].enabled
    /\ task[t].next # NoSlot

Runnable(t) ==
    /\ task[t].state = "present"
    /\ task[t].enabled
    /\ task[t].next # NoSlot
    /\ ~Blocked(t)

Due(t) == Runnable(t) /\ task[t].next <= now

\* A timer fires at its deadline; at the end of the modelled time every timer
\* still pending fires as well.
Elapsed(deadline) == deadline <= now \/ now = Horizon

Up == sched.pc # "down"

-----------------------------------------------------------------------------
NoTaskRow(state) == [state |-> state, enabled |-> FALSE,
                     schedule |-> CHOOSE s \in Schedules : TRUE, next |-> NoSlot]

\* The loop between two calls: their local variables are gone.
LoopAt(pc) == [pc |-> pc, passNow |-> 0, due |-> {}, since |-> 0, deadline |-> 0]

Init ==
    /\ now = 0
    /\ task = [t \in Tasks |-> NoTaskRow("absent")]
    /\ run = [r \in RunIds |-> AbsentRow]
    /\ lastRun = 0
    /\ worker = [r \in RunIds |-> "none"]
    /\ attempt = [r \in RunIds |-> 0]
    /\ sched = LoopAt("recover")
    /\ permit = FALSE
    /\ op = [c \in Commands |-> NoOp]
    /\ crashes = 0
    /\ edits = 0

-----------------------------------------------------------------------------
(* Commands of the UI.  validate_and_prepare and set_scheduled_task_enabled *)
(* compute next_run_at, await, and only then write the row and wake the     *)
(* scheduler.  Nothing orders two commands, on one task or on two.          *)

FirstSlot(enabled, s) == IF enabled THEN InitialNextRunAt(s, now) ELSE NoSlot

Prepare(c, kind, t, s, enabled) ==
    /\ Up /\ op[c] = NoOp
    /\ op' = [op EXCEPT ![c] = [kind |-> kind, task |-> t, enabled |-> enabled,
                               schedule |-> s, next |-> FirstSlot(enabled, s)]]
    /\ UNCHANGED <<now, dbVars, workVars, sched, permit, crashes>>

\* The identity is a new UUID.
PrepareCreate(c, t, s, enabled) ==
    /\ task[t].state = "absent"
    /\ \A d \in Commands : op[d].kind = "create" => op[d].task # t
    /\ Prepare(c, "create", t, s, enabled)
    /\ UNCHANGED edits

PrepareUpdate(c, t, s, enabled) ==
    /\ task[t].state = "present" /\ edits < MaxEdits
    /\ Prepare(c, "update", t, s, enabled)
    /\ edits' = edits + 1

\* get_task, then the slot of the schedule it returned.
PrepareEnable(c, t, enabled) ==
    /\ task[t].state = "present" /\ edits < MaxEdits
    /\ Prepare(c, "enable", t, task[t].schedule, enabled)
    /\ edits' = edits + 1

Written(row, o) ==
    IF o.kind = "enable"
    THEN [row EXCEPT !.enabled = o.enabled, !.next = o.next]
    ELSE [state |-> "present", enabled |-> o.enabled, schedule |-> o.schedule,
          next |-> o.next]

\* The wake comes after the row was read back, which may fail: the row is
\* written then, and the scheduler is not told.
CommitOp(c) ==
    /\ op[c] # NoOp
    /\ op[c].kind = "create" \/ task[op[c].task].state = "present"
    /\ task' = [task EXCEPT ![op[c].task] = Written(@, op[c])]
    /\ op' = [op EXCEPT ![c] = NoOp]
    /\ permit' = TRUE \/ (Faults /\ UNCHANGED permit)
    /\ UNCHANGED <<now, run, lastRun, workVars, sched, bounds>>

\* The row is gone (changed == 0) or the statement failed: an error, no wake.
OpFails(c) ==
    /\ op[c] # NoOp
    /\ \/ Faults
       \/ op[c].kind # "create" /\ task[op[c].task].state # "present"
    /\ op' = [op EXCEPT ![c] = NoOp]
    /\ UNCHANGED <<now, dbVars, workVars, sched, permit, bounds>>

\* Mutant: the acknowledgement does not wake the scheduler.
AcknowledgeQuietly(t) ==
    /\ Up
    /\ \E r \in Rows(t) :
         /\ \A q \in Rows(t) : q <= r
         /\ run' = [run EXCEPT ![r].acked = TRUE]
    /\ UNCHANGED <<now, task, lastRun, workVars, sched, permit, op, bounds>>

\* acknowledge_latest_run writes the youngest row whatever its status.
Acknowledge(t) ==
    /\ Up
    /\ \E r \in Rows(t) :
         /\ \A q \in Rows(t) : q <= r
         /\ run' = [run EXCEPT ![r].acked = TRUE]
    /\ permit' = TRUE
    /\ UNCHANGED <<now, task, lastRun, workVars, sched, op, bounds>>

\* The runs of the task go with it (ON DELETE CASCADE); its workers stay.
DeleteTask(t) ==
    /\ Up
    /\ task[t].state = "present"
    /\ task' = [task EXCEPT ![t] = NoTaskRow("deleted")]
    /\ run' = [r \in RunIds |-> IF r \in Rows(t) THEN AbsentRow ELSE run[r]]
    /\ permit' = TRUE
    /\ UNCHANGED <<now, lastRun, workVars, sched, op, bounds>>

-----------------------------------------------------------------------------
(* The scheduler loop: recover once, then for ever process_due_tasks,      *)
(* next_scheduler_delay, and a select of the timer and the permit.         *)

Unfinished(row) == row.status \in {"queued", "running"}

Recover ==
    /\ sched.pc = "recover"
    /\ sched' = LoopAt("begin")
    /\ \/ run' = [r \in RunIds |->
                   IF Unfinished(run[r])
                   THEN [run[r] EXCEPT !.status = "interrupted", !.acked = FALSE]
                   ELSE run[r]]
       \/ Faults /\ UNCHANGED run          \* logged, the loop starts anyway
    /\ UNCHANGED <<now, task, lastRun, workVars, permit, op, bounds>>

\* process_due_tasks reads the clock twice: Utc::now() for the computation of
\* the following slots, system_time_rfc3339() for the query.
BeginPass ==
    /\ sched.pc = "begin"
    /\ sched' = [sched EXCEPT !.pc = "list", !.passNow = now]
    /\ UNCHANGED <<now, dbVars, workVars, permit, op, bounds>>

DueSnapshots ==
    {[task |-> t, slot |-> task[t].next, schedule |-> task[t].schedule] :
        t \in {u \in Tasks : Due(u)}}

ListDue ==
    /\ sched.pc = "list"
    /\ \/ sched' = [sched EXCEPT !.pc = "claim", !.due = DueSnapshots]
       \/ Faults /\ sched' = LoopAt("delay")
    /\ UNCHANGED <<now, dbVars, workVars, permit, op, bounds>>

\* The snapshots in the order of the query.
NextSnapshot(x) ==
    /\ sched.pc = "claim"
    /\ x \in sched.due
    /\ \A y \in sched.due : x.slot <= y.slot

\* Mutant: the claim does not compare next_run_at with the listed slot.
EligibleAnySlot(x) == Runnable(x.task)

\* The test of claim_due_task, made again inside its transaction.
Eligible(x) == Runnable(x.task) /\ task[x.task].next = x.slot

\* UNIQUE(task_id, scheduled_for)
SlotTaken(x) == \E r \in Rows(x.task) : run[r].slot = x.slot

InsertRun(x) ==
    /\ lastRun < MaxRuns
    /\ lastRun' = lastRun + 1
    /\ run' = [run EXCEPT ![lastRun + 1] =
                  [task |-> x.task, slot |-> x.slot, status |-> "queued",
                   acked |-> FALSE, linked |-> FALSE]]
    /\ task' = [task EXCEPT ![x.task].next =
                   NextRunAfterDue(x.schedule, x.slot, sched.passNow)]

Claim(x) ==
    /\ NextSnapshot(x)
    /\ Eligible(x) /\ ~SlotTaken(x)
    /\ InsertRun(x)
    /\ \/ /\ worker' = [worker EXCEPT ![lastRun + 1] = "resolve"]
          /\ sched' = [sched EXCEPT !.due = @ \ {x}]
       \/ /\ Faults                   \* get_run fails after the commit
          /\ sched' = LoopAt("delay")
          /\ UNCHANGED worker
    /\ UNCHANGED <<now, attempt, permit, op, bounds>>

\* Mutant: a task that is no longer due ends the pass.
StaleSnapshotEndsPass(x) ==
    /\ NextSnapshot(x)
    /\ ~Eligible(x)
    /\ sched' = LoopAt("delay")
    /\ UNCHANGED <<now, dbVars, workVars, permit, op, bounds>>

SkipStaleSnapshot(x) ==
    /\ NextSnapshot(x)
    /\ ~Eligible(x)
    /\ sched' = [sched EXCEPT !.due = @ \ {x}]
    /\ UNCHANGED <<now, dbVars, workVars, permit, op, bounds>>

\* An error of one claim returns from process_due_tasks.
ClaimFails(x) ==
    /\ NextSnapshot(x)
    /\ Faults \/ (Eligible(x) /\ SlotTaken(x))
    /\ sched' = LoopAt("delay")
    /\ UNCHANGED <<now, dbVars, workVars, permit, op, bounds>>

EndPass ==
    /\ sched.pc = "claim"
    /\ sched.due = {}
    /\ sched' = LoopAt("delay")
    /\ UNCHANGED <<now, dbVars, workVars, permit, op, bounds>>

\* next_due_at, then the wait of next_scheduler_delay from the current clock.
FirstRunnable ==
    {t \in Tasks : Runnable(t) /\ \A u \in Tasks : Runnable(u) => task[t].next <= task[u].next}

DelayUntil(next) ==
    IF next < now THEN now + RecheckDelay
    ELSE IF next = now THEN now + 1
    ELSE next

Deadlines ==
    IF \E t \in Tasks : Runnable(t)
    THEN {DelayUntil(task[t].next) : t \in FirstRunnable}
    ELSE {now + IdleDelay}

ComputeDelay ==
    /\ sched.pc = "delay"
    /\ \E deadline \in Deadlines \cup (IF Faults THEN {now + IdleDelay} ELSE {}) :
         sched' = [sched EXCEPT !.pc = "sleep", !.since = now, !.deadline = deadline]
    /\ UNCHANGED <<now, dbVars, workVars, permit, op, bounds>>

\* Mutant: only the Notify is awaited, not the timer.
WakeUpOnPermit ==
    /\ sched.pc = "sleep"
    /\ permit /\ permit' = FALSE
    /\ sched' = LoopAt("begin")
    /\ UNCHANGED <<now, dbVars, workVars, op, bounds>>

WakeUp ==
    /\ sched.pc = "sleep"
    /\ \/ permit /\ permit' = FALSE
       \/ Elapsed(sched.deadline) /\ UNCHANGED permit
    /\ sched' = LoopAt("begin")
    /\ UNCHANGED <<now, dbVars, workVars, op, bounds>>

-----------------------------------------------------------------------------
(* execute_claimed_task of run r.  A row deleted with its task makes every *)
(* UPDATE of the worker a statement on no row.                             *)

Present(r) == run[r].status # "none"

SetRow(r, row) == run' = IF Present(r) THEN [run EXCEPT ![r] = row] ELSE run

\* Device, target thread and runtime configuration; a new thread is created.
ResolveThread(r) ==
    /\ worker[r] = "resolve"
    /\ \E pc \in {"busy", "fail"} : worker' = [worker EXCEPT ![r] = pc]
    /\ UNCHANGED <<now, dbVars, attempt, sched, permit, op, bounds>>

ThreadIdle(r) ==
    /\ worker[r] = "busy"
    /\ worker' = [worker EXCEPT ![r] = "send"]
    /\ attempt' = [attempt EXCEPT ![r] = 0]
    /\ UNCHANGED <<now, dbVars, sched, permit, op, bounds>>

\* Mutant: the wait for the thread has no last attempt.
ThreadBusyRetryForever(r) ==
    /\ worker[r] = "busy"
    /\ attempt' = [attempt EXCEPT ![r] = (@ + 1) % Retries]
    /\ UNCHANGED <<now, dbVars, worker, sched, permit, op, bounds>>

ThreadBusyRetry(r) ==
    /\ worker[r] = "busy"
    /\ attempt[r] + 1 < Retries
    /\ attempt' = [attempt EXCEPT ![r] = @ + 1]
    /\ UNCHANGED <<now, dbVars, worker, sched, permit, op, bounds>>

\* Mutants: the worker sends although it marked the run skipped; it returns
\* and marks nothing.
SkippedRunStillSends(r) ==
    /\ worker[r] = "busy"
    /\ attempt[r] + 1 = Retries
    /\ attempt' = [attempt EXCEPT ![r] = 0]
    /\ SetRow(r, [run[r] EXCEPT !.status = "skipped"])
    /\ worker' = [worker EXCEPT ![r] = "send"]
    /\ UNCHANGED <<now, task, lastRun, sched, permit, op, bounds>>

BusyRunReturnsUnmarked(r) ==
    /\ worker[r] = "busy"
    /\ attempt[r] + 1 = Retries
    /\ attempt' = [attempt EXCEPT ![r] = 0]
    /\ worker' = [worker EXCEPT ![r] = "none"]
    /\ UNCHANGED <<now, task, run, lastRun, sched, permit, op, bounds>>

\* mark_run_skipped; the worker returns without a wake.
ThreadStaysBusy(r) ==
    /\ worker[r] = "busy"
    /\ attempt[r] + 1 = Retries
    /\ attempt' = [attempt EXCEPT ![r] = 0]
    /\ \/ /\ SetRow(r, [run[r] EXCEPT !.status = "skipped"])
          /\ worker' = [worker EXCEPT ![r] = "none"]
       \/ /\ Faults /\ UNCHANGED run
          /\ worker' = [worker EXCEPT ![r] = "fail"]
    /\ UNCHANGED <<now, task, lastRun, sched, permit, op, bounds>>

\* send_message registered the turn, saved the messages and called
\* mark_run_started; or it was refused and the turn never started.
SendMessage(r) ==
    /\ worker[r] = "send"
    /\ \/ /\ SetRow(r, [run[r] EXCEPT !.status = "running", !.linked = TRUE])
          /\ worker' = [worker EXCEPT ![r] = "turn"]
       \/ /\ UNCHANGED run
          /\ worker' = [worker EXCEPT ![r] = "fail"]
    /\ UNCHANGED <<now, task, lastRun, attempt, sched, permit, op, bounds>>

\* Mutant: acknowledged_at keeps an acknowledgement given before the failure.
MarkRunErrorKeepsAck(r) ==
    /\ worker[r] = "fail"
    /\ worker' = [worker EXCEPT ![r] = "none"]
    /\ SetRow(r, [run[r] EXCEPT !.status = "error"])
    /\ UNCHANGED <<now, task, lastRun, attempt, sched, permit, op, bounds>>

MarkRunError(r) ==
    /\ worker[r] = "fail"
    /\ worker' = [worker EXCEPT ![r] = "none"]
    /\ \/ SetRow(r, [run[r] EXCEPT !.status = "error", !.acked = FALSE])
       \/ Faults /\ UNCHANGED run          \* only logged
    /\ UNCHANGED <<now, task, lastRun, attempt, sched, permit, op, bounds>>

-----------------------------------------------------------------------------
(* The chat turn of run r, which finds the row by its assistant message.   *)

TurnNeedsConfirmation(r) ==
    /\ worker[r] = "turn"
    /\ run[r].linked
    /\ run' = [run EXCEPT ![r].status = "needs_confirmation", ![r].acked = FALSE]
    /\ UNCHANGED <<now, task, lastRun, workVars, sched, permit, op, bounds>>

\* Deleting the thread deletes its messages: assistant_message_id becomes NULL.
ThreadDeleted(r) ==
    /\ worker[r] = "turn"
    /\ run[r].linked
    /\ run' = [run EXCEPT ![r].linked = FALSE]
    /\ UNCHANGED <<now, task, lastRun, workVars, sched, permit, op, bounds>>

FinishChatRun(r) ==
    /\ worker[r] = "turn"
    /\ worker' = [worker EXCEPT ![r] = "none"]
    /\ \/ /\ run[r].linked
          /\ \E status \in {"completed", "interrupted", "error"} :
               run' = [run EXCEPT ![r].status = status,
                                  ![r].acked = (status = "completed")]
          /\ permit' = TRUE
       \/ /\ ~run[r].linked \/ Faults
          /\ UNCHANGED <<run, permit>>
    /\ UNCHANGED <<now, task, lastRun, attempt, sched, op, bounds>>

-----------------------------------------------------------------------------
(* The environment: the clock, and the exit and start of the application.  *)

Tick ==
    /\ now < Horizon
    /\ \/ ClockMovesInside
       \/ sched.pc # "list" /\ \A c \in Commands : op[c] = NoOp
    /\ now' = now + 1
    /\ UNCHANGED <<dbVars, workVars, sched, permit, op, bounds>>

Exit ==
    /\ Up /\ crashes < MaxCrashes
    /\ crashes' = crashes + 1
    /\ sched' = LoopAt("down")
    /\ worker' = [r \in RunIds |-> "none"]
    /\ attempt' = [r \in RunIds |-> 0]
    /\ permit' = FALSE
    /\ op' = [c \in Commands |-> NoOp]
    /\ UNCHANGED <<now, dbVars, edits>>

Start ==
    /\ sched.pc = "down"
    /\ sched' = LoopAt("recover")
    /\ UNCHANGED <<now, dbVars, workVars, permit, op, bounds>>

-----------------------------------------------------------------------------
UserCommand ==
    \/ \E c \in Commands, t \in Tasks, s \in Schedules, enabled \in BOOLEAN :
         PrepareCreate(c, t, s, enabled) \/ PrepareUpdate(c, t, s, enabled)
    \/ \E c \in Commands, t \in Tasks, enabled \in BOOLEAN :
         PrepareEnable(c, t, enabled)
    \/ \E t \in Tasks : Acknowledge(t) \/ DeleteTask(t)

WriteStep(c) == CommitOp(c) \/ OpFails(c)

Scheduler ==
    \/ Recover \/ BeginPass \/ ListDue \/ EndPass \/ ComputeDelay \/ WakeUp
    \/ \E x \in sched.due : Claim(x) \/ SkipStaleSnapshot(x) \/ ClaimFails(x)

WorkerStep(r) ==
    \/ ResolveThread(r) \/ ThreadIdle(r) \/ ThreadBusyRetry(r)
    \/ ThreadStaysBusy(r) \/ SendMessage(r) \/ MarkRunError(r)

TurnStep(r) ==
    TurnNeedsConfirmation(r) \/ ThreadDeleted(r) \/ FinishChatRun(r)

Environment == Tick \/ Exit \/ Start

Next ==
    \/ UserCommand \/ Scheduler \/ Environment
    \/ \E c \in Commands : WriteStep(c)
    \/ \E r \in RunIds : WorkerStep(r) \/ TurnStep(r)

Spec == Init /\ [][Next]_vars

\* Spawned futures and the scheduler loop keep being polled, started commands
\* complete, time passes.  Nothing is assumed of the user, of the agent that
\* runs the turn, or of a restart.
Fairness ==
    /\ WF_vars(Tick)
    /\ \A c \in Commands : WF_vars(WriteStep(c))
    /\ WF_vars(Scheduler)
    /\ \A r \in RunIds : WF_vars(WorkerStep(r))

FairSpec == Spec /\ Fairness

-----------------------------------------------------------------------------
(* Safety.                                                                 *)

\* A run that keeps its task from being claimed is the youngest run of that
\* task: so at most one run of a task blocks it, at most one is in progress, and
\* acknowledge_latest_run, which writes the youngest row only, reaches the row
\* that the NOT EXISTS clause of claim_due_task finds.
BlockingRunIsLatest ==
    \A t \in Tasks : \A r, q \in Rows(t) : Blocks(run[r]) => q <= r

\* What makes BlockingRunIsLatest inductive: a worker only ever writes a row that
\* is open, so a row that stopped blocking never blocks again; rows and workers
\* exist up to lastRun only; no worker survives an exit.
WorkerMatchesRow ==
    \A r \in RunIds :
        /\ worker[r] \in {"resolve", "busy", "send", "fail"}
              => run[r].status \in {"queued", "none"}
        /\ worker[r] = "turn"
              => run[r].status \in {"running", "needs_confirmation", "none"}

RowsAllocated ==
    \A r \in RunIds :
        /\ run[r].status = "none" => run[r] = AbsentRow
        /\ r > lastRun => run[r].status = "none" /\ worker[r] = "none"

NoWorkerBeforeRecovery ==
    sched.pc \in {"down", "recover"} => \A r \in RunIds : worker[r] = "none"

RunInv ==
    /\ TypeOK
    /\ WorkerMatchesRow
    /\ RowsAllocated
    /\ NoWorkerBeforeRecovery
    /\ BlockingRunIsLatest

\* A queued or running row of a live session has a worker that will settle it:
\* nobody else ever will, and the task stays blocked.  The exception is a row
\* whose message was deleted with its thread.
OpenRunIsWorked ==
    \A r \in RunIds :
        sched.pc \notin {"down", "recover"} /\ Unfinished(run[r])
            => worker[r] # "none" \/ (run[r].status = "running" /\ ~run[r].linked)

\* next_run_at never names a slot the task has already run: such a slot makes
\* the INSERT of claim_due_task fail on UNIQUE(task_id, scheduled_for).
NextSlotIsFresh ==
    \A t \in Tasks : \A r \in Rows(t) : run[r].slot # task[t].next

\* While the loop sleeps with no wake pending, a task that could be claimed is
\* looked at no later than one recheck after its slot, apart from a task whose
\* youngest run was skipped.
SkippedLast(t) ==
    \E r \in Rows(t) : run[r].status = "skipped" /\ \A q \in Rows(t) : q <= r

LookedAtInTime(t) ==
    LET due == IF task[t].next > sched.since THEN task[t].next ELSE sched.since
    IN  sched.deadline <= due + RecheckDelay

SleepCoversDue ==
    sched.pc = "sleep" /\ ~permit
        => \A t \in Tasks : Runnable(t) /\ ~SkippedLast(t) => LookedAtInTime(t)

(* Actions.                                                                *)

\* next_run_at stops being a slot of the saved schedule only when an enable that
\* read the schedule before an update of it writes after that update.  A claim made
\* from a snapshot listed before the update never does it.
OnSchedule(row) ==
    row.schedule.type = "calendar" => row.next % row.schedule.period = 0

OvertakenEnable(t) ==
    \E c \in Commands :
        /\ op[c].kind = "enable" /\ op[c].task = t /\ op'[c] = NoOp
        /\ op[c].schedule # task[t].schedule

NextSlotFollowsSchedule ==
    [][\A t \in Tasks :
         OnSchedule(task[t]) /\ ~OnSchedule(task'[t]) => OvertakenEnable(t)]_vars

\* Without database errors a pass ends only when every task it listed was looked
\* at: a task that was edited, deleted or blocked since the listing is passed over,
\* and no claim runs into UNIQUE(task_id, scheduled_for), which would return from
\* process_due_tasks with the tasks behind it unclaimed.
PassReachesEach ==
    [][sched.pc = "claim" /\ sched'.pc = "delay" => sched.due = {}]_vars

\* The runs keep the promises of RunLedger: one at a time, statuses in one
\* direction, no failure that counts as acknowledged before it happened.
LedgerRows == [r \in RunIds |-> [task   |-> run[r].task,
                                status |-> run[r].status,
                                acked  |-> run[r].acked]]

Ledger == INSTANCE RunLedger WITH Runs <- RunIds, ledger <- LedgerRows

LedgerSpec == Ledger!Spec

(* Liveness.                                                               *)

\* A claimed run does not stay queued: its worker starts the turn, or skips the
\* run, or records an error, unless the application exits.
QueuedRunLeaves ==
    \A r \in RunIds :
        run[r].status = "queued" ~> (run[r].status # "queued" \/ ~Up)

\* A task that is due and may run is claimed, or the user withdraws it.
DueTaskIsClaimed == \A t \in Tasks : Due(t) ~> (~Due(t) \/ ~Up)
=============================================================================

----------------------- MODULE ScheduledTasksSlotProofs -----------------------
(***************************************************************************)
(* Proofs about the slots of ScheduledTasks, where the clock does not pass *)
(* a slot between its reading and the statement that uses what was read.   *)
(***************************************************************************)
EXTENDS ScheduledTasksProofs

\* next_run_after_due and initial_next_run_at compute slots that lie ahead.
LEMMA SlotsAdvance ==
    ASSUME NEW s \in Schedules, NEW from \in Nat, NEW clock \in Nat
    PROVE  /\ InitialNextRunAt(s, clock) \in Nat /\ InitialNextRunAt(s, clock) > clock
           /\ NextRunAfterDue(s, from, clock) \in Nat
           /\ from <= clock => NextRunAfterDue(s, from, clock) > clock
<1>1. s.period \in Nat \ {0}
  BY ConstantAssumption
<1>2. \A n \in Nat : /\ s.period * ((n \div s.period) + 1) > n
                     /\ s.period * ((n \div s.period) + 1) \in Nat
  <2>1. \A n \in Nat : n \div s.period \in Nat
    BY <1>1
  <2> QED
    BY <1>1, <2>1
<1>3. CalendarNext(s, clock) > clock
  BY <1>2 DEF CalendarNext
<1>4. ASSUME from <= clock
      PROVE  IntervalNext(s, from, clock) > clock
  <2> DEFINE elapsed == clock - from
             step    == s.period * ((elapsed \div s.period) + 1)
  <2>1. elapsed \in Nat
    BY <1>4
  <2>2. step > elapsed /\ step \in Nat
    <3> HIDE DEF elapsed
    <3> QED
      BY <1>2, <2>1
  <2>3. IntervalNext(s, from, clock) = from + step
    BY <1>4 DEF IntervalNext
  <2> HIDE DEF step
  <2> QED
    BY <2>1, <2>2, <2>3
<1>5. clock + s.period > clock
  BY <1>1
<1> QED
  BY <1>3, <1>4, <1>5, SlotIsNat DEF InitialNextRunAt, NextRunAfterDue

\* The slots of a calendar schedule are its fixed points of the clock.
OnCalendar(s, slot) == s.type = "calendar" => slot % s.period = 0

LEMMA SlotsOnCalendar ==
    ASSUME NEW s \in Schedules, NEW from \in Nat, NEW clock \in Nat
    PROVE  /\ OnCalendar(s, InitialNextRunAt(s, clock))
           /\ OnCalendar(s, NextRunAfterDue(s, from, clock))
           /\ OnCalendar(s, NoSlot)
<1>1. s.period \in Nat \ {0} /\ s.type \in {"interval", "calendar"}
  BY ConstantAssumption
<1>2. \A k \in Nat : (s.period * k) % s.period = 0
  BY <1>1
<1>3. clock \div s.period \in Nat
  BY <1>1
<1>4. CalendarNext(s, clock) % s.period = 0
  BY <1>2, <1>3 DEF CalendarNext
<1>5. 0 % s.period = 0
  BY <1>1
<1> QED
  BY <1>1, <1>4, <1>5 DEF OnCalendar, InitialNextRunAt, NextRunAfterDue, NoSlot

-----------------------------------------------------------------------------
(* The inductive invariant.  Slots that were run are behind the clock and  *)
(* behind next_run_at; what is computed and not yet written lies ahead.    *)

RowsBehind ==
    \A r \in RunIds : run[r].status # "none" =>
        /\ run[r].slot > NoSlot /\ run[r].slot <= now
        /\ \A t \in Tasks : run[r].task = t =>
             task[t].next = NoSlot \/ run[r].slot < task[t].next

Ahead(next) == next = NoSlot \/ next > now

OpAhead ==
    \A c \in Commands : op[c] # NoOp =>
        Ahead(op[c].next) /\ OnCalendar(op[c].schedule, op[c].next)

SnapshotFit(x) ==
    /\ x.slot > NoSlot /\ x.slot <= sched.passNow
    /\ task[x.task].next = x.slot => task[x.task].schedule = x.schedule

PassFits ==
    /\ sched.pc = "list" => sched.passNow = now
    /\ sched.pc = "claim" => sched.passNow <= now /\ \A x \in sched.due : SnapshotFit(x)

SlotInv ==
    /\ RunInv /\ RowsBehind /\ OpAhead /\ PassFits

LEMMA InitSlotInv == Init => SlotInv
<1> SUFFICES ASSUME Init PROVE SlotInv
  OBVIOUS
<1>1. RunInv /\ TypeOK
  BY InitRunInv DEF RunInv
<1>2. RowsBehind /\ OpAhead /\ PassFits
  BY DEF Init, RowsBehind, OpAhead, PassFits, AbsentRow, LoopAt
<1> QED
  BY <1>1, <1>2 DEF SlotInv

\* Steps that change neither rows nor the commands nor the clock.
LEMMA SlotQuiet ==
    ASSUME SlotInv, RunInv', UNCHANGED <<now, task, op>>,
           \A r \in RunIds : run'[r].status # "none" =>
               /\ run[r].status # "none"
               /\ run'[r].slot = run[r].slot /\ run'[r].task = run[r].task,
           PassFits'
    PROVE  SlotInv'
BY DEF SlotInv, RowsBehind, OpAhead, Ahead

LEMMA SamePass ==
    ASSUME PassFits, UNCHANGED <<now, task, sched>>
    PROVE  PassFits'
BY DEF PassFits, SnapshotFit

LEMMA FirstSlotAhead ==
    ASSUME TypeOK, NEW s \in Schedules, NEW e \in BOOLEAN
    PROVE  Ahead(FirstSlot(e, s)) /\ OnCalendar(s, FirstSlot(e, s))
<1>1. now \in Nat
  BY ConstantAssumption DEF TypeOK
<1> QED
  BY <1>1, SlotsAdvance, SlotsOnCalendar DEF Ahead, FirstSlot

LEMMA PrepareSlots ==
    ASSUME SlotInv, RunInv', TypeOK, NEW c \in Commands, NEW kind, NEW t \in Tasks,
           NEW s \in Schedules, NEW e \in BOOLEAN, Prepare(c, kind, t, s, e)
    PROVE  SlotInv'
<1> DEFINE o == [kind |-> kind, task |-> t, enabled |-> e, schedule |-> s,
                 next |-> FirstSlot(e, s)]
<1>1. o.next = FirstSlot(e, s) /\ o.schedule = s
  OBVIOUS
<1>2. op' = [op EXCEPT ![c] = o] /\ UNCHANGED <<now, task, run, sched>>
  BY DEF Prepare, dbVars
<1> HIDE DEF o
<1>3. op'[c] = o /\ \A d \in Commands : d # c => op'[d] = op[d]
  BY <1>2 DEF TypeOK
<1>4. OpAhead'
  BY <1>1, <1>2, <1>3, FirstSlotAhead DEF SlotInv, OpAhead, Ahead
<1> QED
  BY <1>2, <1>4, SamePass DEF SlotInv, RowsBehind

LEMMA UserCommandSlots ==
    ASSUME SlotInv, RunInv', UserCommand
    PROVE  SlotInv'
<1> USE DEF dbVars, workVars, bounds
<1>0. TypeOK /\ run \in [RunIds -> RunRow]
  BY DEF SlotInv, RunInv, TypeOK
<1>1. ASSUME NEW c \in Commands, NEW t \in Tasks, NEW s \in Schedules,
             NEW e \in BOOLEAN, PrepareCreate(c, t, s, e) \/ PrepareUpdate(c, t, s, e)
      PROVE  SlotInv'
  BY <1>0, <1>1, PrepareSlots DEF PrepareCreate, PrepareUpdate
<1>2. ASSUME NEW c \in Commands, NEW t \in Tasks, NEW e \in BOOLEAN,
             PrepareEnable(c, t, e)
      PROVE  SlotInv'
  <2>1. task[t].schedule \in Schedules
    BY <1>0 DEF TypeOK, TaskRow
  <2> QED
    BY <1>0, <1>2, <2>1, PrepareSlots DEF PrepareEnable
<1>3. ASSUME NEW t \in Tasks, Acknowledge(t)
      PROVE  SlotInv'
  <2>1. PICK r \in RunIds : run' = [run EXCEPT ![r].acked = TRUE]
    BY <1>3 DEF Acknowledge, Rows
  <2>2. \A q \in RunIds : /\ run'[q].status = run[q].status
                          /\ run'[q].slot = run[q].slot /\ run'[q].task = run[q].task
    BY <1>0, <2>1 DEF RunRow
  <2> QED
    BY <1>3, <2>2, SlotQuiet, SamePass DEF Acknowledge, SlotInv
<1>4. ASSUME NEW t \in Tasks, DeleteTask(t)
      PROVE  SlotInv'
  <2>1. /\ \A q \in RunIds : run'[q] = run[q] \/ run'[q].status = "none"
        /\ task' = [task EXCEPT ![t] = NoTaskRow("deleted")]
        /\ UNCHANGED <<now, sched, op>>
    BY <1>4 DEF DeleteTask, AbsentRow
  <2>2. /\ task'[t].next = NoSlot /\ task'[t].state = "deleted"
        /\ task'[t].schedule \in Schedules
        /\ \A u \in Tasks : u # t => task'[u] = task[u]
    BY <1>0, <2>1, ConstantAssumption DEF NoTaskRow, TypeOK
  <2>3. RowsBehind'
    BY <2>1, <2>2 DEF SlotInv, RowsBehind
  <2>4. OpAhead'
    BY <2>1 DEF SlotInv, OpAhead, Ahead
  <2>5. PassFits'
    <3>1. \A x \in sched.due : x.task \in Tasks /\ x.slot \in Nat
      BY <1>0 DEF TypeOK, SchedRow, Snapshot
    <3> QED
      BY <2>1, <2>2, <3>1 DEF SlotInv, PassFits, SnapshotFit, NoSlot
  <2> QED
    BY <2>3, <2>4, <2>5 DEF SlotInv
<1> QED
  BY <1>1, <1>2, <1>3, <1>4 DEF UserCommand

\* A write brings a slot ahead of the clock, which no listed snapshot names.
LEMMA WriteSlots ==
    ASSUME SlotInv, RunInv', NEW c \in Commands, WriteStep(c)
    PROVE  SlotInv'
<1> USE DEF dbVars, workVars, bounds
<1>0. TypeOK
  BY DEF SlotInv, RunInv
<1>1. op' = [op EXCEPT ![c] = NoOp] /\ UNCHANGED <<now, run, sched>>
  BY DEF WriteStep, CommitOp, OpFails
<1>2. OpAhead'
  <2>1. op'[c] = NoOp /\ \A d \in Commands : d # c => op'[d] = op[d]
    BY <1>0, <1>1 DEF TypeOK
  <2> QED
    BY <1>1, <2>1 DEF SlotInv, OpAhead, Ahead
<1>3. CASE OpFails(c)
  BY <1>1, <1>2, <1>3, SamePass DEF OpFails, SlotInv, RowsBehind
<1>4. CASE CommitOp(c)
  <2> DEFINE t    == op[c].task
             next == op[c].next
  <2>1. op[c] \in Ops /\ op[c] # NoOp
    BY <1>0, <1>4 DEF CommitOp, TypeOK
  <2>2. t \in Tasks /\ next \in Nat
    BY <2>1 DEF Ops
  <2>3. Ahead(next)
    BY <2>1 DEF SlotInv, OpAhead
  <2>4. Written(task[t], op[c]).next = next
    BY <1>0, <2>2 DEF Written, TypeOK, TaskRow
  <2>5. task'[t].next = next /\ \A u \in Tasks : u # t => task'[u] = task[u]
    BY <1>0, <1>4, <2>2, <2>4 DEF CommitOp, TypeOK
  <2> HIDE DEF t, next
  <2>6. RowsBehind'
    <3> SUFFICES ASSUME NEW r \in RunIds, run'[r].status # "none"
                 PROVE  /\ run[r].slot > NoSlot /\ run[r].slot <= now
                        /\ \A u \in Tasks : run[r].task = u =>
                             task'[u].next = NoSlot \/ run[r].slot < task'[u].next
      BY <1>1 DEF RowsBehind
    <3>1. run[r].slot \in Nat /\ now \in Nat
      BY <1>0, ConstantAssumption DEF TypeOK, RunRow
    <3> QED
      BY <1>1, <2>2, <2>3, <2>5, <3>1 DEF SlotInv, RowsBehind, Ahead
  <2>7. PassFits'
    <3> SUFFICES ASSUME sched.pc = "claim", NEW x \in sched.due
                 PROVE  SnapshotFit(x)'
      BY <1>1 DEF SlotInv, PassFits
    <3>1. x.slot \in Nat /\ now \in Nat /\ sched.passNow \in Nat /\ x.task \in Tasks
      BY <1>0, ConstantAssumption DEF TypeOK, SchedRow, Snapshot
    <3>2. SnapshotFit(x) /\ sched.passNow <= now
      BY DEF SlotInv, PassFits
    <3> QED
      BY <1>1, <2>2, <2>3, <2>5, <3>1, <3>2 DEF SnapshotFit, Ahead, NoSlot
  <2> QED
    BY <1>2, <2>6, <2>7 DEF SlotInv
<1> QED
  BY <1>3, <1>4 DEF WriteStep

\* A claim takes the slot of next_run_at and leaves one later than the pass.
LEMMA ClaimSlots ==
    ASSUME SlotInv, RunInv', NEW x \in sched.due, Claim(x)
    PROVE  SlotInv'
<1> DEFINE new  == lastRun + 1
           t    == x.task
           next == NextRunAfterDue(x.schedule, x.slot, sched.passNow)
           row  == [task |-> t, slot |-> x.slot, status |-> "queued",
                    acked |-> FALSE, linked |-> FALSE]
<1>0. TypeOK /\ now \in Nat
  BY ConstantAssumption DEF SlotInv, RunInv, TypeOK
<1>1. /\ x.task \in Tasks /\ x.slot \in Nat /\ x.schedule \in Schedules
      /\ sched.passNow \in Nat /\ sched.pc = "claim"
  BY <1>0 DEF TypeOK, SchedRow, Snapshot, Claim, NextSnapshot
<1>2. SnapshotFit(x) /\ sched.passNow <= now /\ task[t].next = x.slot
  BY <1>1 DEF SlotInv, PassFits, Claim, Eligible
<1>3. next \in Nat /\ next > sched.passNow /\ OnCalendar(x.schedule, next)
  BY <1>1, <1>2, SlotsAdvance, SlotsOnCalendar DEF SnapshotFit
<1>4. new \in RunIds
  BY <1>0, ConstantAssumption DEF Claim, InsertRun, TypeOK, RunIds
<1>5. /\ run' = [run EXCEPT ![new] = row] /\ task' = [task EXCEPT ![t].next = next]
      /\ UNCHANGED <<now, op>>
  BY DEF Claim, InsertRun
<1> HIDE DEF next, new
<1>6. /\ run'[new] = row /\ \A q \in RunIds : q # new => run'[q] = run[q]
      /\ task'[t].next = next /\ task'[t].schedule = task[t].schedule
      /\ task'[t].state = task[t].state
      /\ \A u \in Tasks : u # t => task'[u] = task[u]
  BY <1>0, <1>1, <1>4, <1>5 DEF TypeOK, TaskRow
<1>7. row.task = t /\ row.slot = x.slot
  OBVIOUS
<1> HIDE DEF row
<1>8. RowsBehind'
  <2> SUFFICES ASSUME NEW r \in RunIds, run'[r].status # "none"
               PROVE  /\ run'[r].slot > NoSlot /\ run'[r].slot <= now
                      /\ \A u \in Tasks : run'[r].task = u =>
                           task'[u].next = NoSlot \/ run'[r].slot < task'[u].next
    BY <1>5 DEF RowsBehind
  <2>1. CASE r = new
    BY <1>0, <1>1, <1>2, <1>3, <1>6, <1>7, <2>1 DEF SnapshotFit
  <2>2. CASE r # new
    <3>1. run[r].slot \in Nat
      BY <1>0 DEF TypeOK, RunRow
    <3>2. run'[r] = run[r] /\ run[r].slot > NoSlot /\ run[r].slot <= now
          /\ \A u \in Tasks : run[r].task = u =>
               task[u].next = NoSlot \/ run[r].slot < task[u].next
      BY <1>6, <2>2 DEF SlotInv, RowsBehind
    <3>3. run[r].task = t => run[r].slot < next
      BY <1>1, <1>2, <1>3, <3>1, <3>2 DEF SnapshotFit, NoSlot
    <3> QED
      BY <1>6, <3>2, <3>3
  <2> QED
    BY <2>1, <2>2
<1>9. OpAhead'
  BY <1>5 DEF SlotInv, OpAhead, Ahead
<1>10. PassFits'
  <2>1. \/ sched' = LoopAt("delay")
        \/ sched' = [sched EXCEPT !.due = @ \ {x}]
    BY DEF Claim
  <2>2. CASE sched' = LoopAt("delay")
    BY <2>2 DEF PassFits, LoopAt
  <2>3. CASE sched' = [sched EXCEPT !.due = @ \ {x}]
    <3>1. sched'.pc = "claim" /\ sched'.passNow = sched.passNow /\ sched'.due \subseteq sched.due
      BY <1>0, <1>1, <2>3 DEF TypeOK, SchedRow
    <3>2. ASSUME NEW y \in sched.due PROVE SnapshotFit(y)'
      <4>1. y.slot \in Nat /\ y.task \in Tasks /\ SnapshotFit(y)
        BY <1>0, <1>1 DEF TypeOK, SchedRow, Snapshot, SlotInv, PassFits
      <4> QED
        BY <1>1, <1>3, <1>6, <3>1, <4>1 DEF SnapshotFit
    <3> QED
      BY <1>2, <1>5, <3>1, <3>2 DEF PassFits
  <2> QED
    BY <2>1, <2>2, <2>3
<1> QED
  BY <1>8, <1>9, <1>10 DEF SlotInv

LEMMA SchedulerSlots ==
    ASSUME SlotInv, RunInv', Scheduler
    PROVE  SlotInv'
<1> USE DEF dbVars, workVars, bounds
<1>0. TypeOK /\ now \in Nat /\ run \in [RunIds -> RunRow]
  BY ConstantAssumption DEF SlotInv, RunInv, TypeOK
<1>1. CASE Recover
  <2>1. \A q \in RunIds : run'[q].status # "none" =>
           /\ run[q].status # "none"
           /\ run'[q].slot = run[q].slot /\ run'[q].task = run[q].task
    BY <1>0, <1>1 DEF Recover, Unfinished, RunRow
  <2>2. PassFits'
    BY <1>1 DEF Recover, LoopAt, PassFits
  <2> QED
    BY <1>1, <2>1, <2>2, SlotQuiet DEF Recover
<1>2. CASE BeginPass
  <2>1. sched'.pc = "list" /\ sched'.passNow = now /\ now' = now
    BY <1>0, <1>2 DEF BeginPass, TypeOK, SchedRow
  <2> QED
    BY <1>2, <2>1, SlotQuiet DEF BeginPass, PassFits
<1>3. CASE ListDue
  <2>1. PassFits'
    <3>1. CASE sched' = LoopAt("delay")
      BY <3>1 DEF LoopAt, PassFits
    <3>2. CASE sched' = [sched EXCEPT !.pc = "claim", !.due = DueSnapshots]
      <4>1. sched'.pc = "claim" /\ sched'.passNow = now /\ sched'.due = DueSnapshots
        BY <1>0, <1>3, <3>2 DEF ListDue, SlotInv, PassFits, TypeOK, SchedRow
      <4>2. ASSUME NEW x \in DueSnapshots PROVE SnapshotFit(x)'
        <5>1. PICK t \in Tasks : Due(t) /\ x = [task |-> t, slot |-> task[t].next,
                                                schedule |-> task[t].schedule]
          BY <4>2 DEF DueSnapshots
        <5>2. task[t].next \in Nat /\ task[t].next # NoSlot /\ task[t].next <= now
          BY <1>0, <5>1 DEF TypeOK, TaskRow, Due, Runnable
        <5> QED
          BY <1>3, <4>1, <5>1, <5>2 DEF ListDue, SnapshotFit, NoSlot
      <4> QED
        BY <1>0, <1>3, <4>1, <4>2 DEF ListDue, PassFits
    <3> QED
      BY <1>3, <3>1, <3>2 DEF ListDue
  <2> QED
    BY <1>3, <2>1, SlotQuiet DEF ListDue
<1>4. CASE EndPass \/ ComputeDelay \/ WakeUp
  <2>1. sched'.pc \in {"delay", "begin", "sleep"}
    <3>1. LoopAt("delay").pc = "delay" /\ LoopAt("begin").pc = "begin"
      BY DEF LoopAt
    <3>2. \A d : [sched EXCEPT !.pc = "sleep", !.since = now, !.deadline = d].pc = "sleep"
      BY <1>0 DEF TypeOK, SchedRow
    <3>3. CASE ComputeDelay
      BY <3>2, <3>3 DEF ComputeDelay
    <3> QED
      BY <1>4, <3>1, <3>3 DEF EndPass, WakeUp
  <2> QED
    BY <1>4, <2>1, SlotQuiet DEF EndPass, ComputeDelay, WakeUp, PassFits
<1>5. ASSUME NEW x \in sched.due, SkipStaleSnapshot(x) \/ ClaimFails(x)
      PROVE  SlotInv'
  <2>1. PassFits'
    <3>1. CASE sched' = LoopAt("delay")
      BY <3>1 DEF LoopAt, PassFits
    <3>2. CASE sched' = [sched EXCEPT !.due = @ \ {x}]
      <4>1. sched'.pc = sched.pc /\ sched'.passNow = sched.passNow
            /\ sched'.due \subseteq sched.due /\ sched.pc = "claim"
        BY <1>0, <1>5, <3>2 DEF SkipStaleSnapshot, ClaimFails, NextSnapshot, TypeOK, SchedRow
      <4> QED
        BY <1>5, <4>1 DEF SkipStaleSnapshot, ClaimFails, SlotInv, PassFits, SnapshotFit
    <3> QED
      BY <1>5, <3>1, <3>2 DEF SkipStaleSnapshot, ClaimFails
  <2> QED
    BY <1>5, <2>1, SlotQuiet DEF SkipStaleSnapshot, ClaimFails
<1> QED
  BY <1>1, <1>2, <1>3, <1>4, <1>5, ClaimSlots DEF Scheduler

\* Workers and turns write no slot.
LEMMA WorkSlots ==
    ASSUME SlotInv, RunInv', NEW r \in RunIds, WorkerStep(r) \/ TurnStep(r)
    PROVE  SlotInv'
<1> USE DEF dbVars, workVars, bounds
<1>1. run \in [RunIds -> RunRow] /\ UNCHANGED <<now, task, sched, op>>
  BY DEF SlotInv, RunInv, TypeOK, WorkerStep, ResolveThread, ThreadIdle, ThreadBusyRetry,
         ThreadStaysBusy, SendMessage, MarkRunError, TurnStep, TurnNeedsConfirmation,
         ThreadDeleted, FinishChatRun
<1>2. run[r] \in RunRow /\ (run[r].linked => run[r].status # "none")
  BY <1>1 DEF SlotInv, RunInv, RowsAllocated, AbsentRow
<1>3. \/ run' = run
      \/ /\ run[r].status # "none"
         /\ \E row \in RunRow : /\ row.slot = run[r].slot /\ row.task = run[r].task
                                /\ run' = [run EXCEPT ![r] = row]
  <2> DEFINE set(st, a, l) == [run[r] EXCEPT !.status = st, !.acked = a, !.linked = l]
             kept(row)     == row \in RunRow /\ row.slot = run[r].slot /\ row.task = run[r].task
  <2>1. \A st \in RunStatus, a, l \in BOOLEAN : kept(set(st, a, l))
    BY <1>2 DEF RunRow
  <2>2. run[r].status \in RunStatus /\ run[r].acked \in BOOLEAN /\ run[r].linked \in BOOLEAN
        /\ {"skipped", "running", "error", "needs_confirmation", "completed", "interrupted"}
             \subseteq RunStatus
    BY <1>2 DEF RunRow, RunStatus, OpenStatus, SettledStatus, FailedStatus
  <2>3. /\ [run[r] EXCEPT !.status = "skipped"] = set("skipped", run[r].acked, run[r].linked)
        /\ [run[r] EXCEPT !.status = "running", !.linked = TRUE]
             = set("running", run[r].acked, TRUE)
        /\ [run[r] EXCEPT !.status = "error", !.acked = FALSE]
             = set("error", FALSE, run[r].linked)
    BY <1>2 DEF RunRow
  <2>4. CASE WorkerStep(r)
    <3>1. \/ run' = run
          \/ SetRow(r, set("skipped", run[r].acked, run[r].linked))
          \/ SetRow(r, set("running", run[r].acked, TRUE))
          \/ SetRow(r, set("error", FALSE, run[r].linked))
      BY <2>3, <2>4, Zenon DEF WorkerStep, ResolveThread, ThreadIdle, ThreadBusyRetry,
         ThreadStaysBusy, SendMessage, MarkRunError
    <3>2. kept(set("skipped", run[r].acked, run[r].linked))
          /\ kept(set("running", run[r].acked, TRUE))
          /\ kept(set("error", FALSE, run[r].linked))
      <4>1. TRUE \in BOOLEAN /\ FALSE \in BOOLEAN
        OBVIOUS
      <4> HIDE DEF set, kept
      <4> QED
        BY <2>1, <2>2, <4>1
    <3> HIDE DEF set
    <3> QED
      BY <3>1, <3>2 DEF SetRow, Present
  <2>5. CASE TurnStep(r)
    <3>1. \A st \in RunStatus, a, l \in BOOLEAN :
            /\ run' = [run EXCEPT ![r].status = st, ![r].acked = a]
                 => run' = [run EXCEPT ![r] = set(st, a, run[r].linked)]
            /\ run' = [run EXCEPT ![r].linked = l]
                 => run' = [run EXCEPT ![r] = set(run[r].status, run[r].acked, l)]
      BY <1>1, <1>2 DEF RunRow
    <3>2. \/ run' = run
          \/ /\ run[r].linked
             /\ \/ \E st \in RunStatus, a \in BOOLEAN :
                     run' = [run EXCEPT ![r].status = st, ![r].acked = a]
                \/ run' = [run EXCEPT ![r].linked = FALSE]
      BY <2>2, <2>5 DEF TurnStep, TurnNeedsConfirmation, ThreadDeleted, FinishChatRun
    <3>3. ASSUME NEW row, kept(row), run' = [run EXCEPT ![r] = row], run[r].linked
          PROVE  /\ run[r].status # "none"
                 /\ \E x \in RunRow : /\ x.slot = run[r].slot /\ x.task = run[r].task
                                      /\ run' = [run EXCEPT ![r] = x]
      BY <1>2, <3>3
    <3>4. FALSE \in BOOLEAN
      OBVIOUS
    <3>5. run' = run \/ (run[r].linked /\ \E row : kept(row) /\ run' = [run EXCEPT ![r] = row])
      <4> HIDE DEF set, kept
      <4> QED
        BY <2>1, <2>2, <3>1, <3>2, <3>4
    <3> HIDE DEF kept
    <3> QED
      BY <3>3, <3>5
  <2> QED
    BY <2>4, <2>5
<1>4. \A q \in RunIds : run'[q].status # "none" =>
         /\ run[q].status # "none"
         /\ run'[q].slot = run[q].slot /\ run'[q].task = run[q].task
  BY <1>1, <1>3
<1>5. PassFits'
  BY <1>1, SamePass DEF SlotInv
<1> QED
  BY <1>1, <1>4, <1>5, SlotQuiet

LEMMA EnvironmentSlots ==
    ASSUME SlotInv, RunInv', ~ClockMovesInside, Environment
    PROVE  SlotInv'
<1> USE DEF dbVars, workVars, bounds
<1>0. TypeOK /\ now \in Nat
  BY ConstantAssumption DEF SlotInv, RunInv, TypeOK
<1>1. CASE Tick
  <2>1. /\ sched.pc # "list" /\ now' = now + 1
        /\ \A c \in Commands : op[c] = NoOp
        /\ UNCHANGED <<task, run, sched, op>>
    BY <1>1 DEF Tick
  <2>2. RowsBehind'
    <3>1. \A r \in RunIds : run[r].slot \in Nat
      BY <1>0 DEF TypeOK, RunRow
    <3> QED
      BY <1>0, <2>1, <3>1 DEF SlotInv, RowsBehind
  <2>3. PassFits'
    <3>1. sched.passNow \in Nat
      BY <1>0 DEF TypeOK, SchedRow
    <3> QED
      BY <1>0, <2>1, <3>1 DEF SlotInv, PassFits, SnapshotFit
  <2> QED
    BY <2>1, <2>2, <2>3 DEF SlotInv, OpAhead
<1>2. CASE Exit
  <2>1. /\ \A c \in Commands : op'[c] = NoOp
        /\ UNCHANGED <<now, task, run>> /\ sched'.pc = "down"
    BY <1>2 DEF Exit, LoopAt
  <2> QED
    BY <2>1 DEF SlotInv, OpAhead, PassFits, RowsBehind
<1>3. CASE Start
  <2>1. sched'.pc = "recover"
    BY <1>3 DEF Start, LoopAt
  <2> QED
    BY <1>3, <2>1, SlotQuiet DEF Start, PassFits
<1> QED
  BY <1>1, <1>2, <1>3 DEF Environment

LEMMA NextSlotInv ==
    ASSUME ~ClockMovesInside
    PROVE  SlotInv /\ [Next]_vars => SlotInv'
<1> SUFFICES ASSUME SlotInv, [Next]_vars PROVE SlotInv'
  OBVIOUS
<1>1. RunInv'
  BY NextRunInv DEF SlotInv
<1>2. CASE UNCHANGED vars
  BY <1>1, <1>2, SlotQuiet, SamePass DEF vars, SlotInv
<1> QED
  BY <1>1, <1>2, UserCommandSlots, WriteSlots, SchedulerSlots, WorkSlots, EnvironmentSlots
     DEF Next

\* claim_due_task never meets its own UNIQUE(task_id, scheduled_for): the slot a
\* task has next is later than every slot it has run, whatever is edited, deleted
\* or recovered, as long as the clock stays in its slot within a pass or command.
THEOREM FreshSlots ==
    ASSUME ~ClockMovesInside
    PROVE  Spec => []NextSlotIsFresh
<1>1. SlotInv => NextSlotIsFresh
  <2> SUFFICES ASSUME SlotInv, NEW t \in Tasks, NEW r \in Rows(t)
               PROVE  run[r].slot # task[t].next
    BY DEF NextSlotIsFresh
  <2>1. r \in RunIds /\ run[r].status # "none" /\ run[r].task = t
    BY DEF Rows
  <2>2. run[r].slot \in Nat /\ task[t].next \in Nat
    BY <2>1 DEF SlotInv, RunInv, TypeOK, RunRow, TaskRow
  <2> QED
    BY <2>1, <2>2 DEF SlotInv, RowsBehind, NoSlot
<1> QED
  BY <1>1, InitSlotInv, NextSlotInv, PTL DEF Spec

\* What a claim leaves in next_run_at is a slot of the schedule of the row.
LEMMA ClaimKeepsSchedule ==
    ASSUME SlotInv, NEW x \in sched.due, Claim(x), NEW t \in Tasks, OnSchedule(task[t])
    PROVE  OnSchedule(task'[t])
<1> DEFINE next == NextRunAfterDue(x.schedule, x.slot, sched.passNow)
<1>0. TypeOK
  BY DEF SlotInv, RunInv
<1>1. /\ x.task \in Tasks /\ x.slot \in Nat /\ x.schedule \in Schedules
      /\ sched.passNow \in Nat /\ sched.pc = "claim"
  BY <1>0 DEF TypeOK, SchedRow, Snapshot, Claim, NextSnapshot
<1>2. task[x.task].schedule = x.schedule
  BY <1>1 DEF SlotInv, PassFits, Claim, Eligible, SnapshotFit
<1>3. OnCalendar(x.schedule, next)
  BY <1>1, SlotsOnCalendar
<1>4. task' = [task EXCEPT ![x.task].next = next]
  BY DEF Claim, InsertRun
<1> HIDE DEF next
<1>5. /\ task'[x.task].next = next /\ task'[x.task].schedule = x.schedule
      /\ t # x.task => task'[t] = task[t]
  BY <1>0, <1>1, <1>2, <1>4 DEF TypeOK, TaskRow
<1> QED
  BY <1>3, <1>5 DEF OnCalendar, OnSchedule

\* Of the writes of the commands only an enable overtaken by an update takes a row
\* off its schedule.
LEMMA WriteKeepsSchedule ==
    ASSUME SlotInv, NEW c \in Commands, WriteStep(c), NEW t \in Tasks,
           OnSchedule(task[t]), ~OnSchedule(task'[t])
    PROVE  OvertakenEnable(t)
<1> DEFINE o == op[c]
<1>0. TypeOK
  BY DEF SlotInv, RunInv
<1>1. op'[c] = NoOp
  BY <1>0 DEF WriteStep, CommitOp, OpFails, TypeOK
<1>2. CommitOp(c)
  BY DEF WriteStep, OpFails, dbVars
<1>3. o \in Ops /\ o # NoOp
  BY <1>0, <1>2 DEF CommitOp, TypeOK
<1>4. o.task \in Tasks /\ OnCalendar(o.schedule, o.next)
  BY <1>3 DEF Ops, SlotInv, OpAhead
<1>5. task'[o.task] = Written(task[o.task], o) /\ \A u \in Tasks : u # o.task => task'[u] = task[u]
  BY <1>0, <1>2, <1>4 DEF CommitOp, TypeOK
<1>6. t = o.task
  BY <1>5
<1> HIDE DEF o
<1>7. CASE o.kind # "enable"
  BY <1>4, <1>5, <1>6, <1>7 DEF Written, OnCalendar, OnSchedule
<1>8. CASE o.kind = "enable"
  <2>1. task'[t].next = o.next /\ task'[t].schedule = task[t].schedule
    BY <1>0, <1>5, <1>6, <1>8 DEF Written, TypeOK, TaskRow
  <2>2. o.schedule # task[t].schedule
    BY <1>4, <2>1 DEF OnCalendar, OnSchedule
  <2> QED
    BY <1>1, <1>6, <1>8, <2>2 DEF OvertakenEnable, o
<1> QED
  BY <1>7, <1>8

\* With any number of commands in flight, next_run_at leaves the schedule of its row
\* only by an enable that read the schedule before an update and wrote after it; a
\* claim from a snapshot listed before the update never brings the old one back.
THEOREM SlotsOfSchedule ==
    ASSUME ~ClockMovesInside
    PROVE  Spec => NextSlotFollowsSchedule
<1>1. ASSUME SlotInv, [Next]_vars, NEW t \in Tasks, OnSchedule(task[t]),
             ~OnSchedule(task'[t])
      PROVE  OvertakenEnable(t)
  <2> USE DEF dbVars, workVars, bounds
  <2>1. task' # task
    BY <1>1
  <2>2. CASE UserCommand
    <3>1. PICK u \in Tasks : DeleteTask(u)
      BY <2>1, <2>2 DEF UserCommand, Prepare, PrepareCreate, PrepareUpdate, PrepareEnable,
                        Acknowledge
    <3>2. task' = [task EXCEPT ![u] = NoTaskRow("deleted")] /\ task \in [Tasks -> TaskRow]
      BY <1>1, <3>1 DEF DeleteTask, SlotInv, RunInv, TypeOK
    <3>3. task'[t] = task[t] \/ task'[t] = NoTaskRow("deleted")
      BY <3>2
    <3>4. NoTaskRow("deleted") \in TaskRow /\ NoTaskRow("deleted").next = NoSlot
      BY NoTaskRowType DEF NoTaskRow
    <3>5. NoTaskRow("deleted").schedule \in Schedules
      BY <3>4 DEF TaskRow
    <3>6. OnCalendar(NoTaskRow("deleted").schedule, NoSlot)
      <4>1. now \in Nat
        BY <1>1, ConstantAssumption DEF SlotInv, RunInv, TypeOK
      <4> QED
        BY <3>5, <4>1, SlotsOnCalendar
    <3> QED
      BY <1>1, <3>3, <3>4, <3>6 DEF OnSchedule, OnCalendar
  <2>3. CASE \E c \in Commands : WriteStep(c)
    BY <1>1, <2>3, WriteKeepsSchedule
  <2>4. CASE Scheduler
    <3>1. PICK x \in sched.due : Claim(x)
      BY <2>1, <2>4 DEF Scheduler, Recover, BeginPass, ListDue, EndPass, ComputeDelay, WakeUp,
                        SkipStaleSnapshot, ClaimFails
    <3> QED
      BY <1>1, <3>1, ClaimKeepsSchedule
  <2>5. CASE Environment
    BY <2>1, <2>5 DEF Environment, Tick, Exit, Start
  <2>6. CASE \E r \in RunIds : WorkerStep(r) \/ TurnStep(r)
    BY <2>1, <2>6
       DEF WorkerStep, ResolveThread, ThreadIdle, ThreadBusyRetry, ThreadStaysBusy, SendMessage,
           MarkRunError, TurnStep, TurnNeedsConfirmation, ThreadDeleted, FinishChatRun
  <2>7. CASE UNCHANGED vars
    BY <2>1, <2>7 DEF vars
  <2> QED
    BY <1>1, <2>2, <2>3, <2>4, <2>5, <2>6, <2>7 DEF Next
<1>2. SlotInv /\ [Next]_vars => SlotInv'
  BY NextSlotInv
<1>3. SlotInv /\ [Next]_vars =>
        [\A t \in Tasks :
           OnSchedule(task[t]) /\ ~OnSchedule(task'[t]) => OvertakenEnable(t)]_vars
  BY <1>1
<1> QED
  BY <1>2, <1>3, InitSlotInv, PTL DEF Spec, NextSlotFollowsSchedule

-----------------------------------------------------------------------------
(* The end of a pass.                                                      *)

\* What claim_due_task finds eligible is a slot no row of the task has.
LEMMA EligibleIsFresh ==
    ASSUME SlotInv, NEW x \in sched.due, Eligible(x)
    PROVE  ~SlotTaken(x)
<1> SUFFICES ASSUME NEW r \in Rows(x.task), run[r].slot = x.slot PROVE FALSE
  BY DEF SlotTaken
<1>1. x.task \in Tasks /\ task[x.task].next = x.slot /\ x.slot # NoSlot
  BY SnapshotType DEF SlotInv, RunInv, Snapshot, Eligible, Runnable
<1>2. r \in RunIds /\ run[r].status # "none" /\ run[r].task = x.task
  BY DEF Rows
<1>3. run[r].slot \in Nat
  BY <1>2 DEF SlotInv, RunInv, TypeOK, RunRow
<1> QED
  BY <1>1, <1>2, <1>3 DEF SlotInv, RowsBehind

\* Where no database call fails, process_due_tasks looks at every task it listed,
\* whatever the user edits, deletes or acknowledges while it claims.
THEOREM PassesComplete ==
    ASSUME ~Faults, ~ClockMovesInside
    PROVE  Spec => PassReachesEach
<1>1. ASSUME SlotInv, [Next]_vars, sched.pc = "claim", sched'.pc = "delay"
      PROVE  sched.due = {}
  <2> USE DEF dbVars, workVars, bounds
  <2>1. sched \in SchedRow
    BY <1>1 DEF SlotInv, RunInv, TypeOK
  <2>2. UNCHANGED sched => FALSE
    BY <1>1
  <2>3. CASE Scheduler
    <3>1. ASSUME NEW x \in sched.due, Claim(x) \/ SkipStaleSnapshot(x) \/ ClaimFails(x)
          PROVE  FALSE
      <4>1. [sched EXCEPT !.due = @ \ {x}].pc = "claim"
        BY <1>1, <2>1 DEF SchedRow
      <4>2. ~ClaimFails(x)
        BY <1>1, EligibleIsFresh DEF ClaimFails
      <4> QED
        BY <1>1, <3>1, <4>1, <4>2 DEF Claim, SkipStaleSnapshot
    <3> QED
      BY <1>1, <2>3, <3>1
         DEF Scheduler, Recover, BeginPass, ListDue, EndPass, ComputeDelay, WakeUp
  <2>4. CASE UserCommand
    BY <2>2, <2>4 DEF UserCommand, Prepare, PrepareCreate, PrepareUpdate, PrepareEnable,
       Acknowledge,
                      DeleteTask
  <2>5. CASE \E c \in Commands : WriteStep(c)
    BY <2>2, <2>5 DEF WriteStep, CommitOp, OpFails
  <2>6. CASE Environment
    BY <1>1, <2>2, <2>6 DEF Environment, Tick, Exit, Start, LoopAt
  <2>7. CASE \E r \in RunIds : WorkerStep(r) \/ TurnStep(r)
    BY <2>2, <2>7
       DEF WorkerStep, ResolveThread, ThreadIdle, ThreadBusyRetry, ThreadStaysBusy, SendMessage,
           MarkRunError, TurnStep, TurnNeedsConfirmation, ThreadDeleted, FinishChatRun
  <2>8. CASE UNCHANGED vars
    BY <2>2, <2>8 DEF vars
  <2> QED
    BY <1>1, <2>3, <2>4, <2>5, <2>6, <2>7, <2>8 DEF Next
<1>2. SlotInv /\ [Next]_vars => SlotInv'
  BY NextSlotInv
<1>3. SlotInv /\ [Next]_vars =>
        [sched.pc = "claim" /\ sched'.pc = "delay" => sched.due = {}]_vars
  BY <1>1
<1> QED
  BY <1>2, <1>3, InitSlotInv, PTL DEF Spec, PassReachesEach
=============================================================================

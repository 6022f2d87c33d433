# Verification of AuraCoder's backend: schedules, chat turns, engines and leases

AuraCoder is a Tauri desktop application that drives coding agents (Codex, Claude
Code, OpenCode, local or over SSH).  The Rust backend in `src/src-tauri/src` keeps
workspaces, threads, messages, approvals and scheduled tasks in SQLite, runs one chat
turn per thread against an agent process, and serves the desktop front end, a mobile
client behind a relay, and an MCP gateway.  This directory holds TLA+ modules of the
parts of that backend whose correctness depends on the order in which concurrent things
happen, the TLC configurations that check them, and proofs checked by TLAPS.

Paths below are relative to `src/src-tauri/src` unless they start with `src/`.

## Contents

| file | what it is |
|---|---|
| `ScheduledTasks.tla` | scheduled tasks: tables, UI commands, scheduler loop, workers, settlement by the turn, crash and recovery |
| `RunLedger.tla` | abstract specification: what the subsystem promises about the runs of its tasks |
| `ScheduledTasksProofs.tla` | type correctness, the inductive invariant, open runs and the sleep of the loop |
| `ScheduledTasksSlotProofs.tla` | proofs about the slots `next_run_at` names and the completeness of a pass |
| `ScheduledTasksRefinement.tla` | proof that `ScheduledTasks` implements `RunLedger` |
| `MCScheduledTasks.tla`, `Sched*.cfg` | values for TLC and the runs |
| `ChatTurn.tla` | the turns of one thread, approvals and their answers, stop, archive, exit and recovery |
| `ApprovalLedger.tla` | abstract specification: what is promised about an approval in the table and at the agent |
| `ChatTurnProofs.tla` | type correctness, registration, acceptance and settlement proofs; `ChatTurn` implements `ApprovalLedger` |
| `ChatTurnRestProofs.tla` | the token a cancellation takes and the thread at rest, without database faults and archives |
| `MCChatTurn.tla`, `Chat*.cfg` | values for TLC and the runs |
| `CodexEngine.tla` | the Codex engine: one app-server connection shared by the turns of all threads, its replacement, events, stops and approval answers |
| `AppServers.tla` | abstract specification: what is promised about the app-server processes |
| `CodexEngineProofs.tla` | its type correctness and safety, for any number of threads and connections; it implements `AppServers` |
| `MCCodexEngine.tla`, `Codex*.cfg` | values for TLC and the runs |
| `McpGateway.tla` | the MCP gateway: leases of the CLI services, trusted contexts of turns, tool calls and their cancellation |
| `McpGatewayProofs.tla` | unique leases, the caller's context, the reach of a revocation and of a cancellation |
| `MCMcpGateway.tla`, `Gateway*.cfg` | values for TLC and the runs |
| `SshServices.tla` | the remote service of one SSH connection and CLI: forward, lease, process, health loop |
| `RemoteService.tla` | abstract specification: the contract of one remote service, its lease and its process |
| `SshServicesProofs.tla` | proofs that lease, process and forward belong to the service; `SshServices` implements `RemoteService` |
| `MCSshServices.tla`, `Ssh*.cfg` | values for TLC and the runs |
| `PROJECT.json` | components, runs, mutants, definition-to-source map, findings, hazards, theorems |

To repeat a run: `tlc -workers 2 -config SchedSafety.cfg MCScheduledTasks.tla`; to
repeat a proof: `tlapm ChatTurnProofs.tla`.

## Inventory of the system

| component | state | operations | interacts with | hard part | correctness |
|---|---|---|---|---|---|
| Scheduled tasks (`services/scheduled_task_service.rs`, `db/scheduled_tasks.rs`, `scheduled_tasks/`) | `scheduled_tasks`, `scheduled_task_runs`, a Notify permit, one loop, one worker per run | create, update, enable, acknowledge, delete; list, claim, execute; settle | chat turn (send, settle by message), clock, UI | read of the clock and of rows, then an await, then the write; crash; retries; wakes | one open run per task, no slot run twice, no due task forgotten, every run settled |
| Chat turn (`cli_tools/mcp.rs`, `state.rs`) | `TurnManager` map, cancellation tokens, message and thread status | submit, run_turn, stop, archive, delete | agent, approvals, scheduled tasks, UI | the spawned turn races stop, archive and answers; timeouts; final writes | one turn per thread, a stop ends it, the thread at rest shows how it ended |
| Approvals (`db/actions.rs`, `cli_tools/mcp.rs`, `cli_tools/codex.rs`) | `approvals`, the agent's own open requests | request, expire, answer, resolve | chat turn, agent | eight awaits in one answer; four ways to settle the same row | the first settlement stays, an acceptance is real, an old answer touches no new turn |
| Thread recovery (`services/thread_service.rs`, `db/threads.rs`) | `threads.status`, `messages.status` | `recover_runtime_state` at start | all of the above | what a crash left | rest status from what is stored |
| Codex remote-thread mirror (`cli_tools/codex.rs`) | remote status in `threads` | apply status, snapshot, title | chat turn | checks the local turn, then writes later | a live turn is never overwritten |
| Codex engine and transport (`engines/codex.rs`, `engines/codex_transport.rs`) | current connection, initialized flag, active turn per thread, pending requests, queues | send_message, interrupt, respond_to_approval, ensure and invalidate the transport | chat turn, app-server process | all threads share one connection; lost, late and lagging events; process death | one server, an event ends only its own call, an answer reaches who asked, a call ends |
| Local CLI services (`local_cli_service_lifecycle.rs`, `cli_service_health.rs`) | use counts, idle timers, the lease held | acquire, release, stop, check | engines, MCP gateway | stop against a new use | a service in use is not stopped |
| Keep-awake (`power/`) | wanted and actual wake lock, session | enable, disable, sample, renew | OS, helper | battery, helper death | the lock is held iff wanted and allowed |
| Remote access and relay (`remote/`, `src/relay`) | pairings, sockets, pending requests | pair, connect, forward, reconnect | mobile client | reconnection, duplicate sockets | a request gets one answer, a revoked device none |
| SSH services (`ssh/cli_tunnel_registry.rs`, `ssh/cli_service_lifecycle.rs`, `cli_service_health.rs`) | service map, forwards with their service state, remote process | register, set, terminate, restart, unregister, health check, exit | remote engines, MCP gateway | forwards opened without the lock, failing SSH commands, a process that outlives a crash | lease, process and forward are those of the service; a dead one leaves |
| MCP gateway (`mcp_gateway.rs`) | lifecycle and generation, lease table with trusted contexts, active calls | start, shutdown, register, revoke, trusted context, call, cancel | CLI services, chat turn, agents | a lease copied before the call it authorizes; shared contexts | one lease per CLI, a tool runs for the turn that asked, a revocation reaches every call |
| Terminal (`terminal/`) | PTY sessions, replay buffer | open, write, attach, close | UI | attach against output | no output lost or repeated on attach |
| Extensions, update, files, git, configuration | catalogues, settings, files | mostly one call each | OS, CLIs | little shared state | - |
| Front end, mobile client, sidecars, packaging | UI state | - | backend | - | out of scope |

`PROJECT.json` lists every component with its source files and why a part is not
modelled, and under `hazards` each place where the code is hard to test.

## Scheduled tasks

`ScheduledTasks` has the two tables as `task` and `run` (`lastRun` gives row ids in
creation order), the `tokio::sync::Notify` permit, the scheduler loop (`sched.pc`), the
spawned worker of each run (`worker`, `attempt`), and the UI commands between the
computation of `next_run_at` and its write (`op`).  Any number of commands may be in flight
at once: nothing in the backend orders them, on one task or on two, so that an update may
commit between the read of an enable and its write.

| code | actions |
|---|---|
| `create/update_scheduled_task` (`validate_and_prepare`, write, wake) | `PrepareCreate`, `PrepareUpdate`, then `CommitOp` or `OpFails` |
| `set_scheduled_task_enabled` | `PrepareEnable`, then `CommitOp` or `OpFails` |
| `acknowledge_scheduled_task`, `delete_scheduled_task` | `Acknowledge`, `DeleteTask` |
| `ScheduledTaskManager::start`: recover | `Recover` |
| `process_due_tasks`: clock, `list_due_tasks`, `claim_due_task` per task, spawn | `BeginPass`, `ListDue`, `Claim`, `SkipStaleSnapshot`, `ClaimFails`, `EndPass` |
| `next_scheduler_delay` and the select of timer and permit | `ComputeDelay`, `WakeUp` |
| `execute_claimed_task` | `ResolveThread`, `ThreadIdle`, `ThreadBusyRetry`, `ThreadStaysBusy`, `SendMessage`, `MarkRunError` |
| approval request, thread deletion and end of the turn of a run | `TurnNeedsConfirmation`, `ThreadDeleted`, `FinishChatRun` |
| exit, start, clock | `Exit`, `Start`, `Tick` |

Abstractions.  A tick of the clock is the grain at which schedules differ.  Daily and
weekly schedules are one kind, "calendar": fixed points of the clock, the multiples of
the period; time zones and the validation of schedules are not modelled.  Interval
schedules keep the arithmetic of `next_run_after_due`.  Whether the target thread is busy
and whether it can be resolved is a free choice, and so is how the turn ends.  A database
statement or transaction is atomic.  The write of a command, the re-reading of the row and
the wake are one step, `CommitOp`: a crash between them forgets the permit, and so does a
crash after them.  The re-reading may fail (`db/scheduled_tasks.rs:121`, 167, 191); the row is
written then and the scheduler is not told, which `CommitOp` allows with `Faults`.  An enable
reads the row and the clock in one step.  Deletion and acknowledgement, which fail
without any effect, have no failing variant.

`RunLedger` is the abstract specification.  It knows no clock, loop, worker or turn: a
ledger of runs in which a task gets a new run only when none of its runs is open or an
unacknowledged failure, statuses move in one direction, and a failure is recorded
unacknowledged.  `LedgerSpec` maps `run` to it (task, status, acknowledgement; the slot
and the message link are hidden).

### Runs

| run | bounds | shows |
|---|---|---|
| `SchedSafety` | 1 task, both schedules, 3 ticks, 2 runs, 1 exit, 2 edits, 2 commands in flight, no faults | `OpenRunIsWorked`: in a live session each open run has a worker that will settle it; `NextSlotIsFresh`: `next_run_at` never names a slot already run; `NextSlotFollowsSchedule`: `next_run_at` stops being a slot of the saved schedule only when an enable that read the schedule before an update writes after it (a claim from an old snapshot never does it) |
| `SchedFaults` | 1 task, both schedules, 2 ticks, 2 runs, 1 exit, 1 edit, 2 commands in flight, any database call may fail, the clock moves anywhere | `RunInv`, `BlockingRunIsLatest` and `LedgerSpec` hold all the same |
| `SchedLive` | 2 tasks, calendar slots, 3 ticks, 2 runs, 2 commands in flight (creations), fairness | `SleepCoversDue`; `PassReachesEach`: a pass ends only when every task it listed was looked at; `QueuedRunLeaves`, `DueTaskIsClaimed` |

The bounds are enough for what can interact: two runs of one task (an old one that
blocks and a new claim) or of two tasks (one pass with two claims), one exit at any
point, an edit between listing and claim, two commands that overtake one another, and a
retry and its last attempt
(`Retries = 2` for `THREAD_BUSY_RETRY_COUNT = 12`; the count only says when the last
attempt comes).  `RecheckDelay = 1` and `IdleDelay = 9` keep the order of 15 seconds and
6 hours: the idle delay lies beyond the horizon.  The two commands are interchangeable, hence
the symmetry of the safety runs.  At `Horizon` the clock stops and
`Elapsed` lets every pending timer fire, so that no behaviour is stuck for lack of
modelled time.  For that reason `DueTaskIsClaimed` cannot tell a lost wake, which it would
only see as a late claim; `SleepCoversDue` is the property that does.  `MaxRuns` holds the scheduler at a further claim, which
only the safety runs meet: in `SchedLive` each task has one slot before the horizon, so
the two runs never run out.
Deadlock is not checked: with the clock at `Horizon` and the runs used up, or with the
application ended for the last time, the system may rest.

`ClockMovesInside = FALSE` keeps the clock still between a reading and the statement that
uses it.  Real passes take milliseconds, so this is the usual case.  `SchedFaults` and most
proofs allow the other one; with it `NextSlotIsFresh` and `PassReachesEach` fail, as
described under *Where code and its comments disagree*.

### Fairness

`FairSpec` assumes weak fairness of the clock, of the write of each UI command under way, of the
scheduler loop and of each worker: the tokio runtime keeps polling spawned futures, and
each of their waits ends by itself (a timer, a database call).  It assumes nothing of the
user, of the agent that runs the turn, or of a restart; so no property says that a
running run ends.

### What is proved

`ScheduledTasksProofs`, for every set of tasks and schedules, every bound, with faults
and clock movements anywhere:

* `TypeCorrect`: `Spec => []TypeOK`;
* `OneRunAtATime`: `Spec => []BlockingRunIsLatest`.  The invariant is not inductive: a
  worker that writes a row which no longer blocks could make it block again behind a
  younger one.  `RunInv` adds what excludes it: a worker only ever stands on an open or
  deleted row (`WorkerMatchesRow`), rows and workers exist up to `lastRun` only and a
  deleted row is wholly empty (`RowsAllocated`), and no worker lives through an exit
  (`NoWorkerBeforeRecovery`, without which recovery would close a row under its worker).
* `RowsAndWorkers`: `Spec => []RunInv`, this invariant itself;
* `OpenRunsAreWorked`, under `~Faults`: every open run of a live session has a worker or a
  linked turn;
* `SleepIsCovered`, under `~Faults`: the loop never sleeps past a due task, except one whose
  youngest run was skipped.

`ScheduledTasksSlotProofs`, under `~ClockMovesInside` but with faults, for all schedules and
tasks:

* `FreshSlots`: `next_run_at` never names a slot that has a run;
* `SlotsOfSchedule`: `Spec => NextSlotFollowsSchedule`, with any number of commands in flight;
* `PassesComplete`, under `~Faults` too: `Spec => PassReachesEach`.  The only ways out of a
  pass are the end of its list and a failing claim, and a claim of a task that is still due as
  it was listed cannot fail on UNIQUE (`EligibleIsFresh`): its slot lies ahead of its runs.

All three follow from `SlotInv`, whose parts say that the runs of a task lie behind its next slot
(`RowsBehind`), that the slot each UI command is about to write lies ahead of the clock and is
one of the schedule the command carries (`OpAhead`), and that what a pass read of a task still fits the row or will be refused by the
claim (`PassFits`).  `SlotsAdvance` is the arithmetic: what `initial_next_run_at` and
`next_run_after_due` compute lies after the instant they were given; `SlotsOnCalendar` that it is
a slot of the schedule.

`ScheduledTasksRefinement` proves `ImplementsLedger`: `Spec => LedgerSpec`.  Every action
is matched with a ledger action or a stutter; `RunInv` gives the status a worker finds,
and `BlockingRunIsLatest` is not needed by the ledger itself, which asks the same question
of all runs of the task.

The hypotheses are needed: with `Faults = TRUE` TLC finds `OpenRunIsWorked`, `SleepCoversDue`
and `PassReachesEach` violated, and with `ClockMovesInside = TRUE` `NextSlotIsFresh`,
`NextSlotFollowsSchedule` and `PassReachesEach`, in the configurations of `SchedSafety` and
`SchedLive` with that constant changed.

The constant assumption is `ConstantAssumption` of `ScheduledTasks` (types of the
bounds; periods and delays positive), which TLC evaluates in each run.

## Chat turns and approvals

`ChatTurn` models the turns of one thread; threads do not interact, since every map and
table is keyed by thread.  A turn, its token and its assistant message share a number.

| code | actions |
|---|---|
| `submit_chat_message_inner`: `try_register`, save, spawn | `Register`, `PlaceMessage`, `MarkStreaming`, `SaveFails` |
| `run_turn` event loop | `RequestApproval` and `FlushAwaiting`, `FlushAgain`, `ExpireApproval`, `Completed`, `UserClickedStop` |
| `run_turn` ending | `Interrupt`, `WriteFinalMessage`, `WriteFinalStatus`, `FinishTurn`, `CompleteMessage` |
| `cancel_chat_turn` | `StopTurn` |
| `archive_thread_record` | `ArchiveBegin`, `ArchiveEnd` |
| `answer_chat_approval_inner` | `AnswerRead`, `AnswerCapture`, `AnswerRecheck`, `AnswerNative` or `AnswerCancels` and `AnswerWaits`, `DeriveRead`, `DeriveRegistered`, `Settle` |
| `resolve_runtime_approval` (Codex) | `ResolveRead`, `ResolveCommit` |
| exit, `recover_runtime_state` | `Exit`, `Start` |
| the agent gives up a request (external) | `NativeDrops` |

Abstractions.  "accept" stands for every decision that does not cancel.  The status
`error` of threads and messages is absent: in the present `run_turn` an error event, a
failed turn or fifteen silent minutes only add a notice, and a turn ends by a completion
or by the user's stop.  Consecutive reads of one answer are one step where a later
re-reading in the code (`AnswerRecheck`) makes an interleaving between them
unobservable, or where they share one database task (`DeriveRead`).  A status of the thread that a
flush failed to write stays dirty, and the flush of a later event writes it (`FlushAgain`).
Three parts of the state are history that the code does not keep, and no step is guarded by them:
`asking` of a handler (the turn that asked ran when the answer read its message), `late` (the
answers, and the report, that read the thread before the end of a turn was written and have still
to save) and `outdated` (one of them saved after that end).  The agent is the
variable `native`: a request is open until it is accepted, cancelled or dropped.
Content blocks, attachments, steering, Codex review turns, deletion of a thread and the
remote-thread mirror are not modelled.

`ApprovalLedger` is the abstract specification of an approval.  It knows no turn's steps, no
answer and no status of a thread; it has the two sides of the approval, the row and the request
at the agent, and the ties between them: the agent is told only of a request the user was shown,
an acceptance is written after the agent took it, and a row is expired, or closed without a
decision, only when the agent no longer waits.  A cancellation may be written though the agent
never heard it: the code falls back to stopping the turn.  `LedgerSpec` maps `approval` and
`native` to it as they are.

### Runs

| run | bounds | shows |
|---|---|---|
| `ChatSafety` | 1 turn, 1 approval, 1 answer at a time, 1 exit, faults, archive, reports, fairness | `TypeOK`; `AcceptanceIsReal`: an acceptance is recorded only when the agent took it; `SettledStays`: the first of answers, expiry and report stays; `LedgerSpec`: table and agent keep the promises of `ApprovalLedger`; `StopEnds`: a stopped turn ends and gives its registration back |
| `ChatQuiet` | 2 turns, 1 approval, 2 answers at once, 1 exit, reports | `LiveTurnIsRegistered`; `CapturedTokenIsOwn`: the cancellation of the approval of a turn that is over stops no newer turn; `RestShowsTheEnd`: a thread at rest shows how its latest turn ended or that an approval waits |
| `ChatArchive` | 2 turns, archive | violation of `OneTurnAtATime` |

Two turns are enough for an old approval to meet a newer turn and for one registration to
be lost to another; two answers, for one to settle the row while the other is under way.  The
answers run the same code, hence the symmetry of `ChatQuiet`.  All runs have every interleaving of
turns, answers and reports; what the constants leave out is database faults and archives in
`ChatQuiet`, and a second turn in `ChatSafety`.  Deadlock is not checked: when all
turns are used up and the last exit is done the model rests.

Two properties of `ChatQuiet` make an exception, and both exceptions happen (see *Where code and
its comments disagree*):

* `CapturedTokenIsOwn` lets a cancellation take the token of another turn when the turn that asked
  ran while the answer read its message (`cli_tools/mcp.rs:6026-6050`) and was over when it asked
  for the token (6056-6064), with a newer turn registered in between.  In every other case the token
  is that of the turn that asked.
* `RestShowsTheEnd` says nothing after an answer or a report that had read the thread before the end
  of a turn and saved after it: the thread may then stay `streaming` with no turn, until the next
  turn or start writes its status.  Without such a step the promise holds, whatever else overlaps.

### Fairness

`FairSpec` assumes weak fairness of the steps of a saved and of a running turn that the
backend takes by itself, of the steps of an answer, and of the resolver's transaction.
Each wait among them has a timeout (interrupt ten seconds, task cleanup one second, cleanup
wait thirteen seconds).  Reports of the agent, user actions and restarts are not fair.

### What is proved

`ChatTurnProofs`, for any numbers of turns, approvals and handlers:

* `ChatTypeCorrect`: `Spec => []TypeOK`;
* `LiveTurnRegistered` and `OneTurnRuns`, under `~ArchiveEnabled`: a turn is registered
  from `try_register` to `turns.finish`, hence two never run.  The inductive invariant is
  `RegistrationInv`; the run `ChatArchive` shows that the assumption cannot be dropped.
* `AcceptancesAreReal`: `Spec => []AcceptanceIsReal`, with faults, archive and
  reports as the constants allow.  The invariant `AcceptanceInv` adds that an approval is
  requested before it has a state at the agent, that an answer under way has an existing
  row, that an acceptance holds no token, and that a reply "answered" to an acceptance
  means that the agent took it.
* `FirstSettlementStays`: `Spec => SettledStays`, from `SettlementInv`: only an answered
  row has a decision.

* `ImplementsApprovalLedger`: `Spec => LedgerSpec`, with every race, fault, archive, report and
  exit.  Its invariant `LedgerInv` takes `AcceptanceInv` and `UnsettledIsUndecided` and adds
  that a request has a row exactly when the agent was asked (`AskedOnBothSides`), that an answer
  under way is about a request the user was shown, and about one that is over if it was found
  expired (`AnswersShown`), and that a report is about one that is over (`ReportShown`).

`ChatTurnRestProofs` adds the two other invariants of `ChatQuiet`, under `Quiet` (no database fault
and no archive), for any number of turns, approvals, answers at once and exits, in every
interleaving:

* `CapturedTokens`: `Spec => []CapturedTokenIsOwn`;
* `RestShowsEnd`: `Spec => []RestShowsTheEnd`.

Their invariant `QuietInv` follows the end of a turn through its five writes.  `TurnsInv` says that
nothing is under way while the application is down (`DownIsQuiet`), that turns register in order
(`TurnsInOrder`), that a message belongs to a turn that has begun (`MessageFollowsTurn`), that the
ending is in the message before the thread shows it (`EndIsWritten`), and that a message that streams
is that of a turn in its loop (`StreamingIsLive`).  From the last one follows `AnswersHold`: the token
an answer holds is that of the turn that asked (`AskerIsTurn`), or that turn has ended since, and a
turn that ended never runs again (`OverStaysOver`).  `ReadingsHold` and `ReportHolds` keep what an
answer or a report read true until it is saved, unless a turn has yet to write its end over it or the
reader is late; late stays late until it saves (`LateStays`).  `ThreadShows` is the conclusion while a
turn has nothing more to write (`NothingDue`).  `Quiet` has two conjuncts and each is needed: with
`Faults` or `ArchiveEnabled` set to TRUE alone in `ChatQuiet`, TLC finds both properties violated.
`LiveTurnIsRegistered` fails with `ArchiveEnabled` in the same way.

The assumption on constants is `ChatConstants` of `ChatTurn`.

## Codex engine

`CodexEngine` models `send_message` of `engines/codex.rs` for all threads, with the one
app-server connection they share.  Connections are numbered in the order they are opened; a
turn is the `turn/start` request it begins with.

| code | actions |
|---|---|
| `send_message` entry | `Send` |
| `ensure_ready_transport`: live transport, `transport_spawn_lock`, second look, spawn | `Look`, `IsAlive`, `Lock`, `Spawn`, `SpawnFails` |
| `ensure_initialized`, attempts | `Initialized`, `InitializeFails` |
| `invalidate_transport` | the `Forget` in a step, then `Shutdown` (of the answer: `AnswerShut`; of an aborted call: `Released`) |
| subscription and the `turn/start` task | `Subscribe`, `SendStart`, `StartTimesOut` |
| select loop | `TakeResponse`, `TakeResult` (a `turn/start` result that ends the turn), `StartRefused`, `RecvStarted`, `RecvCompleted`, `RecvAuth`, `RecvAsk`, `RecvBreak`, `Finish` |
| reconciliation of a broken turn by reading the thread | `ReadTurns` |
| `run_turn` (`cli_tools/mcp.rs`): its end, the user's stop with its `interrupt`, the abort of the task after the grace period | `Delivered`, `Stop`, `Abort` |
| `respond_to_approval` | `AnswerLook`, `AnswerSend`, `AnswerDead`, `AnswerShut` |
| reader of `codex_transport.rs` | `ParseError`, `Eof`; the delivery itself is part of each server step |
| the app-server (external) | `ServerStarts`, `ServerRefuses`, `ServerResponds`, `ServerAsks`, `ServerCompletes`, `ServerErrs`, `LoginLost`, `ServerDies` |

Abstractions.  The reader task and the pump of a call keep the order of what the server
writes, so a line and its delivery are one action, and the broadcast channel and the pump's
queue are one queue of `Capacity` items (640 in all in the code) whose overflow is the item
"lagged".  What is said of a turn carries its thread and reaches the calls of that thread; a broken
line, the end of the stream and a lost login carry none and reach every call (`codex.rs:131-133`).
The result of `turn/start` is taken as a response or as the end of the turn, and an end that names a
refused login also resets the transport in the same step.  A process is live, exited (dead, its end of stream not yet read) or closed.
`run_turn` runs one call of a thread at a time, which `ChatTurn` shows.

The user's stop is that of the live code (`cli_tools/mcp.rs:5093-5187`; the block before it, lines
4739-5091, is commented out): `run_turn` calls `interrupt` once, waits a second at most for
`send_message` to return and then aborts its task.  The token of `send_message` is not cancelled
(comment at line 5114), and an error of `send_message` alone ends no turn.  `run` of a thread is "on"
while `run_turn` observes, "grace" after the stop or the end of the turn, and "rest" when both are over.
An `interrupt` without a transport or an active turn is Ok and does nothing; it is one step here.  A task that
is aborted between taking a connection out of use and killing it leaves the connection in `dropped`:
the last reference to it kills the process, and the runtime monitor holds one until the end of the
stream.  The `turn/start` request is a task of its own that the abort does not reach: one not yet sent is
sent in the abort's step (`SendLoose`).  `settled` is history: the threads whose call finished, or had
returned when the interrupt of a stop answered.

Not modelled: rate limits, steering, review turns, sub-agent threads, the runtime monitor, the
inactivity timeout (off by default), the details of the websocket transport, the suppression of
archive events, and the resend without plan mode.

`AppServers` is the abstract specification of the processes: one connection is in use, the next is
opened after it was taken out of use, and what was taken out is killed once and never used again.
It knows no thread, lock, call or answer; "doomed" are the connections tasks have taken out of the
state and are about to shut down, or were aborted before they did (`Doomed`, read off the calls, the
answer under way and `dropped`).  A task
may take out a connection newer than the one it found broken, since `invalidate_transport` takes
whatever is current: `Retire` allows that, and no property here says that a healthy connection is
left alone.

| run | bounds | shows |
|---|---|---|
| `CodexSafety` | 2 threads, 2 connections, 2 turns, queues of 1, 1 failure, 1 stop | `TypeOK`, with the bound of a queue; `OneServer`: a live app-server that is not the current one is about to be killed, or was left by an aborted task to its last reference; `EndsByOwnThread`: a call is ended only by the end of a turn of its own thread on its own connection; `RestHasNoTurn`: a call that finished, or had returned when a stop interrupted its turn, leaves no active turn on the current connection; `ServersSpec`: the processes keep the promise of `AppServers` |
| `CodexLive` | 1 thread, 2 connections, 2 turns, 1 failure, 1 stop, 1 approval, fairness | `AnswerReachesAsker`: an approval answer goes to the connection that asked; `CallEnds`: a call that listens to a dead connection returns, and a turn the user stops comes to rest |

`RestHasNoTurn` is silent about a call a stop aborted and about one whose interrupt failed, with reason:
an interrupt that comes before the turn is known does nothing, and the response may set the active
turn within the grace period, so that the thread rests with one.

The threads are interchangeable, hence the symmetry of `CodexSafety`.  Two of them let one replace the
connection another listens to; two connections are a
connection and its replacement; two turns, an event of an earlier turn in the queue of a later
one; a queue of one item lags with the second.  `Attempts = 2` for
`TRANSPORT_RESTART_MAX_ATTEMPTS = 3`: the count only says when the last attempt comes.
Deadlock is not checked: with turns and connections used up the engine rests.

`FairSpec` assumes weak fairness of the engine's own steps of a call (its requests have
timeouts), of `run_turn`'s end of a turn and its abort (a timer of one second), of the steps of an
answer and of the end of the stream, and strong fairness of the spawn lock (tokio's `Mutex` serves its
waiters in order).  Nothing is assumed of the app-server, of the user, or of when the last reference
to a dropped connection goes.

`CodexEngineProofs` proves, for any number of threads, connections, turns, queue slots,
failures and stops: `CodexTypes`, `SingleServer` (`OneServer`), `EndsOwn`
(`EndsByOwnThread`), `AnswersReach` (`AnswerReachesAsker`), `RestClean`
(`RestHasNoTurn`) and `ImplementsAppServers` (`Spec => ServersSpec`).  The inductive invariant is `CodexInv`: a task spawns only with the lock
held and no current connection (`SpawnFit`, without which a second server could appear
between the two looks), what is queued belongs to the thread and the connection of the call
(`QueueFit`, and with it `EndFit`), a request that was answered as over is of a turn that is over
(`CallFit`), a settled thread has no call and no active turn on the current connection (`RestFit`), a
thread at rest has no call (`RunFit`, so that no late step of one undoes `RestFit`), what is active or
was sent names a turn and a connection that exist (`ActiveFit`, `TurnsFit`), and a card names a
connection on which its turn asked (`CardsFit`).
The implementation of `AppServers` needs `VictimsApart` beside it: two tasks never hold the same
victim and a victim is never the current connection, so that each `Shutdown` kills one doomed
connection and leaves the others doomed.

## MCP gateway

`McpGateway` models `mcp_gateway.rs` and its callers.  Every lock there is held for a
statement, so a statement is an action; only start and shutdown hold the operation lock
throughout.

| code | actions |
|---|---|
| `start`, `shutdown`, accept loop | `StartBegin`, `ShutdownBegin`, `ClearClients`, `DrainCalls`, `Bind`, `AcceptFails` |
| `register`: generation read, lease inserted, old calls purged | `RegisterRead`, `RegisterInsert`, `Purge` |
| `revoke_client` | `RevokeRemove`, `Purge` |
| trusted context around a turn | `TurnBegin`, `TurnEnd` (cleared once, `cli_tools/mcp.rs:5325-5334`) |
| `handle_request`, `call_cli_tool`, `notifications/cancelled` | `Authenticate`, `CallRefused`, `CallBegin`, `CallEnd`, `CancelNotice` |

Abstractions.  A request is given the copy of the lease it saw at authentication; the body is
read and the call entered afterwards, with that copy.  MCP sessions (which only refuse), the
tool catalogue, ports and the tools themselves are left out.  The table of calls is keyed by token and
JSON-RPC id (`mcp_gateway.rs:1119`), and each MCP session numbers its own requests, so any two
requests under one lease may have the same id: the second takes the place of the first in the table,
and whichever ends first takes the entry away.  Two fields of a request are history that the code does
not keep: `late` (the lease left the table between authentication and call) and `lost` (another call
with the same key took over or took away its entry).  A request is authenticated while its turn is
on; one that an agent sends after the end of its turn is not modelled.
In production the service is started once (`lib.rs:291`) and `restart` has no caller; a second
start takes a failed accept loop or the shutdown at the exit, and the model allows it.

| run | bounds | shows |
|---|---|---|
| `GatewaySafety` | 2 CLIs, 3 turns, 2 requests, 2 ids, 2 leases, 2 starts, turns of one CLI one after another | `LeasePerInstance`: a CLI has at most the lease its service holds; `ContextIsCallers`: a tool runs in the name of the turn that asked; `ContextStaysWithCli`: the context on a lease is that of an open turn of its CLI, and a request carries a context of its own CLI only; `RevokeReachesCalls`: a call entered before its lease left the table is cancelled once the purge is over, unless another call displaced its entry; `CancelHitsOwn`: a notice reaches the call it names, and no other while that call has its entry; what it hits otherwise is a running call of the same CLI under the same lease |
| `GatewayOverlap` | the same, turns of one CLI overlap | violation of `ContextIsCallers` |

Two turns on one CLI and one on another are the least that tell "the same lease" from "the same
turn"; two leases are a lease and its successor; two requests and two ids are a shared key and
distinct ones.  Requests, ids and the two turns of one CLI are interchangeable, hence the symmetry.
No fairness is assumed: the module has no liveness property.  Deadlock is checked.

`McpGatewayProofs` proves for all CLIs, turns, requests and bounds, whatever keys coincide and turns
overlap: `GatewayTypes`, `OneLease` (`LeasePerInstance`), `ContextOfOneCli` (`ContextStaysWithCli`),
`RevocationReaches` (`RevokeReachesCalls`) and `NoticeHitsOwn` (`CancelHitsOwn`).  Only
`CallersContext` (`ContextIsCallers`) assumes `~Overlap`, and needs it: that is `GatewayOverlap`.
`ContextOfOneCli` says how far the mixing of contexts goes when turns overlap: it stays within one CLI.

The strengthenings are `LeaseInv` (a service holds an issued token of its own), `ContextInv` (without
overlap one turn of a CLI is open, `TurnsApart`, a context on a lease is that of an open turn of the
lease's CLI, `ContextIsOpen`, and so what a request copies is its own turn's context or none,
`CopiesOwn`; with overlap only `CopiesOfCli` is left of it) and `RevokeInv`: a token belongs to one CLI
(`TokensApart`), the call table holds running calls only, one under a key, and every running call
that was not displaced, save those cancelled (`TableIsRunning`), and such a call whose lease went is
cancelled or has a purge or the clearing of the tables under way (`PurgeIsUnderWay`).

## SSH services

`SshServices` models the service of one SSH connection and CLI; services do not interact, since
every map is keyed by the pair.

| code | actions |
|---|---|
| a command, refresh or exit begins; a connection is disabled or deleted (saved before its services are unregistered), or enabled again | `StartJob`, `Enable` |
| `register_cli_tunnels` (opens a forward without the lock, adds it if the place is free) | `OpenTunnel`, `OpenFails` |
| `set`, `ensure_remote_cli_service_running` | `SetReuses`, `SetRefused`, `SetOnRunning`, `SetStarts`, `StartCommand`, `WaitReady`, `WaitFails`, `StartFailed` |
| `terminate` (in restart, exit and health check) | `TerminateMissing`, `TerminateBegin`, `TerminateEnd`, `TerminateRevoke`, `TerminateFails` |
| `unregister_service`, `remove_after_unregister` | `UnregisterBegin`, `UnregisterLeave`, `UnregisterRevoke`, `UnregisterEnd` |
| the health loop: the connections that are enabled and not deleted, `reconcile_health` of one | `HealthLists`, `HealthBegin`, `HealthProbe`, `HealthOrphans` |
| exit of the application, crash, death of the remote process | `ExitDrain`, `Crash`, `RemoteDies` |

Abstractions.  The mutation lock is held from a Begin action to the matching End.  An SSH
command that fails may have had its effect or not.  The remote process survives a crash, which
forgets everything else.  `enabled` is the saved state of the connection: a registration begins only
when it is enabled, but one that is under way when the connection is disabled goes on.  The gateway is the set `leases` of tokens it accepts
(`McpGateway` shows that a new lease replaces the old one).  The use counts of the tunnel
registry are left out: no production code acquires one.  A dead forward with a live SSH
connection is not modelled, since the code never looks for one.

`RemoteService` is the abstract specification.  It knows no callers, lock, jobs or commands; it has
one service with a phase (off, starting, ready, stopping), a lease and a forward, the lease the
living process was started with, and the leases the gateway accepts.  A service begins with a new
lease, the only one accepted; its process is started for that lease before it is ready; the lease
ends with the service.  `Attach` is the early return of `set` on a forward that says Running: the
service is ready and no process serves it, but none of an earlier service does either.  The phase
is read off the registered service or, while there is none, the job that holds the lock and starts
the service or still has to revoke its lease (`ServicePhase`).

| run | bounds | shows |
|---|---|---|
| `SshSafety` | 2 callers and the health loop, 3 leases, 2 forwards, 1 failing command, crashes, deaths, fairness | `LeaseIsOwned`: the gateway accepts exactly the lease of the service, of the start under way or of the entry just removed, which goes next; `ProcessIsServices`: a live process behind a service was started for it; `TunnelIsRegistered`: a service uses the forward of the registry; `ServiceSpec`: the tasks keep the contract of `RemoteService`; `DeadServiceLeaves`: a service whose process died leaves, or its connection is disabled |
| `SshRestart` | 1 caller, no failures | violation of `RestartServes` |

Two callers and the loop give every pair of jobs, one of them waiting for the lock; three leases
are a service, its successor and one issued to a failed start; two forwards are a winner and a
loser, or one from before and one from after a crash.  When the leases are used up a further
`set` is refused, and jobs go on; deadlock is checked.

`DeadServiceLeaves` excepts a disabled connection because the loop passes it by: a registration that
was opening its forward when the connection was disabled may enter a service there, and when its
process dies nothing removes the entry until the connection is enabled again or the application ends.

`FairSpec` assumes weak fairness of each caller's step and of the health loop, and strong
fairness of the loop's steps under the lock (tokio's `Mutex` is FIFO).

`SshServicesProofs` proves for any number of callers, leases, forwards and failures
`SshTypes`, `LeaseOwned`, `ProcessOfService`, `TunnelOfService` and `KeepsServiceContract`
(`Spec => ServiceSpec`), all from `SshInv`.  Its
least obvious parts are `EntryRuns` (a service runs through the forward of the registry) and
`LeftIsDead`: a forward left Running after its service went has no live process, except while an
unregistration is about to close that forward.  That is why
the early return of a later `set` never serves a foreign process; it serves none, which is
what `SshRestart` shows and `Attach` of the contract demands.

## How the modules meet

The components are checked one by one; no module composes two of them and no theorem speaks of
two.  What a module takes for granted of its neighbour is stated here with the property of the
neighbour that covers it.  `CodexEngine` has one call of a thread at a time: `LiveTurnRegistered`
of `ChatTurn` (without archives).  `SshServices` has one accepted lease per CLI, the one issued
last (`leases' = {issued + 1}`): `OneLease` of `McpGateway`.  It has no restart of the gateway, which
voids every lease: the application starts the gateway once and shuts it down at its exit
(`lib.rs:291`, `lib.rs:735`), and only tests restart it.  Two neighbours are left free, so that nothing is assumed: `ScheduledTasks` lets the
target thread be busy or not and its turn end in any way at any time, and `ChatTurn` lets the agent
answer, refuse, drop or never resolve an approval.

## Where code and its comments disagree

Three runs are counterexamples, and findings of `PROJECT.json` with the quoted text:

* `ChatArchive`: archiving removes the registration of a turn that is still winding down
  (`cli_tools/mcp.rs:1346`), and a second turn starts beside it;
* `GatewayOverlap`: the trusted context is a field of the lease, which all turns of a CLI share
  (`mcp_gateway.rs:216`), so that a tool call of one thread is made in the name of another;
* `SshRestart`: `terminate` leaves the service state of the forward Running
  (`ssh/cli_tunnel_registry.rs:833`), and the `set` that follows starts nothing.

Others were met while modelling and have no run of their own:

* a run that waits for a confirmation when the application ends is not among those recovery
  closes (`db/scheduled_tasks.rs:443`, against the comment at
  `services/scheduled_task_service.rs:403`); its task stays blocked.  `Recover` does the same;
* one claim that fails ends the whole pass (`scheduled_task_service.rs:485`, against the comment
  at line 449), and with the clock moving between its two readings a claim fails on the UNIQUE
  slot without any database fault: set `ClockMovesInside = TRUE` in `SchedLive` or
  `SchedSafety`;
* enabling a task reads its schedule, awaits, and writes the slot it computed
  (`scheduled_task_service.rs:190-222`): after an update that committed in between, `next_run_at` is
  a slot of the old schedule until the next claim.  `NextSlotFollowsSchedule` excepts exactly this
  (`OvertakenEnable`);
* the thread status saved with an answer is derived before the transaction that saves it
  (`cli_tools/mcp.rs:5914`, against the comment at line 1520), and a turn may write its end in
  between: the thread is then left `streaming` with no turn.  `RestShowsTheEnd` excepts it
  (`outdated`);
* an answer reads that its message is the streaming one (`cli_tools/mcp.rs:6026-6050`) and then takes
  the token of whatever turn is registered (6057-6061), against the comment at line 6056: when the
  turn that asked ends in between and another registers, the cancellation stops the new one.
  `CapturedTokenIsOwn` excepts it (`asking`);
* an approval left pending by an earlier turn takes the thread back to `awaiting_approval` at the
  next start (`services/thread_service.rs:309`), and answering it need not bring the thread out
  of it, against `db/actions.rs:475`; `Start` and `DeriveStatus` do the same.

## Limits

TLAPS proves neither liveness under fairness nor ENABLED, cannot instantiate the
induction principles over data, and loses its arithmetic backend behind RECURSIVE
operators; no module here has one.  So the liveness properties `QueuedRunLeaves`,
`DueTaskIsClaimed`, `StopEnds`, `DeadServiceLeaves` and `CallEnds` are model-checked only.
Every safety property of a run, action properties and implementations of abstract
specifications included, is also a theorem.  Where a theorem has a hypothesis on the constants
(`~Faults`, `~ClockMovesInside`, `~ArchiveEnabled`, `Quiet`, `~Overlap`) the section of its
module says how TLC shows that it is needed.  Where a property makes an exception for an
interleaving in which the code does not keep it, the section of its module names the interleaving and
its lines.  The abstract specifications `RunLedger`, `ApprovalLedger`,
`AppServers` and `RemoteService` are safety only: they say nothing of what must happen.

## Not modelled

The Rust backend alone is some 120 000 lines, most of them the protocols, parsers, formatting
and user-interface glue of a dozen agents and views.  The modules cover the places where several
tasks share state and an order of steps can go wrong; by lines that is a small share of the
whole, and the larger part of the rest has no protocol state to check.  `PROJECT.json` gives a
reason for each component; the main ones are:

* the event mappers and adapters of Codex, Claude Code and OpenCode, and the sidecars:
  translation of messages, input to output;
* the content of messages: blocks, their streaming merge, attachments (the race at
  `db/messages.rs:528` is a hazard without a property for that reason);
* the mirror of remote Codex threads, deletion of threads, steering and review turns;
* start, idle stop and probing of local agent processes, keep-awake, relay, terminal, extension
  refresh: they have state worth a module, and are in the plan;
* SSH files and git, workspaces, settings, update, packaging: single calls on the outside world;
* the desktop front end and the mobile client.

## Plan

1. The Codex mirror of remote status (`apply_runtime_thread_update`: a check of the
   registration and a later write) and deletion of a thread, as further actions of `ChatTurn`;
   the card of an approval in the blocks `run_turn` holds.
2. `ScheduledChat`: `ScheduledTasks` and `ChatTurn` with the busy check, the registration,
   `needs_confirmation` and the settlement by message as shared steps; property: a run follows
   the end of its own turn.
3. `LocalService`: use count and idle stop of a local agent process against an abstract lease
   specification that `SshServices` implements too.
4. `KeepAwake`: wanted and actual lock with samples in any order; `Relay`: desktop, relay and
   mobile sockets with reconnection; `Terminal`: attach and replay.

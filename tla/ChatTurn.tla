------------------------------ MODULE ChatTurn ------------------------------
(***************************************************************************)
(* The life of the chat turns of one thread: the registration of a turn in *)
(* TurnManager, the messages it saves, the event loop of run_turn and its  *)
(* ending, the approvals the agent asks for, the handlers that answer them *)
(* and the reports that they are resolved, the stop button, archiving, and *)
(* the exit and start of the application.  Threads do not interact: every  *)
(* map is keyed by thread.                                                 *)
(*                                                                         *)
(* A turn, its cancellation token and its assistant message share one      *)
(* number, given in the order in which turns register.  The agent (engine) *)
(* is outside src-tauri: `native` is what it holds of an approval.         *)
(***************************************************************************)
EXTENDS Naturals, FiniteSets

CONSTANTS
    MaxTurns,        \* bound: turns ever registered
    MaxApprovals,    \* bound: approvals ever asked for
    Handlers,        \* concurrent calls of answer_chat_approval
    MaxCrashes,      \* bound: exits of the application
    Faults,          \* TRUE: a database call may fail
    ArchiveEnabled,  \* TRUE: the user may archive the thread
    AgentResolves    \* TRUE: the agent reports resolved approvals (Codex does)

Turns     == 1..MaxTurns
Approvals == 1..MaxApprovals
Resolver  == "resolver"

ASSUME ChatConstants ==
    /\ MaxTurns \in Nat /\ MaxApprovals \in Nat /\ MaxCrashes \in Nat
    /\ {Faults, ArchiveEnabled, AgentResolves} \subseteq BOOLEAN
    /\ Resolver \notin Handlers

VARIABLES
    threadStatus,  \* threads.status
    message,       \* messages.status of the assistant message of each turn
    approval,      \* the approvals table
    native,        \* external: the approval as the agent holds it
    active,        \* TurnManager.active of the thread: a turn, 0 for none
    cancelled,     \* the tokens on which cancel() was called
    turn,          \* where submit_chat_message_inner and run_turn stand
    handler,       \* the calls of answer_chat_approval_inner
    resolver,      \* resolve_runtime_approval between its reads and its transaction
    archiving,     \* archive_thread_record is between its cancel and its finish
    up, crashes,
    late,          \* history: the answers and the report that read the thread before
                   \* the end of a turn was written and have still to save
    outdated       \* history: one of them saved after that end

dbVars   == <<threadStatus, message, approval>>
turnVars == <<active, cancelled, turn>>
appVars  == <<resolver, up, crashes, late, outdated>>
vars     == <<threadStatus, message, approval, native, active, cancelled, turn,
              handler, resolver, archiving, up, crashes, late, outdated>>

-----------------------------------------------------------------------------
ThreadStatus  == {"idle", "streaming", "awaiting_approval", "completed"}
MessageStatus == {"none", "streaming", "completed", "interrupted"}
ApprovalRow   == [turn : 0..MaxTurns,
                  status : {"none", "unsaved", "pending", "answered", "expired"},
                  decision : {"none", "accept", "cancel"}]
TurnRow == [pc : {"none", "registered", "placed", "observe", "flush", "interrupt",
                  "finalMessage", "finalThread", "finish", "complete",
                  "done", "failed", "dead"},
            asked  : BOOLEAN,     \* last_persisted_thread_status = AwaitingApproval
            ending : {"none", "completed", "interrupted"}]

IdleHandler == [pc |-> "idle", approval |-> 0, decision |-> "none", current |-> FALSE,
                token |-> 0, reply |-> "none", others |-> FALSE, seen |-> "none",
                status |-> "idle", mark |-> "none", asking |-> FALSE]

HandlerRow == [pc : {"idle", "capture", "recheck", "native", "wait", "read",
                     "registered", "settle"},
               approval : 0..MaxApprovals,
               decision : {"none", "accept", "cancel"},
               current  : BOOLEAN,             \* a cancellation, and
                                               \* approval_is_current_assistant
               token    : 0..MaxTurns,         \* active_turn
               reply    : {"none", "answered", "expired"},
               others   : BOOLEAN,             \* other_pending > 0
               seen     : MessageStatus,       \* current_message.status
               status   : ThreadStatus,        \* the derived pair
               mark     : {"none", "interrupted"},
               asking   : BOOLEAN]    \* history: the turn that asked ran when it was read

ResolverRow == [approval : 0..MaxApprovals,
                live     : BOOLEAN]          \* has_local_turn
NoResolver  == [approval |-> 0, live |-> FALSE]

TypeOK ==
    /\ threadStatus \in ThreadStatus
    /\ message \in [Turns -> MessageStatus]
    /\ approval \in [Approvals -> ApprovalRow]
    /\ native \in [Approvals -> {"none", "open", "accepted", "cancelled", "dead"}]
    /\ active \in 0..MaxTurns
    /\ cancelled \subseteq Turns
    /\ turn \in [Turns -> TurnRow]
    /\ handler \in [Handlers -> HandlerRow]
    /\ resolver \in ResolverRow
    /\ archiving \in BOOLEAN
    /\ up \in BOOLEAN
    /\ crashes \in 0..MaxCrashes
    /\ late \subseteq Handlers \cup {Resolver}
    /\ outdated \in BOOLEAN

NewTurn == [pc |-> "none", asked |-> FALSE, ending |-> "none"]
NoRow   == [turn |-> 0, status |-> "none", decision |-> "none"]

Init ==
    /\ threadStatus = "idle"
    /\ message = [m \in Turns |-> "none"]
    /\ approval = [a \in Approvals |-> NoRow]
    /\ native = [a \in Approvals |-> "none"]
    /\ active = 0
    /\ cancelled = {}
    /\ turn = [m \in Turns |-> NewTurn]
    /\ handler = [h \in Handlers |-> IdleHandler]
    /\ resolver = NoResolver
    /\ archiving = FALSE
    /\ up = TRUE
    /\ crashes = 0
    /\ late = {}
    /\ outdated = FALSE

Saved == {m \in Turns : message[m] # "none"}

\* latest_chat_assistant_message_id
IsLatest(m) == m \in Saved /\ \A n \in Saved : n <= m

Pending(a) == approval[a].status = "pending"

Live(m) == turn[m].pc \in {"registered", "placed", "observe", "flush", "interrupt",
                            "finalMessage", "finalThread", "finish"}

\* A turn runs and has its final status still to write.
EndDue == \E m \in Turns : Live(m) /\ turn[m].pc # "finish"

(* The history of the answers and of the report that a turn overtook.       *)

\* A turn writes its final status: whoever has read the thread is late.
Overtake ==
    /\ late' = late \cup {h \in Handlers : handler[h].pc \in {"registered", "settle"}}
                    \cup (IF resolver.live THEN {Resolver} ELSE {})
    /\ outdated' = FALSE

\* Whoever finds a turn registered that has written its final status is late.
FindsEnded(who) == late' = IF active # 0 /\ ~EndDue THEN late \cup {who} ELSE late

Saves(who, saved) ==
    /\ late' = late \ {who}
    /\ outdated' = (outdated \/ (saved /\ who \in late))

-----------------------------------------------------------------------------
(* submit_chat_message_inner: the second registration of the thread is     *)
(* refused, the messages are saved one statement at a time.                *)

Goto(m, pc) == turn' = [turn EXCEPT ![m].pc = pc]

\* Mutant: the entry of the thread is replaced, not refused.
RegisterOver(m) ==
    /\ up
    /\ turn[m].pc = "none" /\ \A n \in Turns : n < m => turn[n].pc # "none"
    /\ active' = m
    /\ Goto(m, "registered")
    /\ UNCHANGED <<dbVars, native, cancelled, handler, archiving, appVars>>

Register(m) ==
    /\ up
    /\ active = 0
    /\ turn[m].pc = "none" /\ \A n \in Turns : n < m => turn[n].pc # "none"
    /\ active' = m
    /\ Goto(m, "registered")
    /\ UNCHANGED <<dbVars, native, cancelled, handler, archiving, appVars>>

PlaceMessage(m) ==
    /\ turn[m].pc = "registered"
    /\ message' = [message EXCEPT ![m] = "streaming"]
    /\ Goto(m, "placed")
    /\ UNCHANGED <<threadStatus, approval, native, active, cancelled, handler,
                   archiving, appVars>>

MarkStreaming(m) ==
    /\ turn[m].pc = "placed"
    /\ threadStatus' = "streaming"
    /\ Goto(m, "observe")
    /\ UNCHANGED <<message, approval, native, active, cancelled, handler,
                   archiving, appVars>>

\* The registration is given back, what was saved stays: the status of the thread
\* too, when the statement after it is the one that fails.
SaveFails(m) ==
    /\ Faults
    /\ \/ turn[m].pc \in {"registered", "placed"} /\ UNCHANGED threadStatus
       \/ turn[m].pc = "placed" /\ threadStatus' = "streaming"
    /\ active' = 0
    /\ Goto(m, "failed")
    /\ UNCHANGED <<message, approval, native, cancelled, handler, archiving, appVars>>

-----------------------------------------------------------------------------
(* run_turn: only a Completed report and the user's stop end the loop; an  *)
(* error, a failed turn or fifteen silent minutes are shown as a notice.   *)

Observing(m) == turn[m].pc = "observe" /\ m \notin cancelled

\* ApprovalRequested: row, card and status of the thread in one transaction; when
\* it fails the request is dropped and the agent waits.
RequestApproval(m, a) ==
    /\ Observing(m)
    /\ approval[a].status = "none"
    /\ \A b \in Approvals : b < a => approval[b].status # "none"
    /\ native' = [native EXCEPT ![a] = "open"]
    /\ \/ /\ approval' = [approval EXCEPT ![a] = [NoRow EXCEPT !.turn = m,
                                                               !.status = "pending"]]
          /\ message' = [message EXCEPT ![m] = "streaming"]
          /\ threadStatus' = "awaiting_approval"
          /\ Goto(m, "flush")
       \/ /\ Faults
          /\ approval' = [approval EXCEPT ![a] = [NoRow EXCEPT !.turn = m,
                                                               !.status = "unsaved"]]
          /\ UNCHANGED <<message, threadStatus, turn>>
    /\ UNCHANGED <<active, cancelled, handler, archiving, appVars>>

\* flush_stream_state after the request: the thread status is written unless the
\* turn itself has written it before.  This write, and those of the end of the
\* turn, are only logged when they fail.
FlushAwaiting(m) ==
    /\ turn[m].pc = "flush"
    /\ \/ /\ threadStatus' = IF turn[m].asked THEN threadStatus ELSE "awaiting_approval"
          /\ turn' = [turn EXCEPT ![m].pc = "observe", ![m].asked = TRUE]
       \/ /\ Faults /\ ~turn[m].asked /\ UNCHANGED threadStatus
          /\ Goto(m, "observe")
    /\ UNCHANGED <<message, approval, native, active, cancelled, handler,
                   archiving, appVars>>

\* A status that was not written stays dirty: the flush of a later event writes it,
\* whatever became of the approval.
FlushAgain(m) ==
    /\ Observing(m) /\ ~turn[m].asked
    /\ \E a \in Approvals : approval[a].turn = m /\ approval[a].status # "unsaved"
    /\ threadStatus' = "awaiting_approval"
    /\ turn' = [turn EXCEPT ![m].asked = TRUE]
    /\ UNCHANGED <<message, approval, native, active, cancelled, handler,
                   archiving, appVars>>

\* Mutant: a request counts as expired while the agent still waits for the answer.
ExpireOpen(m, a) ==
    /\ Observing(m)
    /\ approval[a].turn = m /\ Pending(a)
    /\ approval' = [approval EXCEPT ![a].status = "expired"]
    /\ UNCHANGED <<threadStatus, message, native, turnVars, handler, archiving, appVars>>

\* ApprovalExpired
ExpireApproval(m, a) ==
    /\ Observing(m)
    /\ approval[a].turn = m /\ native[a] = "dead" /\ Pending(a)
    /\ \/ approval' = [approval EXCEPT ![a].status = "expired"]
       \/ Faults /\ UNCHANGED approval
    /\ UNCHANGED <<threadStatus, message, native, turnVars, handler, archiving, appVars>>

Completed(m) ==
    /\ Observing(m)
    /\ turn' = [turn EXCEPT ![m].pc = "finalMessage", ![m].ending = "completed"]
    /\ UNCHANGED <<dbVars, native, active, cancelled, handler, archiving, appVars>>

\* Mutant: the token is not looked at once an approval was asked for.
StopUnheardAfterRequest(m) ==
    /\ turn[m].pc = "observe" /\ m \in cancelled /\ ~turn[m].asked
    /\ turn' = [turn EXCEPT ![m].pc = "interrupt", ![m].ending = "interrupted"]
    /\ UNCHANGED <<dbVars, native, active, cancelled, handler, archiving, appVars>>

UserClickedStop(m) ==
    /\ turn[m].pc = "observe" /\ m \in cancelled
    /\ turn' = [turn EXCEPT ![m].pc = "interrupt", ![m].ending = "interrupted"]
    /\ UNCHANGED <<dbVars, native, active, cancelled, handler, archiving, appVars>>

\* cli.interrupt answers, fails or times out after ten seconds; the events the
\* agent sends from now on are not read any more.
Interrupt(m) ==
    /\ turn[m].pc = "interrupt"
    /\ Goto(m, "finalMessage")
    /\ \/ native' = [a \in Approvals |->
                       IF approval[a].turn = m /\ native[a] = "open" THEN "dead" ELSE native[a]]
       \/ UNCHANGED native
    /\ UNCHANGED <<dbVars, active, cancelled, handler, archiving, appVars>>

EndStatus(m) == IF turn[m].ending = "completed" THEN "completed" ELSE "idle"

WriteFinalMessage(m) ==
    /\ turn[m].pc = "finalMessage"
    /\ \/ message' = [message EXCEPT ![m] = turn[m].ending]
       \/ Faults /\ UNCHANGED message
    /\ Goto(m, "finalThread")
    /\ UNCHANGED <<threadStatus, approval, native, active, cancelled, handler,
                   archiving, appVars>>

WriteFinalStatus(m) ==
    /\ turn[m].pc = "finalThread"
    /\ \/ threadStatus' = EndStatus(m)
       \/ Faults /\ UNCHANGED threadStatus
    /\ Goto(m, "finish")
    /\ Overtake
    /\ UNCHANGED <<message, approval, native, active, cancelled, handler, archiving,
                   resolver, up, crashes>>

\* turns.finish removes whatever the thread has registered.
FinishTurn(m) ==
    /\ turn[m].pc = "finish"
    /\ active' = 0
    /\ Goto(m, "complete")
    /\ UNCHANGED <<dbVars, native, cancelled, handler, archiving, appVars>>

CompleteMessage(m) ==
    /\ turn[m].pc = "complete"
    /\ \/ message' = [message EXCEPT ![m] = turn[m].ending]
       \/ Faults /\ UNCHANGED message
    /\ turn' = [turn EXCEPT ![m] = [NewTurn EXCEPT !.pc = "done"]]
    /\ UNCHANGED <<threadStatus, approval, native, active, cancelled, handler,
                   archiving, appVars>>

-----------------------------------------------------------------------------
(* cancel_chat_turn and archive_thread_record.                             *)

CancelActive == cancelled' = IF active = 0 THEN cancelled ELSE cancelled \cup {active}

StopTurn ==
    /\ up /\ active # 0
    /\ CancelActive
    /\ UNCHANGED <<dbVars, native, active, turn, handler, archiving, appVars>>

ArchiveBegin ==
    /\ ArchiveEnabled /\ up /\ ~archiving
    /\ CancelActive
    /\ archiving' = TRUE
    /\ UNCHANGED <<dbVars, native, active, turn, handler, appVars>>

\* Whether the archive succeeded or not, turns.finish comes last.
ArchiveEnd ==
    /\ archiving
    /\ active' = 0
    /\ archiving' = FALSE
    /\ UNCHANGED <<dbVars, native, cancelled, turn, handler, appVars>>

-----------------------------------------------------------------------------
(* answer_chat_approval_inner.                                             *)

Asks(h, a, decision, current) ==
    /\ up /\ handler[h].pc = "idle"
    /\ Pending(a)
    /\ handler' = [handler EXCEPT ![h] =
                     [IdleHandler EXCEPT !.pc = "capture", !.approval = a,
                                         !.decision = decision,
                                         !.current = current /\ decision = "cancel",
                                         !.asking = Live(approval[a].turn)]]
    /\ UNCHANGED <<dbVars, native, turnVars, archiving, appVars>>

\* Mutant: the latest message counts as the current one although its turn is over.
ReadLatest(h, a, decision) == Asks(h, a, decision, IsLatest(approval[a].turn))

\* The record is pending; its message and the latest message are read.
AnswerRead(h, a, decision) ==
    Asks(h, a, decision,
         IsLatest(approval[a].turn) /\ message[approval[a].turn] = "streaming")

\* Only the cancellation of the current message takes the token of the turn.
Token(h) == IF handler[h].current THEN active ELSE 0

AnswerCapture(h) ==
    /\ handler[h].pc = "capture"
    /\ handler' = [handler EXCEPT ![h].pc = "recheck", ![h].token = Token(h),
                     ![h].asking = @ /\ Token(h) # 0]
    /\ UNCHANGED <<dbVars, native, turnVars, archiving, appVars>>

AnswerRecheck(h) ==
    /\ handler[h].pc = "recheck"
    /\ handler' = [handler EXCEPT ![h] =
                     IF Pending(handler[h].approval) THEN [@ EXCEPT !.pc = "native"]
                                                     ELSE IdleHandler]
    /\ UNCHANGED <<dbVars, native, turnVars, archiving, appVars>>

\* Mutant: the acceptance is saved whatever the agent said.
RepliesIgnored(h) ==
    LET a == handler[h].approval
    IN  /\ native' = IF native[a] = "open"
                     THEN [native EXCEPT ![a] = "accepted"] ELSE native
        /\ handler' = [handler EXCEPT ![h].pc = "read", ![h].reply = "answered"]

\* The agent took the answer, says it is not pending, or could not be reached.
NativeReplies(h) ==
    LET a == handler[h].approval
        decision == handler[h].decision
    IN  \/ /\ native[a] = "open"
           /\ native' = [native EXCEPT ![a] = IF decision = "accept" THEN "accepted"
                                                                     ELSE "cancelled"]
           /\ handler' = [handler EXCEPT ![h].pc = "read", ![h].reply = "answered"]
        \/ /\ native[a] # "open" /\ UNCHANGED native
           /\ handler' = [handler EXCEPT ![h].pc = "read",
                            ![h].reply = IF decision = "accept" THEN "expired" ELSE "answered"]
        \/ /\ UNCHANGED native
           /\ handler' = [handler EXCEPT ![h] =
                            IF decision = "accept" THEN IdleHandler
                            ELSE [@ EXCEPT !.pc = "read", !.reply = "answered"]]

AnswerNative(h) ==
    /\ handler[h].pc = "native" /\ handler[h].token = 0
    /\ NativeReplies(h)
    /\ UNCHANGED <<dbVars, turnVars, archiving, appVars>>

\* A cancellation goes on whatever the agent said: it cancels the captured token.
AnswerCancels(h) ==
    /\ handler[h].pc = "native" /\ handler[h].token # 0
    /\ cancelled' = cancelled \cup {handler[h].token}
    /\ \/ /\ native[handler[h].approval] = "open"
          /\ native' = [native EXCEPT ![handler[h].approval] = "cancelled"]
       \/ UNCHANGED native
    /\ handler' = [handler EXCEPT ![h].pc = "wait", ![h].reply = "answered"]
    /\ UNCHANGED <<dbVars, active, turn, archiving, appVars>>

\* wait_for_cancelled_chat_turn_cleanup: no cancelled turn is registered any
\* more, or thirteen seconds are over.
AnswerWaits(h) ==
    /\ handler[h].pc = "wait"
    /\ handler' = [handler EXCEPT ![h].pc = "read"]
    /\ UNCHANGED <<dbVars, native, turnVars, archiving, appVars>>

\* Mutant: the status is derived from the message of the approval, the latest or not.
DeriveFromAny(h) ==
    /\ handler[h].pc = "read"
    /\ handler' = [handler EXCEPT ![h].pc = "registered",
         ![h].seen = message[approval[handler[h].approval].turn],
         ![h].others = \E b \in Approvals \ {handler[h].approval} : Pending(b)]
    /\ UNCHANGED <<dbVars, native, turnVars, archiving, appVars>>

\* chat_approval_thread_status, its database reads: an approval of an older
\* message leaves the status of the thread as it is.
DeriveRead(h) ==
    LET a == handler[h].approval
        m == approval[a].turn
    IN  /\ handler[h].pc = "read"
        /\ handler' = [handler EXCEPT ![h] =
             IF IsLatest(m)
             THEN [@ EXCEPT !.pc = "registered", !.seen = message[m],
                            !.others = \E b \in Approvals \ {a} : Pending(b)]
             ELSE [@ EXCEPT !.pc = "settle", !.status = threadStatus]]
        /\ UNCHANGED <<dbVars, native, turnVars, archiving, appVars>>

\* Mutant: the status of the message is taken for one of the thread.
MessageStatusAsThread(status) == status

RestStatus(status) ==
    CASE status = "completed"   -> "completed"
      [] status = "interrupted" -> "idle"
      [] OTHER                  -> "streaming"

\* A streaming message whose turn nobody runs is closed by the cancellation.
Orphan(h) ==
    /\ handler[h].current /\ handler[h].token = 0
    /\ active = 0 /\ handler[h].seen = "streaming"

DeriveStatus(h) ==
    IF Orphan(h) THEN "idle"
    ELSE IF handler[h].others THEN "awaiting_approval"
    ELSE IF active # 0 THEN "streaming"
    ELSE RestStatus(handler[h].seen)

DeriveRegistered(h) ==
    /\ handler[h].pc = "registered"
    /\ handler' = [handler EXCEPT ![h].pc = "settle", ![h].seen = "none",
                     ![h].others = FALSE, ![h].status = DeriveStatus(h),
                     ![h].mark = IF Orphan(h) THEN "interrupted" ELSE "none"]
    /\ FindsEnded(h)
    /\ UNCHANGED <<dbVars, native, turnVars, archiving, resolver, up, crashes, outdated>>

\* settle_chat_approval: one transaction, which a settled approval aborts unless
\* the agent's report settled it and the decision is still missing.
Settleable(h) ==
    LET a == handler[h].approval
    IN  \/ Pending(a)
        \/ /\ handler[h].reply = "answered"
           /\ approval[a].status = "answered" /\ approval[a].decision = "none"

SettleRow(h) ==
    LET a == handler[h].approval
    IN  /\ approval' = [approval EXCEPT ![a].status = handler[h].reply,
                          ![a].decision = IF handler[h].reply = "answered"
                                          THEN handler[h].decision ELSE @]
        /\ threadStatus' = handler[h].status
        /\ message' = IF handler[h].mark = "none" THEN message
                      ELSE [message EXCEPT ![approval[a].turn] = handler[h].mark]

\* Mutant: the transaction does not look at the row it settles.
SettleUnchecked(h) ==
    /\ handler[h].pc = "settle"
    /\ SettleRow(h) /\ Saves(h, TRUE)
    /\ handler' = [handler EXCEPT ![h] = IdleHandler]
    /\ UNCHANGED <<native, turnVars, resolver, archiving, up, crashes>>

Settle(h) ==
    /\ handler[h].pc = "settle"
    /\ \/ Settleable(h) /\ SettleRow(h) /\ Saves(h, TRUE)
       \/ ~Settleable(h) /\ UNCHANGED dbVars /\ Saves(h, FALSE)
       \/ Faults /\ UNCHANGED dbVars /\ Saves(h, FALSE)
    /\ handler' = [handler EXCEPT ![h] = IdleHandler]
    /\ UNCHANGED <<native, turnVars, resolver, archiving, up, crashes>>

-----------------------------------------------------------------------------
(* resolve_runtime_approval: Codex reports an approval resolved, whoever    *)
(* resolved it.  The registration of the turn is read before the           *)
(* transaction, which leaves the decision to the answer under way.         *)

ResolveRead(a) ==
    /\ AgentResolves /\ up /\ resolver = NoResolver
    /\ native[a] \in {"accepted", "cancelled", "dead"} /\ Pending(a)
    /\ resolver' = [approval |-> a, live |-> active # 0]
    /\ FindsEnded(Resolver)
    /\ UNCHANGED <<dbVars, native, turnVars, handler, archiving, up, crashes, outdated>>

ResolveCommit ==
    /\ resolver # NoResolver
    /\ \/ /\ Pending(resolver.approval)
          /\ approval' = [approval EXCEPT ![resolver.approval].status = "answered"]
          /\ threadStatus' = IF resolver.live /\ threadStatus = "awaiting_approval"
                             THEN "streaming" ELSE threadStatus
          /\ Saves(Resolver, TRUE)
       \/ /\ Faults \/ ~Pending(resolver.approval)
          /\ UNCHANGED <<threadStatus, approval>>
          /\ Saves(Resolver, FALSE)
    /\ resolver' = NoResolver
    /\ UNCHANGED <<message, native, turnVars, handler, archiving, up, crashes>>

-----------------------------------------------------------------------------
(* The agent, and the application.                                         *)

\* The agent gives an approval up; its ApprovalExpired event follows.
NativeDrops(a) ==
    /\ up /\ native[a] = "open"
    /\ native' = [native EXCEPT ![a] = "dead"]
    /\ UNCHANGED <<dbVars, turnVars, handler, archiving, appVars>>

Exit ==
    /\ up /\ crashes < MaxCrashes
    /\ up' = FALSE /\ crashes' = crashes + 1
    /\ active' = 0 /\ cancelled' = {} /\ archiving' = FALSE
    /\ turn' = [m \in Turns |->
                  IF turn[m].pc \in {"none", "done", "failed", "dead"} THEN turn[m]
                  ELSE [NewTurn EXCEPT !.pc = "dead"]]
    /\ handler' = [h \in Handlers |-> IdleHandler]
    /\ resolver' = NoResolver
    /\ native' = [a \in Approvals |-> IF native[a] = "open" THEN "dead" ELSE native[a]]
    /\ late' = {}
    /\ UNCHANGED <<dbVars, outdated>>

RecoveredMessages ==
    [m \in Turns |-> IF message[m] = "streaming" THEN "interrupted" ELSE message[m]]

RecoveredStatus ==
    IF \E a \in Approvals : Pending(a) THEN "awaiting_approval"
    ELSE IF \E m \in Turns : IsLatest(m) /\ message[m] = "completed" THEN "completed"
    ELSE "idle"

\* recover_runtime_state, one transaction before anything else runs; its failure
\* is logged.
Start ==
    /\ ~up
    /\ up' = TRUE
    /\ \/ /\ message' = RecoveredMessages /\ threadStatus' = RecoveredStatus
          /\ outdated' = FALSE
       \/ Faults /\ UNCHANGED <<message, threadStatus, outdated>>
    /\ UNCHANGED <<approval, native, turnVars, handler, resolver, archiving, crashes, late>>

-----------------------------------------------------------------------------
Submit(m) == Register(m) \/ PlaceMessage(m) \/ MarkStreaming(m) \/ SaveFails(m)

Report(m) ==
    \/ Completed(m)
    \/ FlushAgain(m)
    \/ \E a \in Approvals : RequestApproval(m, a) \/ ExpireApproval(m, a)

RunTurn(m) ==
    \/ FlushAwaiting(m) \/ UserClickedStop(m) \/ Interrupt(m)
    \/ WriteFinalMessage(m) \/ WriteFinalStatus(m) \/ FinishTurn(m) \/ CompleteMessage(m)

Answer(h) ==
    \/ AnswerCapture(h) \/ AnswerRecheck(h) \/ AnswerNative(h) \/ AnswerCancels(h)
    \/ AnswerWaits(h) \/ DeriveRead(h) \/ DeriveRegistered(h) \/ Settle(h)

Others ==
    \/ \E m \in Turns : Submit(m) \/ Report(m) \/ RunTurn(m)
    \/ \E a \in Approvals : NativeDrops(a) \/ ResolveRead(a)
    \/ StopTurn \/ ArchiveBegin \/ ArchiveEnd \/ Exit \/ Start

Next ==
    \/ Others
    \/ ResolveCommit
    \/ \E h \in Handlers :
         \/ Answer(h)
         \/ \E a \in Approvals, d \in {"accept", "cancel"} : AnswerRead(h, a, d)

Spec == Init /\ [][Next]_vars

\* The spawned turn and the handlers keep being polled: every wait of theirs ends
\* by itself (interrupt ten seconds, task cleanup one second, cleanup wait
\* thirteen).  Nothing is assumed of the agent, of the user or of a restart.
Fairness ==
    /\ \A m \in Turns : WF_vars(RunTurn(m)) /\ WF_vars(PlaceMessage(m) \/ MarkStreaming(m))
    /\ \A h \in Handlers : WF_vars(Answer(h))
    /\ WF_vars(ResolveCommit)

FairSpec == Spec /\ Fairness

-----------------------------------------------------------------------------
(* Safety.                                                                 *)

\* From its registration to turns.finish a turn is the one its thread has
\* registered, so the stop button and the refusal of a second message see it.
LiveTurnIsRegistered == \A m \in Turns : Live(m) => active = m

\* Two turns never run in one thread: the message of a second one is refused with
\* "this thread has a turn in progress, stop it first".
OneTurnAtATime == \A m, n \in Turns : Live(m) /\ Live(n) => m = n

\* The cancellation of an approval cancels the turn that asked.  It takes the token
\* of another turn only when the one that asked ran while the answer read its
\* message and was over when the answer asked for the token: the approval of a turn
\* that is over stops no newer turn.
CapturedTokenIsOwn ==
    \A h \in Handlers : handler[h].token # 0 =>
        LET own == approval[handler[h].approval].turn
        IN  handler[h].token = own \/ (handler[h].asking /\ ~Live(own))

EndedAs(status) == IF status = "completed" THEN "completed" ELSE "idle"

\* When nothing runs, the thread shows how its latest turn ended, or that an
\* approval waits, and not a turn in progress that nobody will end, unless an answer
\* or a report that had read the thread before the end of a turn saved after it.
RestShowsTheEnd ==
    up /\ active = 0 /\ ~outdated
        => \A m \in Turns : IsLatest(m)
             => threadStatus \in {EndedAs(message[m]), "awaiting_approval"}

\* An acceptance is recorded only when the agent took it.
AcceptanceIsReal ==
    \A a \in Approvals : approval[a].decision = "accept" => native[a] = "accepted"

(* Actions.                                                                *)

\* Of the answers to one approval, its expiry and the report that it is resolved,
\* the first to be saved stays; a report only lets the decision follow.
SettledStays ==
    [][\A a \in Approvals :
         /\ approval[a].status = "expired" \/ approval[a].decision # "none"
               => approval'[a] = approval[a]
         /\ approval[a].status = "answered" => approval'[a].status = "answered"]_vars

\* The turns and the answers keep the promises of ApprovalLedger: an acceptance is
\* written after the agent took it, a row is closed without a decision only when the
\* agent no longer waits, and of the ways to settle a row the first one stays.
Ledger == INSTANCE ApprovalLedger WITH NoTurn <- 0, row <- approval, agent <- native

LedgerSpec == Ledger!Spec

(* Liveness.                                                               *)

\* A cancelled turn ends and gives its registration back.
StopEnds ==
    \A m \in Turns :
        m \in cancelled ~> (turn[m].pc \in {"done", "failed", "dead"} /\ active # m)
=============================================================================

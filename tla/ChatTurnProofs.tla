--------------------------- MODULE ChatTurnProofs ---------------------------
(***************************************************************************)
(* Proofs about ChatTurn for every number of turns, approvals, concurrent  *)
(* answers and restarts, with and without database faults, races between   *)
(* an answer and the turn, and (apart from LiveTurnRegistered) archiving.  *)
(***************************************************************************)
EXTENDS ChatTurn, TLAPS

USE DEF dbVars, turnVars, appVars

LEMMA InitTypeOK == Init => TypeOK
<1>1. /\ 0 \in 0..MaxTurns /\ 0 \in 0..MaxApprovals /\ 0 \in 0..MaxCrashes
  BY ChatConstants
<1>2. NewTurn \in TurnRow
  BY DEF NewTurn, TurnRow
<1>3. NoRow \in ApprovalRow
  BY <1>1 DEF NoRow, ApprovalRow
<1>4. IdleHandler \in HandlerRow
  BY <1>1 DEF IdleHandler, HandlerRow, MessageStatus, ThreadStatus
<1>5. NoResolver \in ResolverRow
  BY <1>1 DEF NoResolver, ResolverRow
<1> QED
  BY <1>1, <1>2, <1>3, <1>4, <1>5 DEF Init, TypeOK, ThreadStatus, MessageStatus

\* A turn number is a token and never the 0 of an empty registration.
LEMMA TurnNumbers == Turns \subseteq 0..MaxTurns /\ 0 \notin Turns
  BY ChatConstants DEF Turns

LEMMA ApprovalNumbers == Approvals \subseteq 0..MaxApprovals
  BY ChatConstants DEF Approvals

LEMMA NewTurnType ==
    ASSUME NEW pc \in {"done", "dead"}
    PROVE  [NewTurn EXCEPT !.pc = pc] \in TurnRow
  BY DEF NewTurn, TurnRow

LEMMA SubmitTypeOK ==
    ASSUME TypeOK, NEW m \in Turns, Submit(m)
    PROVE  TypeOK'
<1>1. \A pc \in {"registered", "placed", "observe", "failed"} :
        [turn EXCEPT ![m].pc = pc] \in [Turns -> TurnRow]
  BY DEF TypeOK, TurnRow
<1>2. CASE Register(m)
  BY <1>1, <1>2, TurnNumbers DEF Register, Goto, TypeOK
<1>3. CASE PlaceMessage(m)
  BY <1>1, <1>3 DEF PlaceMessage, Goto, TypeOK, MessageStatus
<1>4. CASE MarkStreaming(m)
  BY <1>1, <1>4 DEF MarkStreaming, Goto, TypeOK, ThreadStatus
<1>5. CASE SaveFails(m)
  BY <1>1, <1>5, ChatConstants DEF SaveFails, Goto, TypeOK, ThreadStatus
<1> QED
  BY <1>2, <1>3, <1>4, <1>5 DEF Submit

LEMMA ReportTypeOK ==
    ASSUME TypeOK, NEW m \in Turns, Report(m)
    PROVE  TypeOK'
<1>1. CASE Completed(m)
  <2>1. turn' \in [Turns -> TurnRow]
    BY <1>1 DEF Completed, TypeOK, TurnRow
  <2> QED
    BY <1>1, <2>1 DEF Completed, TypeOK
<1>2. ASSUME NEW a \in Approvals, RequestApproval(m, a)
      PROVE  TypeOK'
  <2>1. \A s \in {"pending", "unsaved"} :
          [NoRow EXCEPT !.turn = m, !.status = s] \in ApprovalRow
    BY TurnNumbers DEF NoRow, ApprovalRow
  <2>2. approval' \in [Approvals -> ApprovalRow]
    BY <1>2, <2>1 DEF RequestApproval, TypeOK
  <2>3. turn' \in [Turns -> TurnRow]
    BY <1>2 DEF RequestApproval, Goto, TypeOK, TurnRow
  <2>4. /\ native' \in [Approvals -> {"none", "open", "accepted", "cancelled", "dead"}]
        /\ message' \in [Turns -> MessageStatus]
        /\ threadStatus' \in ThreadStatus
    BY <1>2 DEF RequestApproval, TypeOK, MessageStatus, ThreadStatus
  <2> QED
    BY <1>2, <2>2, <2>3, <2>4 DEF RequestApproval, TypeOK
<1>3. ASSUME NEW a \in Approvals, ExpireApproval(m, a)
      PROVE  TypeOK'
  <2>1. approval' \in [Approvals -> ApprovalRow]
    BY <1>3 DEF ExpireApproval, TypeOK, ApprovalRow
  <2> QED
    BY <1>3, <2>1 DEF ExpireApproval, TypeOK
<1>4. CASE FlushAgain(m)
  <2>1. turn' \in [Turns -> TurnRow]
    BY <1>4 DEF FlushAgain, TypeOK, TurnRow
  <2> QED
    BY <1>4, <2>1 DEF FlushAgain, TypeOK, ThreadStatus
<1> QED
  BY <1>1, <1>2, <1>3, <1>4 DEF Report

\* The history of the answers and the report.
LEMMA HistoryTypes ==
    ASSUME TypeOK,
           \/ Overtake
           \/ \E who \in Handlers \cup {Resolver} :
                 \/ FindsEnded(who) /\ UNCHANGED outdated
                 \/ \E saved \in BOOLEAN : Saves(who, saved)
           \/ late' = {} /\ UNCHANGED outdated
           \/ UNCHANGED <<late, outdated>>
    PROVE  late' \subseteq Handlers \cup {Resolver} /\ outdated' \in BOOLEAN
<1>1. late \subseteq Handlers \cup {Resolver} /\ outdated \in BOOLEAN
  BY DEF TypeOK
<1>2. late' \subseteq Handlers \cup {Resolver}
  BY <1>1 DEF Overtake, FindsEnded, Saves
<1>3. outdated' \in BOOLEAN
  BY <1>1, Zenon DEF Overtake, Saves
<1> QED
  BY <1>2, <1>3

LEMMA RunTurnTypeOK ==
    ASSUME TypeOK, NEW m \in Turns, RunTurn(m)
    PROVE  TypeOK'
<1>1. \A pc \in {"finalMessage", "finalThread", "finish", "complete"} :
        [turn EXCEPT ![m].pc = pc] \in [Turns -> TurnRow]
  BY DEF TypeOK, TurnRow
<1>2. CASE FlushAwaiting(m)
  <2>1. /\ [turn EXCEPT ![m].pc = "observe"] \in [Turns -> TurnRow]
        /\ [turn EXCEPT ![m].pc = "observe", ![m].asked = TRUE] \in [Turns -> TurnRow]
    BY DEF TypeOK, TurnRow
  <2>2. turn' \in [Turns -> TurnRow]
    BY <1>2, <2>1 DEF FlushAwaiting, Goto
  <2> QED
    BY <1>2, <2>2 DEF FlushAwaiting, TypeOK, ThreadStatus
<1>3. CASE UserClickedStop(m)
  <2>1. turn' \in [Turns -> TurnRow]
    BY <1>3 DEF UserClickedStop, TypeOK, TurnRow
  <2> QED
    BY <1>3, <2>1 DEF UserClickedStop, TypeOK
<1>4. CASE Interrupt(m)
  <2>1. native' \in [Approvals -> {"none", "open", "accepted", "cancelled", "dead"}]
    BY <1>4 DEF Interrupt, TypeOK
  <2> QED
    BY <1>1, <1>4, <2>1 DEF Interrupt, Goto, TypeOK
<1>5. message[m] \in MessageStatus
      /\ (turn[m].pc \in {"finalMessage", "complete"} =>
            [message EXCEPT ![m] = turn[m].ending] \in [Turns -> MessageStatus])
  BY DEF TypeOK, TurnRow, MessageStatus
<1>6. CASE WriteFinalMessage(m)
  BY <1>1, <1>5, <1>6 DEF WriteFinalMessage, Goto, TypeOK
<1>7. CASE WriteFinalStatus(m)
  <2>1. late' \subseteq Handlers \cup {Resolver} /\ outdated' \in BOOLEAN
    BY <1>7, HistoryTypes DEF WriteFinalStatus
  <2>2. threadStatus' \in ThreadStatus /\ turn' \in [Turns -> TurnRow]
    BY <1>1, <1>7 DEF WriteFinalStatus, EndStatus, Goto, TypeOK, ThreadStatus
  <2> QED
    BY <1>7, <2>1, <2>2 DEF WriteFinalStatus, TypeOK
<1>8. CASE FinishTurn(m)
  BY <1>1, <1>8, ChatConstants DEF FinishTurn, Goto, TypeOK
<1>9. CASE CompleteMessage(m)
  <2>1. turn' \in [Turns -> TurnRow]
    BY <1>9, NewTurnType DEF CompleteMessage, TypeOK
  <2> QED
    BY <1>5, <1>9, <2>1 DEF CompleteMessage, TypeOK
<1> QED
  BY <1>2, <1>3, <1>4, <1>6, <1>7, <1>8, <1>9 DEF RunTurn

\* Whatever the answer of handler h does to its own row, the row stays well typed.
LEMMA AnswerRowType ==
    ASSUME TypeOK, NEW h \in Handlers, Answer(h)
    PROVE  handler' \in [Handlers -> HandlerRow]
<1>1. handler[h] \in HandlerRow /\ handler \in [Handlers -> HandlerRow]
  BY DEF TypeOK
<1>2. IdleHandler \in HandlerRow
  BY ChatConstants DEF IdleHandler, HandlerRow, MessageStatus, ThreadStatus
<1>3. active \in 0..MaxTurns /\ 0 \in 0..MaxTurns
  BY ChatConstants DEF TypeOK
<1>4. CASE AnswerCapture(h)
  <2> DEFINE asking == handler[h].asking /\ Token(h) # 0
  <2>1. Token(h) \in 0..MaxTurns /\ asking \in BOOLEAN
    BY <1>1, <1>3 DEF Token, HandlerRow
  <2>2. handler' = [handler EXCEPT ![h].pc = "recheck", ![h].token = Token(h),
                                   ![h].asking = asking]
    BY <1>1, <1>4 DEF AnswerCapture
  <2> HIDE DEF asking
  <2> QED
    BY <1>1, <2>1, <2>2 DEF HandlerRow
<1>5. CASE AnswerRecheck(h)
  <2>1. [handler[h] EXCEPT !.pc = "native"] \in HandlerRow
    BY <1>1 DEF HandlerRow
  <2> QED
    BY <1>1, <1>2, <1>5, <2>1 DEF AnswerRecheck
<1>6. CASE AnswerNative(h)
  <2>1. \A reply \in {"answered", "expired"} :
          [handler[h] EXCEPT !.pc = "read", !.reply = reply] \in HandlerRow
    BY <1>1 DEF HandlerRow
  <2> QED
    BY <1>1, <1>2, <1>6, <2>1 DEF AnswerNative, NativeReplies
<1>7. CASE AnswerCancels(h)
  BY <1>1, <1>7 DEF AnswerCancels, HandlerRow
<1>8. CASE AnswerWaits(h)
  BY <1>1, <1>8 DEF AnswerWaits, HandlerRow
<1>9. CASE DeriveRead(h)
  <2> DEFINE a == handler[h].approval
             m == approval[a].turn
             others == \E b \in Approvals \ {a} : Pending(b)
  <2>1. others \in BOOLEAN
    OBVIOUS
  <2>2. CASE IsLatest(m)
    <3>1. message[m] \in MessageStatus
      BY <2>2 DEF IsLatest, Saved, TypeOK
    <3>2. [handler[h] EXCEPT !.pc = "registered", !.seen = message[m],
                             !.others = others] \in HandlerRow
      <4> HIDE DEF others
      <4> QED
        BY <1>1, <2>1, <3>1 DEF HandlerRow
    <3> QED
      BY <1>1, <1>9, <2>2, <3>2 DEF DeriveRead
  <2>3. CASE ~IsLatest(m)
    <3>1. [handler[h] EXCEPT !.pc = "settle", !.status = threadStatus] \in HandlerRow
      BY <1>1 DEF HandlerRow, TypeOK
    <3> QED
      BY <1>1, <1>9, <2>3, <3>1 DEF DeriveRead
  <2> QED
    BY <2>2, <2>3
<1>10. CASE DeriveRegistered(h)
  <2>1. RestStatus(handler[h].seen) \in ThreadStatus
    BY DEF RestStatus, ThreadStatus
  <2>2. DeriveStatus(h) \in ThreadStatus
    BY <2>1 DEF DeriveStatus, ThreadStatus
  <2>3. \A mark \in {"none", "interrupted"} :
          [handler[h] EXCEPT !.pc = "settle", !.seen = "none", !.others = FALSE,
                             !.status = DeriveStatus(h), !.mark = mark] \in HandlerRow
    BY <1>1, <2>2 DEF HandlerRow, MessageStatus
  <2> QED
    BY <1>1, <1>10, <2>3 DEF DeriveRegistered
<1>11. CASE Settle(h)
  BY <1>1, <1>2, <1>11 DEF Settle
<1> QED
  BY <1>4, <1>5, <1>6, <1>7, <1>8, <1>9, <1>10, <1>11 DEF Answer

\* Settle is the only step of an answer that writes the database.
LEMMA SettleTypeOK ==
    ASSUME TypeOK, NEW h \in Handlers, Settle(h)
    PROVE  /\ threadStatus' \in ThreadStatus
           /\ message' \in [Turns -> MessageStatus]
           /\ approval' \in [Approvals -> ApprovalRow]
<1>1. handler[h] \in HandlerRow
  BY DEF TypeOK
<1>2. CASE UNCHANGED dbVars
  BY <1>2 DEF TypeOK
<1>3. CASE SettleRow(h)
  <2>1. approval' \in [Approvals -> ApprovalRow]
    <3>1. approval \in [Approvals -> ApprovalRow]
      BY DEF TypeOK
    <3>2. handler[h].reply \in {"none", "answered", "expired"}
          /\ handler[h].decision \in {"none", "accept", "cancel"}
      BY <1>1 DEF HandlerRow
    <3> QED
      BY <1>3, <3>1, <3>2 DEF SettleRow, ApprovalRow
  <2>2. message' \in [Turns -> MessageStatus]
    BY <1>1, <1>3 DEF SettleRow, TypeOK, HandlerRow, MessageStatus
  <2> QED
    BY <1>1, <1>3, <2>1, <2>2 DEF SettleRow, HandlerRow
<1> QED
  BY <1>2, <1>3 DEF Settle

LEMMA AnswerTypeOK ==
    ASSUME TypeOK, NEW h \in Handlers, Answer(h)
    PROVE  TypeOK'
<1>1. handler' \in [Handlers -> HandlerRow]
  BY AnswerRowType
<1>2. CASE Settle(h)
  <2>1. late' \subseteq Handlers \cup {Resolver} /\ outdated' \in BOOLEAN
    BY <1>2, HistoryTypes DEF Settle
  <2>2. /\ threadStatus' \in ThreadStatus
        /\ message' \in [Turns -> MessageStatus]
        /\ approval' \in [Approvals -> ApprovalRow]
    BY <1>2, SettleTypeOK
  <2>3. UNCHANGED <<native, turnVars, resolver, archiving, up, crashes>>
    BY <1>2 DEF Settle
  <2> QED
    BY <1>1, <2>1, <2>2, <2>3 DEF TypeOK
<1>3. CASE AnswerNative(h)
  <2>1. native' \in [Approvals -> {"none", "open", "accepted", "cancelled", "dead"}]
    BY <1>3 DEF AnswerNative, NativeReplies, TypeOK
  <2> QED
    BY <1>1, <1>3, <2>1 DEF AnswerNative, TypeOK
<1>4. CASE AnswerCancels(h)
  <2>1. native' \in [Approvals -> {"none", "open", "accepted", "cancelled", "dead"}]
    BY <1>4 DEF AnswerCancels, TypeOK
  <2>2. handler[h].token \in Turns
    BY <1>4, ChatConstants DEF AnswerCancels, TypeOK, HandlerRow, Turns
  <2> QED
    BY <1>1, <1>4, <2>1, <2>2 DEF AnswerCancels, TypeOK
<1>5. CASE AnswerCapture(h) \/ AnswerRecheck(h) \/ AnswerWaits(h) \/ DeriveRead(h)
  BY <1>1, <1>5 DEF AnswerCapture, AnswerRecheck, AnswerWaits, DeriveRead, TypeOK
<1>6. CASE DeriveRegistered(h)
  <2>1. late' \subseteq Handlers \cup {Resolver} /\ outdated' \in BOOLEAN
    BY <1>6, HistoryTypes DEF DeriveRegistered
  <2> QED
    BY <1>1, <1>6, <2>1 DEF DeriveRegistered, TypeOK
<1> QED
  BY <1>2, <1>3, <1>4, <1>5, <1>6 DEF Answer

LEMMA AnswerReadTypeOK ==
    ASSUME TypeOK, NEW h \in Handlers, NEW a \in Approvals,
           NEW decision \in {"accept", "cancel"}, AnswerRead(h, a, decision)
    PROVE  TypeOK'
<1> DEFINE current == IsLatest(approval[a].turn) /\ message[approval[a].turn] = "streaming"
           cancels == current /\ decision = "cancel"
           asking  == Live(approval[a].turn)
<1>1. cancels \in BOOLEAN /\ asking \in BOOLEAN
  BY DEF IsLatest, Live
<1>2. [IdleHandler EXCEPT !.pc = "capture", !.approval = a, !.decision = decision,
                          !.current = cancels, !.asking = asking] \in HandlerRow
  <2>1. IdleHandler \in HandlerRow
    BY ChatConstants DEF IdleHandler, HandlerRow, MessageStatus, ThreadStatus
  <2>2. a \in 0..MaxApprovals
    BY ApprovalNumbers
  <2> HIDE DEF cancels, asking
  <2> QED
    BY <1>1, <2>1, <2>2 DEF HandlerRow
<1>3. handler' \in [Handlers -> HandlerRow]
  BY <1>2 DEF AnswerRead, Asks, TypeOK
<1> QED
  BY <1>3 DEF AnswerRead, Asks, TypeOK

\* The report that an approval is resolved.
LEMMA ResolveReadTypeOK ==
    ASSUME TypeOK, NEW a \in Approvals, ResolveRead(a)
    PROVE  TypeOK'
<1>1. [approval |-> a, live |-> active # 0] \in ResolverRow
  <2>1. a \in 0..MaxApprovals /\ (active # 0) \in BOOLEAN
    BY ApprovalNumbers
  <2> QED
    BY <2>1 DEF ResolverRow
<1>2. resolver' \in ResolverRow
  BY <1>1 DEF ResolveRead
<1>3. late' \subseteq Handlers \cup {Resolver} /\ outdated' \in BOOLEAN
  BY HistoryTypes DEF ResolveRead
<1> QED
  BY <1>2, <1>3, Zenon DEF ResolveRead, TypeOK

LEMMA ResolveCommitTypeOK ==
    ASSUME TypeOK, ResolveCommit
    PROVE  TypeOK'
<1>1. resolver' \in ResolverRow
  BY ChatConstants DEF ResolveCommit, NoResolver, ResolverRow
<1>2. approval' \in [Approvals -> ApprovalRow]
  <2>1. approval \in [Approvals -> ApprovalRow]
    BY DEF TypeOK
  <2>2. \/ approval' = [approval EXCEPT ![resolver.approval].status = "answered"]
        \/ approval' = approval
    BY DEF ResolveCommit
  <2> QED
    BY <2>1, <2>2 DEF ApprovalRow
<1>3. threadStatus' \in ThreadStatus
  BY DEF ResolveCommit, TypeOK, ThreadStatus
<1>4. late' \subseteq Handlers \cup {Resolver} /\ outdated' \in BOOLEAN
  BY HistoryTypes DEF ResolveCommit
<1> QED
  BY <1>1, <1>2, <1>3, <1>4, Zenon DEF ResolveCommit, TypeOK

\* The stop button, archiving, the agent and the application.
LEMMA SurroundingsTypeOK ==
    ASSUME TypeOK,
           \/ \E a \in Approvals : NativeDrops(a)
           \/ StopTurn \/ ArchiveBegin \/ ArchiveEnd \/ Exit \/ Start
    PROVE  TypeOK'
<1>1. CASE \E a \in Approvals : NativeDrops(a)
  BY <1>1 DEF NativeDrops, TypeOK
<1>2. CancelActive => cancelled' \subseteq Turns
  BY ChatConstants DEF CancelActive, TypeOK, Turns
<1>3. CASE StopTurn
  BY <1>2, <1>3 DEF StopTurn, TypeOK
<1>4. CASE ArchiveBegin
  BY <1>2, <1>4 DEF ArchiveBegin, TypeOK
<1>5. CASE ArchiveEnd
  <2>1. active' \in 0..MaxTurns
    BY <1>5, ChatConstants DEF ArchiveEnd
  <2>2. archiving' \in BOOLEAN
    BY <1>5, Zenon DEF ArchiveEnd
  <2> QED
    BY <1>5, <2>1, <2>2, Zenon DEF ArchiveEnd, TypeOK
<1>6. CASE Exit
  <2>1. turn' \in [Turns -> TurnRow]
    BY <1>6, NewTurnType DEF Exit, TypeOK
  <2>2. handler' \in [Handlers -> HandlerRow]
    BY <1>6, ChatConstants
       DEF Exit, IdleHandler, HandlerRow, MessageStatus, ThreadStatus
  <2>3. native' \in [Approvals -> {"none", "open", "accepted", "cancelled", "dead"}]
    BY <1>6 DEF Exit, TypeOK
  <2>4. resolver' \in ResolverRow
    BY <1>6, ChatConstants DEF Exit, NoResolver, ResolverRow
  <2> QED
    <3>1. active' \in 0..MaxTurns /\ crashes' \in 0..MaxCrashes
      BY <1>6, ChatConstants DEF Exit, TypeOK
    <3>2. up' \in BOOLEAN /\ archiving' \in BOOLEAN /\ cancelled' \subseteq Turns
      BY <1>6, Zenon DEF Exit
    <3>3. late' \subseteq Handlers \cup {Resolver} /\ outdated' \in BOOLEAN
      BY <1>6, HistoryTypes DEF Exit
    <3> QED
      BY <1>6, <2>1, <2>2, <2>3, <2>4, <3>1, <3>2, <3>3, Zenon DEF Exit, TypeOK
<1>7. CASE Start
  <2>1. RecoveredMessages \in [Turns -> MessageStatus]
    BY DEF RecoveredMessages, TypeOK, MessageStatus
  <2>2. RecoveredStatus \in ThreadStatus
    BY DEF RecoveredStatus, ThreadStatus
  <2>3. late' \subseteq Handlers \cup {Resolver} /\ outdated' \in BOOLEAN /\ up' \in BOOLEAN
    BY <1>7, Zenon DEF Start, TypeOK
  <2> QED
    BY <1>7, <2>1, <2>2, <2>3 DEF Start, TypeOK
<1> QED
  BY <1>1, <1>3, <1>4, <1>5, <1>6, <1>7

LEMMA StepTypeOK == TypeOK /\ [Next]_vars => TypeOK'
<1> SUFFICES ASSUME TypeOK, [Next]_vars PROVE TypeOK'
  OBVIOUS
<1>1. CASE Others
  BY <1>1, SubmitTypeOK, ReportTypeOK, RunTurnTypeOK, SurroundingsTypeOK, ResolveReadTypeOK
     DEF Others
<1>2. CASE \E h \in Handlers : Answer(h)
  BY <1>2, AnswerTypeOK
<1>3. CASE \E h \in Handlers, a \in Approvals, d \in {"accept", "cancel"} : AnswerRead(h, a, d)
  BY <1>3, AnswerReadTypeOK
<1>4. CASE UNCHANGED vars
  BY <1>4 DEF vars, TypeOK
<1>5. CASE ResolveCommit
  BY <1>5, ResolveCommitTypeOK
<1> QED
  BY <1>1, <1>2, <1>3, <1>4, <1>5 DEF Next

\* The type invariant of the chat turns, for every value of the constants.
THEOREM ChatTypeCorrect == Spec => []TypeOK
<1> QED
  BY InitTypeOK, StepTypeOK, PTL DEF Spec

-----------------------------------------------------------------------------
(* The registration of the live turn.  Archiving gives the registration of *)
(* a turn back while it still winds down, so it is assumed away.           *)

RegistrationInv == TypeOK /\ ~archiving /\ LiveTurnIsRegistered

\* A step that keeps the registration and starts no turn keeps the invariant.
LEMMA RegistrationKept ==
    ASSUME LiveTurnIsRegistered, active' = active,
           \A n \in Turns : Live(n)' => Live(n)
    PROVE  LiveTurnIsRegistered'
  BY DEF LiveTurnIsRegistered

LEMMA SubmitKeepsRegistration ==
    ASSUME TypeOK, LiveTurnIsRegistered, NEW m \in Turns, Submit(m)
    PROVE  LiveTurnIsRegistered'
<1>1. turn \in [Turns -> TurnRow]
  BY DEF TypeOK
<1>2. CASE Register(m)
  <2>1. \A n \in Turns : ~Live(n)
    BY <1>2, TurnNumbers DEF Register, LiveTurnIsRegistered
  <2>2. \A n \in Turns : Live(n)' => n = m
    BY <1>1, <1>2, <2>1 DEF Register, Goto, Live
  <2> QED
    BY <1>2, <2>2 DEF Register, LiveTurnIsRegistered
<1>3. CASE PlaceMessage(m) \/ MarkStreaming(m)
  BY <1>1, <1>3, RegistrationKept DEF PlaceMessage, MarkStreaming, Goto, Live
<1>4. CASE SaveFails(m)
  <2>1. active = m
    BY <1>4 DEF SaveFails, Live, LiveTurnIsRegistered
  <2>2. \A n \in Turns : ~Live(n)'
    BY <1>1, <1>4, <2>1 DEF SaveFails, Goto, Live, LiveTurnIsRegistered
  <2> QED
    BY <2>2 DEF LiveTurnIsRegistered
<1> QED
  BY <1>2, <1>3, <1>4 DEF Submit

LEMMA ReportKeepsRegistration ==
    ASSUME TypeOK, LiveTurnIsRegistered, NEW m \in Turns, Report(m)
    PROVE  LiveTurnIsRegistered'
<1>1. turn \in [Turns -> TurnRow]
  BY DEF TypeOK
<1>2. CASE Completed(m)
  BY <1>1, <1>2, RegistrationKept DEF Completed, Observing, Live
<1>3. ASSUME NEW a \in Approvals, RequestApproval(m, a)
      PROVE  LiveTurnIsRegistered'
  BY <1>1, <1>3, RegistrationKept DEF RequestApproval, Observing, Goto, Live
<1>4. ASSUME NEW a \in Approvals, ExpireApproval(m, a)
      PROVE  LiveTurnIsRegistered'
  BY <1>4, RegistrationKept DEF ExpireApproval, Live
<1>5. CASE FlushAgain(m)
  BY <1>1, <1>5, RegistrationKept DEF FlushAgain, Live
<1> QED
  BY <1>2, <1>3, <1>4, <1>5 DEF Report

LEMMA RunTurnKeepsRegistration ==
    ASSUME TypeOK, LiveTurnIsRegistered, NEW m \in Turns, RunTurn(m)
    PROVE  LiveTurnIsRegistered'
<1>1. turn \in [Turns -> TurnRow]
  BY DEF TypeOK
<1>2. CASE FlushAwaiting(m) \/ UserClickedStop(m)
  BY <1>1, <1>2, RegistrationKept DEF FlushAwaiting, UserClickedStop, Goto, Live
<1>3. CASE Interrupt(m) \/ WriteFinalMessage(m) \/ WriteFinalStatus(m)
  BY <1>1, <1>3, RegistrationKept
     DEF Interrupt, WriteFinalMessage, WriteFinalStatus, Goto, Live
<1>4. CASE FinishTurn(m)
  <2>1. active = m
    BY <1>4 DEF FinishTurn, Live, LiveTurnIsRegistered
  <2>2. \A n \in Turns : ~Live(n)'
    BY <1>1, <1>4, <2>1 DEF FinishTurn, Goto, Live, LiveTurnIsRegistered
  <2> QED
    BY <2>2 DEF LiveTurnIsRegistered
<1>5. CASE CompleteMessage(m)
  BY <1>1, <1>5, RegistrationKept DEF CompleteMessage, NewTurn, Live
<1> QED
  BY <1>2, <1>3, <1>4, <1>5 DEF RunTurn

\* No answer registers, ends or unregisters a turn.
LEMMA AnswerKeepsTurns ==
    ASSUME NEW h \in Handlers,
           \/ Answer(h)
           \/ \E a \in Approvals, d \in {"accept", "cancel"} : AnswerRead(h, a, d)
    PROVE  UNCHANGED <<active, turn, archiving>>
  BY DEF Answer, AnswerRead, Asks, AnswerCapture, AnswerRecheck, AnswerNative, AnswerCancels,
         AnswerWaits, DeriveRead, DeriveRegistered, Settle

LEMMA StepKeepsRegistration ==
    ASSUME ~ArchiveEnabled, RegistrationInv, [Next]_vars
    PROVE  RegistrationInv'
<1> USE DEF RegistrationInv
<1>1. TypeOK'
  BY StepTypeOK
<1>2. ASSUME NEW m \in Turns, Submit(m) \/ Report(m) \/ RunTurn(m)
      PROVE  LiveTurnIsRegistered' /\ ~archiving'
  <2>1. archiving' = archiving
    BY <1>2
       DEF Submit, Report, RunTurn, Register, PlaceMessage, MarkStreaming, SaveFails,
           Completed, RequestApproval, ExpireApproval, FlushAgain, FlushAwaiting,
           UserClickedStop, Interrupt, WriteFinalMessage, WriteFinalStatus, FinishTurn,
           CompleteMessage
  <2> QED
    BY <1>2, <2>1, SubmitKeepsRegistration, ReportKeepsRegistration,
       RunTurnKeepsRegistration
<1>3. CASE UNCHANGED <<active, turn, archiving>>
  BY <1>1, <1>3, RegistrationKept DEF Live
<1>4. CASE Exit
  <2>1. \A n \in Turns : ~Live(n)'
    BY <1>4 DEF Exit, Live, NewTurn
  <2> QED
    BY <1>1, <1>4, <2>1 DEF Exit, LiveTurnIsRegistered
<1>5. CASE \/ \E a \in Approvals : NativeDrops(a) \/ ResolveRead(a)
           \/ ResolveCommit \/ StopTurn \/ ArchiveBegin \/ ArchiveEnd \/ Start
  <2>1. UNCHANGED <<active, turn, archiving>>
    BY <1>5 DEF NativeDrops, ResolveRead, ResolveCommit, StopTurn, ArchiveBegin, ArchiveEnd,
       Start
  <2> QED
    BY <1>3, <2>1
<1>6. CASE UNCHANGED vars
  BY <1>3, <1>6 DEF vars
<1> QED
  BY <1>1, <1>2, <1>3, <1>4, <1>5, <1>6, AnswerKeepsTurns DEF Next, Others

LEMMA InitRegistration == Init => RegistrationInv
<1> SUFFICES ASSUME Init PROVE RegistrationInv
  OBVIOUS
<1>1. \A m \in Turns : ~Live(m)
  BY DEF Init, NewTurn, Live
<1> QED
  BY <1>1, InitTypeOK DEF RegistrationInv, LiveTurnIsRegistered, Init

\* While no thread is archived, the turn that runs is the registered one.
THEOREM LiveTurnRegistered ==
    ASSUME ~ArchiveEnabled
    PROVE  Spec => []LiveTurnIsRegistered
<1>1. RegistrationInv /\ [Next]_vars => RegistrationInv'
  BY StepKeepsRegistration
<1>2. RegistrationInv => LiveTurnIsRegistered
  BY DEF RegistrationInv
<1> QED
  BY InitRegistration, <1>1, <1>2, PTL DEF Spec

\* So two turns never run in one thread.
THEOREM OneTurnRuns ==
    ASSUME ~ArchiveEnabled
    PROVE  Spec => []OneTurnAtATime
<1>1. LiveTurnIsRegistered => OneTurnAtATime
  BY DEF LiveTurnIsRegistered, OneTurnAtATime
<1> QED
  BY LiveTurnRegistered, <1>1, PTL

-----------------------------------------------------------------------------
(* Acceptances.  The answer is saved several steps after the agent took it *)
(* and other answers to the same approval step in between, so the invariant *)
(* follows the answer from the agent's reply to the row.                   *)

\* What the agent was asked is in the table, if only as a failed insert.
RequestedFirst ==
    \A a \in Approvals :
        approval[a].status = "none" => native[a] = "none" /\ approval[a].decision = "none"

AnswerHasRow ==
    \A h \in Handlers :
        handler[h].pc # "idle" =>
            /\ handler[h].approval \in Approvals
            /\ approval[handler[h].approval].status # "none"

TokenMeansCancel ==
    \A h \in Handlers :
        handler[h].current \/ handler[h].token # 0 \/ handler[h].pc = "wait"
            => handler[h].decision = "cancel"

AnswerKeepsWord ==
    \A h \in Handlers :
        /\ handler[h].pc \in {"read", "registered", "settle"}
        /\ handler[h].decision = "accept" /\ handler[h].reply = "answered"
        => native[handler[h].approval] = "accepted"

AnswerHasReply ==
    \A h \in Handlers :
        handler[h].pc \in {"wait", "read", "registered", "settle"}
            => handler[h].reply # "none"

AnswersInv == AnswerHasRow /\ TokenMeansCancel /\ AnswerKeepsWord /\ AnswerHasReply
AcceptanceInv == TypeOK /\ RequestedFirst /\ AnswersInv /\ AcceptanceIsReal

\* An acceptance the agent took is never taken back, and an approval that was
\* asked for stays so: then the answers under way keep what they rely on.
AgentMovesOn ==
    \A a \in Approvals :
        /\ native[a] = "accepted" => native'[a] = "accepted"
        /\ approval[a].status # "none" => approval'[a].status # "none"

LEMMA AnswersKept ==
    ASSUME AnswersInv, AgentMovesOn, handler' = handler
    PROVE  AnswersInv'
<1>1. AnswerHasRow'
  BY DEF AnswersInv, AgentMovesOn, AnswerHasRow
<1>2. TokenMeansCancel'
  BY DEF AnswersInv, TokenMeansCancel
<1>3. AnswerKeepsWord'
  BY DEF AnswersInv, AgentMovesOn, AnswerHasRow, AnswerKeepsWord
<1>4. AnswerHasReply'
  BY DEF AnswersInv, AnswerHasReply
<1> QED
  BY <1>1, <1>2, <1>3, <1>4 DEF AnswersInv

\* The steps outside the answers that touch an approval.
LEMMA RequestKeepsAcceptance ==
    ASSUME AcceptanceInv, NEW m \in Turns, NEW a \in Approvals, RequestApproval(m, a)
    PROVE  RequestedFirst' /\ AnswersInv' /\ AcceptanceIsReal'
<1> USE DEF AcceptanceInv
<1>1. /\ approval[a].status = "none"
      /\ native' = [native EXCEPT ![a] = "open"]
      /\ handler' = handler
  BY DEF RequestApproval
<1>2. PICK s \in {"pending", "unsaved"} :
        approval' = [approval EXCEPT ![a] = [NoRow EXCEPT !.turn = m, !.status = s]]
  BY DEF RequestApproval
<1>3. approval'[a].status # "none" /\ approval'[a].decision = "none"
  BY <1>2 DEF NoRow, TypeOK
<1>4. \A b \in Approvals \ {a} : approval'[b] = approval[b] /\ native'[b] = native[b]
  BY <1>1, <1>2 DEF TypeOK
<1>5. native[a] = "none"
  BY <1>1 DEF RequestedFirst
<1>6. AgentMovesOn
  BY <1>3, <1>4, <1>5 DEF AgentMovesOn
<1> QED
  BY <1>1, <1>3, <1>4, <1>6, AnswersKept DEF RequestedFirst, AcceptanceIsReal

LEMMA DropsKeepAcceptance ==
    ASSUME AcceptanceInv, handler' = handler, approval' = approval,
           \A a \in Approvals : \/ native'[a] = native[a]
                                \/ native[a] = "open" /\ native'[a] = "dead"
    PROVE  RequestedFirst' /\ AnswersInv' /\ AcceptanceIsReal'
<1> USE DEF AcceptanceInv
<1>1. AgentMovesOn
  BY DEF AgentMovesOn
<1>2. RequestedFirst'
  BY DEF RequestedFirst
<1>3. AcceptanceIsReal'
  BY DEF AcceptanceIsReal
<1> QED
  BY <1>1, <1>2, <1>3, AnswersKept

LEMMA StatusKeepsAcceptance ==
    ASSUME AcceptanceInv, NEW a, NEW status \in {"answered", "expired"},
           approval' \in {approval, [approval EXCEPT ![a].status = status]},
           native' = native, handler' = handler
    PROVE  RequestedFirst' /\ AnswersInv' /\ AcceptanceIsReal'
<1> USE DEF AcceptanceInv
<1>1. /\ approval' \in {approval, [approval EXCEPT ![a].status = status]}
      /\ native' = native /\ handler' = handler
  OBVIOUS
<1>2. /\ \A b \in Approvals : approval'[b].decision = approval[b].decision
      /\ \A b \in Approvals : \/ approval'[b].status = approval[b].status
                              \/ approval'[b].status = status
  <2>1. approval \in [Approvals -> ApprovalRow]
    BY DEF TypeOK
  <2>2. CASE approval' = approval
    BY <2>2
  <2>3. CASE approval' = [approval EXCEPT ![a].status = status]
    BY <2>1, <2>3 DEF ApprovalRow
  <2> QED
    BY <1>1, <2>2, <2>3
<1>3. AgentMovesOn
  BY <1>1, <1>2 DEF AgentMovesOn
<1>4. RequestedFirst' /\ AcceptanceIsReal'
  BY <1>1, <1>2 DEF RequestedFirst, AcceptanceIsReal
<1> QED
  BY <1>1, <1>3, <1>4, AnswersKept

LEMMA ResolutionKeepsAcceptance ==
    ASSUME AcceptanceInv, ResolveCommit
    PROVE  RequestedFirst' /\ AnswersInv' /\ AcceptanceIsReal'
<1>1. /\ approval' \in {approval,
                        [approval EXCEPT ![resolver.approval].status = "answered"]}
      /\ native' = native /\ handler' = handler
  BY DEF ResolveCommit
<1> QED
  BY <1>1, StatusKeepsAcceptance

LEMMA ExpiryKeepsAcceptance ==
    ASSUME AcceptanceInv, NEW m \in Turns, NEW a \in Approvals, ExpireApproval(m, a)
    PROVE  RequestedFirst' /\ AnswersInv' /\ AcceptanceIsReal'
<1>1. /\ approval' \in {approval, [approval EXCEPT ![a].status = "expired"]}
      /\ native' = native /\ handler' = handler
  BY DEF ExpireApproval
<1> QED
  BY <1>1, StatusKeepsAcceptance

\* What AnswersInv says of one answer.
AnswerGood(row, approvals, natives) ==
    /\ row.pc # "idle" => /\ row.approval \in Approvals
                          /\ approvals[row.approval].status # "none"
    /\ row.current \/ row.token # 0 \/ row.pc = "wait" => row.decision = "cancel"
    /\ /\ row.pc \in {"read", "registered", "settle"}
       /\ row.decision = "accept" /\ row.reply = "answered"
       => natives[row.approval] = "accepted"
    /\ row.pc \in {"wait", "read", "registered", "settle"} => row.reply # "none"

LEMMA AnswersInvByRow ==
    AnswersInv <=> \A h \in Handlers : AnswerGood(handler[h], approval, native)
  BY DEF AnswersInv, AnswerHasRow, TokenMeansCancel, AnswerKeepsWord, AnswerHasReply,
         AnswerGood

LEMMA OneAnswerSteps ==
    ASSUME TypeOK, AnswersInv, AgentMovesOn, NEW h \in Handlers, NEW row,
           handler' = [handler EXCEPT ![h] = row],
           AnswerGood(row, approval', native')
    PROVE  AnswersInv'
<1>1. \A g \in Handlers : AnswerGood(handler[g], approval, native)
  BY AnswersInvByRow
<1>2. \A g \in Handlers \ {h} : handler'[g] = handler[g]
  BY DEF TypeOK
<1>3. \A g \in Handlers \ {h} : AnswerGood(handler'[g], approval', native')
  BY <1>1, <1>2 DEF AgentMovesOn, AnswerGood
<1>4. handler'[h] = row
  BY DEF TypeOK
<1>5. \A g \in Handlers : AnswerGood(handler'[g], approval', native')
  BY <1>3, <1>4
<1> QED
  BY <1>5 DEF AnswersInv, AnswerHasRow, TokenMeansCancel, AnswerKeepsWord, AnswerHasReply,
         AnswerGood

LEMMA IdleIsGood == AnswerGood(IdleHandler, approval', native')
  BY DEF AnswerGood, IdleHandler

\* The steps of an answer before and after the agent's reply.
LEMMA QuietAnswerKeeps ==
    ASSUME AcceptanceInv, NEW h \in Handlers,
           \/ AnswerCapture(h) \/ AnswerRecheck(h) \/ AnswerWaits(h)
           \/ DeriveRead(h) \/ DeriveRegistered(h)
    PROVE  RequestedFirst' /\ AnswersInv' /\ AcceptanceIsReal'
<1> USE DEF AcceptanceInv
<1>1. approval' = approval /\ native' = native
  BY DEF AnswerCapture, AnswerRecheck, AnswerWaits, DeriveRead, DeriveRegistered
<1>2. RequestedFirst' /\ AcceptanceIsReal' /\ AgentMovesOn
  BY <1>1 DEF RequestedFirst, AcceptanceIsReal, AgentMovesOn
<1>3. handler[h] \in HandlerRow /\ AnswerGood(handler[h], approval, native)
  BY AnswersInvByRow DEF TypeOK
<1>4. AnswersInv'
  <2>1. CASE AnswerCapture(h)
    <3> DEFINE asking == handler[h].asking /\ Token(h) # 0
               row == [handler[h] EXCEPT !.pc = "recheck", !.token = Token(h),
                                         !.asking = asking]
    <3>1. handler' = [handler EXCEPT ![h] = row]
      BY <2>1, <1>3 DEF AnswerCapture, TypeOK, HandlerRow
    <3>2. Token(h) # 0 => handler[h].decision = "cancel"
      BY <1>3 DEF Token, AnswerGood
    <3>3. AnswerGood(row, approval', native')
      <4> HIDE DEF asking
      <4> QED
        BY <1>1, <1>3, <2>1, <3>2 DEF AnswerCapture, AnswerGood, HandlerRow
    <3> HIDE DEF row
    <3> QED
      BY <1>2, <3>1, <3>3, OneAnswerSteps
  <2>2. CASE AnswerRecheck(h)
    <3> DEFINE row == IF Pending(handler[h].approval)
                      THEN [handler[h] EXCEPT !.pc = "native"] ELSE IdleHandler
    <3>1. handler' = [handler EXCEPT ![h] = row]
      BY <2>2, <1>3 DEF AnswerRecheck, TypeOK
    <3>2. AnswerGood(row, approval', native')
      BY <1>1, <1>3, <2>2, IdleIsGood DEF AnswerRecheck, AnswerGood, HandlerRow
    <3> HIDE DEF row
    <3> QED
      BY <1>2, <3>1, <3>2, OneAnswerSteps
  <2>3. CASE AnswerWaits(h)
    <3> DEFINE row == [handler[h] EXCEPT !.pc = "read"]
    <3>1. handler' = [handler EXCEPT ![h] = row]
      BY <2>3, <1>3 DEF AnswerWaits, TypeOK, HandlerRow
    <3>2. AnswerGood(row, approval', native')
      BY <1>1, <1>3, <2>3 DEF AnswerWaits, AnswerGood, HandlerRow
    <3> HIDE DEF row
    <3> QED
      BY <1>2, <3>1, <3>2, OneAnswerSteps
  <2>4. CASE DeriveRead(h)
    <3> DEFINE m == approval[handler[h].approval].turn
               others == \E b \in Approvals \ {handler[h].approval} : Pending(b)
               latest == [handler[h] EXCEPT !.pc = "registered", !.seen = message[m],
                                            !.others = others]
               older == [handler[h] EXCEPT !.pc = "settle", !.status = threadStatus]
    <3>1. handler' = [handler EXCEPT ![h] = IF IsLatest(m) THEN latest ELSE older]
      BY <2>4 DEF DeriveRead
    <3>2. AnswerGood(latest, approval', native') /\ AnswerGood(older, approval', native')
      BY <1>1, <1>3, <2>4 DEF DeriveRead, AnswerGood, HandlerRow
    <3> HIDE DEF latest, older
    <3>3. CASE IsLatest(m)
      BY <1>2, <3>1, <3>2, <3>3, OneAnswerSteps
    <3>4. CASE ~IsLatest(m)
      BY <1>2, <3>1, <3>2, <3>4, OneAnswerSteps
    <3> QED
      BY <3>3, <3>4
  <2>5. CASE DeriveRegistered(h)
    <3> DEFINE mark == IF Orphan(h) THEN "interrupted" ELSE "none"
               row == [handler[h] EXCEPT !.pc = "settle", !.seen = "none",
                                         !.others = FALSE, !.status = DeriveStatus(h),
                                         !.mark = mark]
    <3>1. handler' = [handler EXCEPT ![h] = row]
      BY <2>5, <1>3 DEF DeriveRegistered, TypeOK, HandlerRow
    <3>2. AnswerGood(row, approval', native')
      BY <1>1, <1>3, <2>5 DEF DeriveRegistered, AnswerGood, HandlerRow
    <3> HIDE DEF row
    <3> QED
      BY <1>2, <3>1, <3>2, OneAnswerSteps
  <2> QED
    BY <2>1, <2>2, <2>3, <2>4, <2>5
<1> QED
  BY <1>2, <1>4

\* The agent's reply: an acceptance goes on as answered only when the agent had
\* the approval open and took it.
LEMMA ReplyKeeps ==
    ASSUME AcceptanceInv, NEW h \in Handlers, AnswerNative(h)
    PROVE  RequestedFirst' /\ AnswersInv' /\ AcceptanceIsReal'
<1> USE DEF AcceptanceInv
<1> DEFINE a == handler[h].approval
<1>1. handler[h] \in HandlerRow /\ AnswerGood(handler[h], approval, native)
  BY AnswersInvByRow DEF TypeOK
<1>2. a \in Approvals /\ approval[a].status # "none" /\ approval' = approval
  BY <1>1 DEF AnswerNative, AnswerGood
<1>3. \A b \in Approvals :
        \/ native'[b] = native[b]
        \/ b = a /\ native[b] = "open" /\ native'[b] \in {"accepted", "cancelled"}
  <2>1. native \in [Approvals -> {"none", "open", "accepted", "cancelled", "dead"}]
    BY DEF TypeOK
  <2>2. \/ native' = native
        \/ native[a] = "open" /\ native' = [native EXCEPT ![a] = "accepted"]
        \/ native[a] = "open" /\ native' = [native EXCEPT ![a] = "cancelled"]
    BY Zenon DEF AnswerNative, NativeReplies
  <2> HIDE DEF a
  <2> QED
    BY <2>1, <2>2
<1>4. AgentMovesOn /\ RequestedFirst' /\ AcceptanceIsReal'
  BY <1>2, <1>3 DEF AgentMovesOn, RequestedFirst, AcceptanceIsReal
<1> DEFINE row(reply) == [handler[h] EXCEPT !.pc = "read", !.reply = reply]
<1>5. CASE /\ native[a] = "open"
           /\ native' = [native EXCEPT ![a] = IF handler[h].decision = "accept"
                                              THEN "accepted" ELSE "cancelled"]
           /\ handler' = [handler EXCEPT ![h].pc = "read", ![h].reply = "answered"]
  <2>1. handler' = [handler EXCEPT ![h] = row("answered")]
    BY <1>5, <1>1 DEF TypeOK, HandlerRow
  <2>2. handler[h].decision = "accept" => native'[a] = "accepted"
    BY <1>2, <1>5 DEF TypeOK
  <2>3. AnswerGood(row("answered"), approval', native')
    BY <1>1, <1>2, <2>2 DEF AnswerGood, HandlerRow
  <2> HIDE DEF row
  <2> QED
    BY <1>4, <2>1, <2>3, OneAnswerSteps
<1>6. CASE handler' = [handler EXCEPT ![h].pc = "read",
                         ![h].reply = IF handler[h].decision = "accept" THEN "expired"
                                                                        ELSE "answered"]
  <2> DEFINE reply == IF handler[h].decision = "accept" THEN "expired" ELSE "answered"
  <2>1. handler' = [handler EXCEPT ![h] = row(reply)]
    BY <1>6, <1>1 DEF TypeOK, HandlerRow
  <2>2. AnswerGood(row(reply), approval', native')
    BY <1>1, <1>2 DEF AnswerGood, HandlerRow
  <2> HIDE DEF row
  <2> QED
    BY <1>4, <2>1, <2>2, OneAnswerSteps
<1>7. CASE handler[h].decision = "accept" /\ handler' = [handler EXCEPT ![h] = IdleHandler]
  BY <1>4, <1>7, IdleIsGood, OneAnswerSteps
<1>8. CASE /\ handler[h].decision # "accept"
           /\ handler' = [handler EXCEPT ![h] = row("answered")]
  <2>1. AnswerGood(row("answered"), approval', native')
    BY <1>1, <1>2, <1>8 DEF AnswerGood, HandlerRow
  <2> HIDE DEF row
  <2> QED
    BY <1>4, <1>8, <2>1, OneAnswerSteps
<1>9. \/ /\ native[a] = "open"
         /\ native' = [native EXCEPT ![a] = IF handler[h].decision = "accept"
                                            THEN "accepted" ELSE "cancelled"]
         /\ handler' = [handler EXCEPT ![h].pc = "read", ![h].reply = "answered"]
      \/ handler' = [handler EXCEPT ![h].pc = "read",
                       ![h].reply = IF handler[h].decision = "accept" THEN "expired"
                                                                      ELSE "answered"]
      \/ handler[h].decision = "accept" /\ handler' = [handler EXCEPT ![h] = IdleHandler]
      \/ handler[h].decision # "accept" /\ handler' = [handler EXCEPT ![h] = row("answered")]
  BY DEF AnswerNative, NativeReplies
<1> QED
  BY <1>4, <1>5, <1>6, <1>7, <1>8, <1>9

LEMMA CancelKeeps ==
    ASSUME AcceptanceInv, NEW h \in Handlers, AnswerCancels(h)
    PROVE  RequestedFirst' /\ AnswersInv' /\ AcceptanceIsReal'
<1> USE DEF AcceptanceInv
<1> DEFINE row == [handler[h] EXCEPT !.pc = "wait", !.reply = "answered"]
<1>1. handler[h] \in HandlerRow /\ AnswerGood(handler[h], approval, native)
  BY AnswersInvByRow DEF TypeOK
<1>2. /\ handler[h].approval \in Approvals /\ handler[h].decision = "cancel"
      /\ approval[handler[h].approval].status # "none" /\ approval' = approval
  BY <1>1 DEF AnswerCancels, AnswerGood
<1>3. \A b \in Approvals :
        \/ native'[b] = native[b]
        \/ b = handler[h].approval /\ native[b] = "open" /\ native'[b] = "cancelled"
  <2>1. native \in [Approvals -> {"none", "open", "accepted", "cancelled", "dead"}]
    BY DEF TypeOK
  <2>2. \/ native' = native
        \/ /\ native[handler[h].approval] = "open"
           /\ native' = [native EXCEPT ![handler[h].approval] = "cancelled"]
    BY Zenon DEF AnswerCancels
  <2> QED
    BY <2>1, <2>2
<1>4. AgentMovesOn /\ RequestedFirst' /\ AcceptanceIsReal'
  BY <1>2, <1>3 DEF AgentMovesOn, RequestedFirst, AcceptanceIsReal
<1>5. handler' = [handler EXCEPT ![h] = row]
  BY <1>1 DEF AnswerCancels, TypeOK, HandlerRow
<1>6. AnswerGood(row, approval', native')
  BY <1>1, <1>2 DEF AnswerGood, HandlerRow
<1> HIDE DEF row
<1> QED
  BY <1>4, <1>5, <1>6, OneAnswerSteps

\* The row is written: what it says of an acceptance is what the agent said.
LEMMA SettleKeeps ==
    ASSUME AcceptanceInv, NEW h \in Handlers, Settle(h)
    PROVE  RequestedFirst' /\ AnswersInv' /\ AcceptanceIsReal'
<1> USE DEF AcceptanceInv
<1> DEFINE a == handler[h].approval
<1>1. handler[h] \in HandlerRow /\ AnswerGood(handler[h], approval, native)
  BY AnswersInvByRow DEF TypeOK
<1>2. a \in Approvals /\ handler[h].pc = "settle"
      /\ handler' = [handler EXCEPT ![h] = IdleHandler] /\ native' = native
  BY <1>1 DEF Settle, AnswerGood
<1>3. CASE UNCHANGED dbVars
  <2>1. AgentMovesOn /\ RequestedFirst' /\ AcceptanceIsReal'
    BY <1>2, <1>3 DEF AgentMovesOn, RequestedFirst, AcceptanceIsReal
  <2> QED
    BY <1>2, <2>1, IdleIsGood, OneAnswerSteps
<1>4. CASE SettleRow(h)
  <2>1. \A b \in Approvals \ {a} : approval'[b] = approval[b]
    BY <1>4 DEF SettleRow, TypeOK
  <2>2. /\ approval'[a].status = handler[h].reply
        /\ approval'[a].decision = IF handler[h].reply = "answered"
                                   THEN handler[h].decision ELSE approval[a].decision
    BY <1>2, <1>4 DEF SettleRow, TypeOK, ApprovalRow
  <2>3. handler[h].reply # "none"
    BY <1>1, <1>2 DEF AnswerGood
  <2>4. AgentMovesOn /\ RequestedFirst'
    BY <1>2, <2>1, <2>2, <2>3 DEF AgentMovesOn, RequestedFirst
  <2>5. approval'[a].decision = "accept" => native[a] = "accepted"
    BY <1>1, <1>2, <2>2 DEF AnswerGood, AcceptanceIsReal
  <2>6. AcceptanceIsReal'
    BY <1>2, <2>1, <2>5 DEF AcceptanceIsReal
  <2> QED
    BY <1>2, <2>4, <2>6, IdleIsGood, OneAnswerSteps
<1> QED
  BY <1>3, <1>4 DEF Settle

LEMMA ReadKeeps ==
    ASSUME AcceptanceInv, NEW h \in Handlers, NEW a \in Approvals,
           NEW decision \in {"accept", "cancel"}, AnswerRead(h, a, decision)
    PROVE  RequestedFirst' /\ AnswersInv' /\ AcceptanceIsReal'
<1> USE DEF AcceptanceInv
<1> DEFINE current == /\ IsLatest(approval[a].turn)
                      /\ message[approval[a].turn] = "streaming"
           cancels == current /\ decision = "cancel"
           asking  == Live(approval[a].turn)
           row == [IdleHandler EXCEPT !.pc = "capture", !.approval = a,
                                      !.decision = decision, !.current = cancels,
                                      !.asking = asking]
<1>1. approval' = approval /\ native' = native /\ approval[a].status = "pending"
  BY DEF AnswerRead, Asks, Pending
<1>2. handler' = [handler EXCEPT ![h] = row]
  BY DEF AnswerRead, Asks
<1>3. AgentMovesOn /\ RequestedFirst' /\ AcceptanceIsReal'
  BY <1>1 DEF AgentMovesOn, RequestedFirst, AcceptanceIsReal
<1>4. AnswerGood(row, approval', native')
  <2>1. cancels => decision = "cancel"
    OBVIOUS
  <2> HIDE DEF cancels, asking
  <2> QED
    BY <1>1, <2>1 DEF IdleHandler, AnswerGood
<1> HIDE DEF row
<1> QED
  BY <1>2, <1>3, <1>4, OneAnswerSteps

LEMMA ExitKeeps ==
    ASSUME AcceptanceInv, Exit
    PROVE  RequestedFirst' /\ AnswersInv' /\ AcceptanceIsReal'
<1> USE DEF AcceptanceInv
<1>1. /\ approval' = approval
      /\ \A h \in Handlers : handler'[h] = IdleHandler
      /\ \A a \in Approvals : \/ native'[a] = native[a]
                              \/ native[a] = "open" /\ native'[a] = "dead"
  BY DEF Exit
<1>2. RequestedFirst' /\ AcceptanceIsReal'
  BY <1>1 DEF RequestedFirst, AcceptanceIsReal
<1>3. AnswersInv'
  BY <1>1 DEF AnswersInv, AnswerHasRow, TokenMeansCancel, AnswerKeepsWord,
              AnswerHasReply, IdleHandler
<1> QED
  BY <1>2, <1>3

\* One step per action; those that touch no approval and no answer are one case.
LEMMA StepKeepsAcceptance == AcceptanceInv /\ [Next]_vars => AcceptanceInv'
<1> SUFFICES ASSUME AcceptanceInv, [Next]_vars PROVE AcceptanceInv'
  OBVIOUS
<1>1. TypeOK'
  BY StepTypeOK DEF AcceptanceInv
<1>2. CASE UNCHANGED <<approval, native, handler>>
  BY <1>1, <1>2, DropsKeepAcceptance DEF AcceptanceInv
<1>3. ASSUME NEW m \in Turns, Submit(m) \/ RunTurn(m)
      PROVE  AcceptanceInv'
  <2>1. CASE Interrupt(m)
    <3>1. /\ approval' = approval /\ handler' = handler
          /\ \A a \in Approvals : \/ native'[a] = native[a]
                                  \/ native[a] = "open" /\ native'[a] = "dead"
      BY <2>1 DEF Interrupt
    <3> QED
      BY <1>1, <3>1, DropsKeepAcceptance DEF AcceptanceInv
  <2>2. CASE ~Interrupt(m)
    <3>1. UNCHANGED <<approval, native, handler>>
      BY <1>3, <2>2
         DEF Submit, RunTurn, Register, PlaceMessage, MarkStreaming, SaveFails,
             FlushAwaiting, UserClickedStop, WriteFinalMessage, WriteFinalStatus,
             FinishTurn, CompleteMessage
    <3> QED
      BY <1>2, <3>1
  <2> QED
    BY <2>1, <2>2
<1>4. ASSUME NEW m \in Turns, Report(m)
      PROVE  AcceptanceInv'
  <2>1. CASE Completed(m) \/ FlushAgain(m)
    BY <1>2, <2>1 DEF Completed, FlushAgain
  <2> QED
    BY <1>1, <1>4, <2>1, RequestKeepsAcceptance, ExpiryKeepsAcceptance
       DEF Report, AcceptanceInv
<1>5. ASSUME NEW a \in Approvals, NativeDrops(a)
      PROVE  AcceptanceInv'
  <2>1. /\ approval' = approval /\ handler' = handler
        /\ \A b \in Approvals : \/ native'[b] = native[b]
                                \/ native[b] = "open" /\ native'[b] = "dead"
    BY <1>5 DEF NativeDrops, AcceptanceInv, TypeOK
  <2> QED
    BY <1>1, <2>1, DropsKeepAcceptance DEF AcceptanceInv
<1>6. CASE \/ \E a \in Approvals : ResolveRead(a)
           \/ StopTurn \/ ArchiveBegin \/ ArchiveEnd \/ Start
  BY <1>2, <1>6 DEF ResolveRead, StopTurn, ArchiveBegin, ArchiveEnd, Start
<1>7. CASE Exit
  BY <1>1, <1>7, ExitKeeps DEF AcceptanceInv
<1>8. ASSUME NEW h \in Handlers, Answer(h)
      PROVE  AcceptanceInv'
  BY <1>1, <1>8, QuietAnswerKeeps, ReplyKeeps, CancelKeeps, SettleKeeps
     DEF Answer, AcceptanceInv
<1>9. ASSUME NEW h \in Handlers, NEW a \in Approvals, NEW d \in {"accept", "cancel"},
             AnswerRead(h, a, d)
      PROVE  AcceptanceInv'
  BY <1>1, <1>9, ReadKeeps DEF AcceptanceInv
<1>10. CASE UNCHANGED vars
  BY <1>2, <1>10 DEF vars
<1>11. CASE ResolveCommit
  BY <1>1, <1>11, ResolutionKeepsAcceptance DEF AcceptanceInv
<1> QED
  BY <1>3, <1>4, <1>5, <1>6, <1>7, <1>8, <1>9, <1>10, <1>11 DEF Next, Others

LEMMA InitAcceptance == Init => AcceptanceInv
<1> SUFFICES ASSUME Init PROVE AcceptanceInv
  OBVIOUS
<1>1. RequestedFirst /\ AcceptanceIsReal
  BY DEF Init, RequestedFirst, AcceptanceIsReal, NoRow
<1>2. AnswersInv
  BY DEF Init, AnswersInv, AnswerHasRow, TokenMeansCancel, AnswerKeepsWord,
         AnswerHasReply, IdleHandler
<1> QED
  BY <1>1, <1>2, InitTypeOK DEF AcceptanceInv

\* An acceptance in the table is one the agent took, whoever answered beside it,
\* whatever call failed and whenever the application exited.
THEOREM AcceptancesAreReal == Spec => []AcceptanceIsReal
<1>1. AcceptanceInv => AcceptanceIsReal
  BY DEF AcceptanceInv
<1> QED
  BY InitAcceptance, StepKeepsAcceptance, <1>1, PTL DEF Spec

-----------------------------------------------------------------------------
(* Settled approvals.                                                      *)

\* A row carries a decision only when it is answered.
Undecided(row) == row.status # "answered" => row.decision = "none"

UnsettledIsUndecided == \A a \in Approvals : Undecided(approval[a])

SettlementInv == TypeOK /\ UnsettledIsUndecided

\* What a step may do to a row: one that is settled is written only to add the
\* decision to a resolution that came without.
RowMoves(row, next) ==
    /\ row.status = "expired" \/ row.decision # "none" => next = row
    /\ row.status = "answered" => next.status = "answered"
    /\ Undecided(next)

\* The four steps that write the approvals table.
LEMMA RequestMovesRow ==
    ASSUME SettlementInv, NEW a \in Approvals,
           NEW m \in Turns, NEW b \in Approvals, RequestApproval(m, b)
    PROVE  RowMoves(approval[a], approval'[a])
<1>1. approval[b].status = "none" /\ Undecided(approval[b]) /\ Undecided(approval[a])
  BY DEF RequestApproval, SettlementInv, UnsettledIsUndecided
<1>2. PICK s \in {"pending", "unsaved"} :
        approval' = [approval EXCEPT ![b] = [NoRow EXCEPT !.turn = m, !.status = s]]
  BY DEF RequestApproval
<1>3. CASE a = b
  BY <1>1, <1>2, <1>3 DEF SettlementInv, TypeOK, NoRow, RowMoves, Undecided
<1>4. CASE a # b
  BY <1>1, <1>2, <1>4 DEF SettlementInv, TypeOK, RowMoves
<1> QED
  BY <1>3, <1>4

LEMMA StatusMovesRow ==
    ASSUME SettlementInv, NEW a \in Approvals, NEW b,
           NEW status \in {"answered", "expired"}, Pending(b),
           approval' = [approval EXCEPT ![b].status = status]
    PROVE  RowMoves(approval[a], approval'[a])
<1>1. Undecided(approval[a]) /\ approval[a] \in ApprovalRow
  BY DEF SettlementInv, UnsettledIsUndecided, TypeOK
<1>2. CASE a = b
  <2>1. approval'[a] = [approval[a] EXCEPT !.status = status]
    BY <1>2 DEF SettlementInv, TypeOK
  <2> QED
    BY <1>1, <1>2, <2>1 DEF Pending, RowMoves, Undecided, ApprovalRow
<1>3. CASE a # b
  <2>1. approval'[a] = approval[a]
    BY <1>3 DEF SettlementInv, TypeOK
  <2> QED
    BY <1>1, <2>1 DEF RowMoves
<1> QED
  BY <1>2, <1>3

LEMMA SettleMovesRow ==
    ASSUME SettlementInv, NEW a \in Approvals, NEW h \in Handlers, Settle(h)
    PROVE  RowMoves(approval[a], approval'[a])
<1>1. Undecided(approval[a]) /\ approval[a] \in ApprovalRow
  BY DEF SettlementInv, UnsettledIsUndecided, TypeOK
<1>2. CASE approval'[a] = approval[a]
  BY <1>1, <1>2 DEF RowMoves
<1>3. CASE Settleable(h) /\ SettleRow(h) /\ a = handler[h].approval
  <2>1. /\ approval'[a].status = handler[h].reply
        /\ approval'[a].decision = IF handler[h].reply = "answered"
                                   THEN handler[h].decision ELSE approval[a].decision
    BY <1>1, <1>3 DEF SettleRow, SettlementInv, TypeOK, ApprovalRow
  <2>2. CASE Pending(a)
    BY <1>1, <2>1, <2>2 DEF Pending, RowMoves, Undecided
  <2>3. CASE /\ handler[h].reply = "answered"
             /\ approval[a].status = "answered" /\ approval[a].decision = "none"
    BY <2>1, <2>3 DEF RowMoves, Undecided
  <2> QED
    BY <1>3, <2>2, <2>3 DEF Settleable
<1>4. CASE SettleRow(h) /\ a # handler[h].approval
  BY <1>2, <1>4 DEF SettleRow, SettlementInv, TypeOK
<1> QED
  BY <1>2, <1>3, <1>4 DEF Settle

LEMMA StepMovesRow ==
    ASSUME SettlementInv, [Next]_vars, NEW a \in Approvals
    PROVE  RowMoves(approval[a], approval'[a])
<1>1. CASE approval' = approval
  BY <1>1 DEF SettlementInv, UnsettledIsUndecided, RowMoves
<1>2. ASSUME NEW m \in Turns, Report(m)
      PROVE  RowMoves(approval[a], approval'[a])
  <2>1. CASE Completed(m) \/ FlushAgain(m)
    BY <1>1, <2>1 DEF Completed, FlushAgain
  <2>2. ASSUME NEW b \in Approvals, ExpireApproval(m, b)
        PROVE  RowMoves(approval[a], approval'[a])
    BY <1>1, <2>2, StatusMovesRow DEF ExpireApproval
  <2> QED
    BY <1>2, <2>1, <2>2, RequestMovesRow DEF Report
<1>3. ASSUME NEW m \in Turns, Submit(m) \/ RunTurn(m)
      PROVE  approval' = approval
  BY <1>3
     DEF Submit, RunTurn, Register, PlaceMessage, MarkStreaming, SaveFails,
         FlushAwaiting, UserClickedStop, Interrupt, WriteFinalMessage, WriteFinalStatus,
         FinishTurn, CompleteMessage
<1>4. ASSUME NEW h \in Handlers, Answer(h)
      PROVE  RowMoves(approval[a], approval'[a])
  <2>1. CASE Settle(h)
    BY <2>1, SettleMovesRow
  <2> QED
    BY <1>1, <1>4, <2>1
       DEF Answer, AnswerCapture, AnswerRecheck, AnswerNative, AnswerCancels,
           AnswerWaits, DeriveRead, DeriveRegistered
<1>5. CASE ResolveCommit
  BY <1>1, <1>5, StatusMovesRow DEF ResolveCommit
<1>6. CASE \/ \E b \in Approvals : NativeDrops(b) \/ ResolveRead(b)
           \/ StopTurn \/ ArchiveBegin \/ ArchiveEnd \/ Exit \/ Start
  BY <1>1, <1>6 DEF NativeDrops, ResolveRead, StopTurn, ArchiveBegin, ArchiveEnd, Exit,
                    Start
<1>7. CASE \E h \in Handlers, b \in Approvals, d \in {"accept", "cancel"} : AnswerRead(h, b, d)
  BY <1>1, <1>7 DEF AnswerRead, Asks
<1>8. CASE UNCHANGED vars
  BY <1>1, <1>8 DEF vars
<1> QED
  BY <1>1, <1>2, <1>3, <1>4, <1>5, <1>6, <1>7, <1>8 DEF Next, Others

\* Of any number of answers to an approval, its expiry and the reports that it is
\* resolved, the first one saved is never overwritten.
THEOREM FirstSettlementStays == Spec => SettledStays
<1> DEFINE Kept == \A a \in Approvals :
                     /\ approval[a].status = "expired" \/ approval[a].decision # "none"
                           => approval'[a] = approval[a]
                     /\ approval[a].status = "answered" => approval'[a].status = "answered"
<1>1. Init => SettlementInv
  BY InitTypeOK DEF Init, NoRow, SettlementInv, UnsettledIsUndecided, Undecided
<1>2. SettlementInv /\ [Next]_vars => SettlementInv'
  BY StepTypeOK, StepMovesRow DEF SettlementInv, UnsettledIsUndecided, RowMoves
<1>3. SettlementInv /\ [Next]_vars => [Kept]_vars
  BY StepMovesRow DEF RowMoves
<1> QED
  BY <1>1, <1>2, <1>3, PTL DEF Spec, SettledStays

-----------------------------------------------------------------------------
(* The approvals implement ApprovalLedger.                                 *)

LedgerStep == Ledger!Next \/ UNCHANGED <<approval, native>>

OverAtAgent == {"accepted", "cancelled", "dead"}
Shown(row) == row.status \notin {"none", "unsaved"}

\* What the agent was asked has a row and the other way round.
AskedOnBothSides ==
    \A a \in Approvals : approval[a].status = "none" <=> native[a] = "none"

\* An answer is about a request the user was shown; what it found expired at the
\* agent is so.
AnswerShown(row, approvals, natives) ==
    row.pc # "idle" =>
        /\ row.approval \in Approvals /\ row.decision \in {"accept", "cancel"}
        /\ Shown(approvals[row.approval])
        /\ row.reply = "expired" => natives[row.approval] \in OverAtAgent

AnswersShown == \A h \in Handlers : AnswerShown(handler[h], approval, native)

\* A report is about a request that is over for the agent.
ReportShown ==
    resolver # NoResolver => /\ resolver.approval \in Approvals
                             /\ native[resolver.approval] \in OverAtAgent

LedgerInv ==
    /\ AcceptanceInv /\ UnsettledIsUndecided
    /\ AskedOnBothSides /\ AnswersShown /\ ReportShown

RowStatus   == {"none", "unsaved", "pending", "answered", "expired"}
RowDecision == {"none", "accept", "cancel"}

\* A row is made of its three fields, and of those an update leaves alone.
LEMMA RowIsEntry ==
    ASSUME NEW row \in ApprovalRow
    PROVE  row = Ledger!Entry(row.turn, row.status, row.decision)
BY DEF ApprovalRow, Ledger!Entry

LEMMA AskedEntry ==
    ASSUME NEW row \in ApprovalRow, NEW asker \in 0..MaxTurns, NEW status \in RowStatus
    PROVE  [row EXCEPT !.turn = asker, !.status = status]
             = Ledger!Entry(asker, status, row.decision)
<1> DEFINE new == [row EXCEPT !.turn = asker, !.status = status]
<1>1. /\ new \in ApprovalRow /\ new.turn = asker /\ new.status = status
      /\ new.decision = row.decision
  BY DEF ApprovalRow, RowStatus
<1> HIDE DEF new
<1>2. new = Ledger!Entry(asker, status, row.decision)
  BY <1>1, RowIsEntry
<1> QED
  BY <1>2 DEF new

LEMMA ClosedEntry ==
    ASSUME NEW row \in ApprovalRow, NEW status \in RowStatus
    PROVE  [row EXCEPT !.status = status] = Ledger!Entry(row.turn, status, row.decision)
<1> DEFINE new == [row EXCEPT !.status = status]
<1>1. /\ new \in ApprovalRow /\ new.turn = row.turn /\ new.status = status
      /\ new.decision = row.decision
  BY DEF ApprovalRow, RowStatus
<1> HIDE DEF new
<1>2. new = Ledger!Entry(row.turn, status, row.decision)
  BY <1>1, RowIsEntry
<1> QED
  BY <1>2 DEF new

LEMMA DecidedEntry ==
    ASSUME NEW row \in ApprovalRow, NEW d \in RowDecision
    PROVE  [row EXCEPT !.status = "answered", !.decision = d]
             = Ledger!Entry(row.turn, "answered", d)
<1> DEFINE new == [row EXCEPT !.status = "answered", !.decision = d]
<1>1. new \in ApprovalRow /\ new.turn = row.turn /\ new.status = "answered" /\ new.decision = d
  BY DEF ApprovalRow, RowDecision
<1> HIDE DEF new
<1>2. new = Ledger!Entry(row.turn, "answered", d)
  BY <1>1, RowIsEntry
<1> QED
  BY <1>2 DEF new

LEMMA RequestLedger ==
    ASSUME LedgerInv, NEW m \in Turns, NEW a \in Approvals, RequestApproval(m, a)
    PROVE  Ledger!Ask(a, m)
<1>1. PICK s \in {"pending", "unsaved"} :
        approval' = [approval EXCEPT ![a] = [NoRow EXCEPT !.turn = m, !.status = s]]
  BY DEF RequestApproval
<1>2. [NoRow EXCEPT !.turn = m, !.status = s] = Ledger!Entry(m, s, "none")
  <2>1. /\ NoRow \in ApprovalRow /\ NoRow.decision = "none"
        /\ m \in 0..MaxTurns /\ s \in RowStatus /\ "none" \in RowDecision
    BY ChatConstants, TurnNumbers DEF NoRow, ApprovalRow, RowStatus, RowDecision
  <2>2. [NoRow EXCEPT !.turn = m, !.status = s] = Ledger!Entry(m, s, NoRow.decision)
    BY <2>1, AskedEntry, Zenon
  <2> QED
    BY <2>1, <2>2
<1>3. approval[a].status = "none" /\ native[a] = "none"
  BY DEF RequestApproval, LedgerInv, AskedOnBothSides
<1> QED
  BY <1>1, <1>2, <1>3 DEF RequestApproval, Ledger!Ask

\* A status written alone closes a row that has no decision.
LEMMA StatusCloses ==
    ASSUME LedgerInv, NEW a \in Approvals, NEW status \in {"expired", "answered"},
           Pending(a), native[a] \in OverAtAgent, native' = native,
           approval' = [approval EXCEPT ![a].status = status]
    PROVE  Ledger!Close(a, status)
<1>1. approval \in [Approvals -> ApprovalRow] /\ approval[a].decision = "none"
  BY DEF LedgerInv, AcceptanceInv, TypeOK, UnsettledIsUndecided, Undecided, Pending
<1>2. approval' = [approval EXCEPT ![a] = [approval[a] EXCEPT !.status = status]]
  BY <1>1
<1>3. approval' = [approval EXCEPT ![a] = Ledger!Entry(approval[a].turn, status, "none")]
  <2>1. status \in RowStatus /\ approval[a] \in ApprovalRow
    BY <1>1 DEF RowStatus
  <2>2. [approval[a] EXCEPT !.status = status]
          = Ledger!Entry(approval[a].turn, status, approval[a].decision)
    BY <2>1, ClosedEntry, Zenon
  <2> QED
    BY <1>1, <1>2, <2>1, <2>2
<1> QED
  BY <1>3 DEF Ledger!Close, Ledger!Over, OverAtAgent, Pending

LEMMA DropsLedger ==
    ASSUME LedgerInv, approval' = approval, NEW D \in SUBSET Approvals,
           \A a \in D : native[a] = "open",
           native' = [a \in Approvals |-> IF a \in D THEN "dead" ELSE native[a]]
    PROVE  LedgerStep
<1>1. Ledger!Drop(D)
  BY DEF Ledger!Drop
<1> QED
  BY <1>1 DEF LedgerStep, Ledger!Next

\* What the agent is told in an answer it is told of a request that was shown.
LEMMA ReplyLedger ==
    ASSUME LedgerInv, NEW h \in Handlers, AnswerNative(h) \/ AnswerCancels(h)
    PROVE  LedgerStep
<1> DEFINE a == handler[h].approval
           d == handler[h].decision
<1>1. a \in Approvals /\ Shown(approval[a]) /\ d \in {"accept", "cancel"} /\ approval' = approval
  BY DEF LedgerInv, AnswersShown, AnswerShown, AnswerNative, AnswerCancels
<1>2. AnswerCancels(h) => d = "cancel"
  BY DEF LedgerInv, AcceptanceInv, AnswersInv, TokenMeansCancel, AnswerCancels
<1>3. \/ native' = native
      \/ native[a] = "open" /\ native' = [native EXCEPT ![a] = Ledger!Told(d)]
  <2>1. Ledger!Told(d) = IF d = "accept" THEN "accepted" ELSE "cancelled"
    BY DEF Ledger!Told
  <2>2. AnswerNative(h) => \/ native' = native
                           \/ native[a] = "open" /\ native' = [native EXCEPT ![a] = Ledger!Told(d)]
    BY <2>1, Zenon DEF AnswerNative, NativeReplies
  <2>3. AnswerCancels(h) => \/ native' = native
                            \/ native[a] = "open" /\ native' = [native EXCEPT ![a] = "cancelled"]
    BY Zenon DEF AnswerCancels
  <2> QED
    BY <1>2, <2>1, <2>2, <2>3
<1>4. CASE native' = native
  BY <1>1, <1>4 DEF LedgerStep
<1>5. CASE native[a] = "open" /\ native' = [native EXCEPT ![a] = Ledger!Told(d)]
  <2>1. Ledger!Tell(a, d)
    BY <1>1, <1>5 DEF Ledger!Tell, Shown
  <2> QED
    BY <1>1, <2>1 DEF LedgerStep, Ledger!Next, Ledger!Decisions
<1> QED
  BY <1>3, <1>4, <1>5

\* What an answer saves is its decision, or that the agent no longer waited.
LEMMA SettleLedger ==
    ASSUME LedgerInv, NEW h \in Handlers, Settle(h)
    PROVE  LedgerStep
<1> DEFINE a == handler[h].approval
           d == handler[h].decision
<1>1. /\ a \in Approvals /\ d \in {"accept", "cancel"} /\ native' = native
      /\ handler[h].reply = "expired" => native[a] \in OverAtAgent
  BY DEF LedgerInv, AnswersShown, AnswerShown, Settle
<1>2. /\ d = "accept" /\ handler[h].reply = "answered" => native[a] = "accepted"
      /\ handler[h].reply \in {"answered", "expired"}
  BY DEF LedgerInv, AcceptanceInv, AnswersInv, AnswerKeepsWord, AnswerHasReply, Settle, TypeOK,
         HandlerRow
<1>3. approval \in [Approvals -> ApprovalRow] /\ Undecided(approval[a])
  BY <1>1 DEF LedgerInv, AcceptanceInv, TypeOK, UnsettledIsUndecided
<1>4. CASE Settleable(h) /\ SettleRow(h) /\ handler[h].reply = "answered"
  <2>1. approval' = [approval EXCEPT ![a].status = "answered", ![a].decision = d]
    BY <1>4 DEF SettleRow
  <2>2. approval' = [approval EXCEPT ![a] = Ledger!Entry(approval[a].turn, "answered", d)]
    <3>1. approval' = [approval EXCEPT ![a] =
                         [approval[a] EXCEPT !.status = "answered", !.decision = d]]
      BY <1>1, <1>3, <2>1
    <3>2. d \in RowDecision /\ approval[a] \in ApprovalRow
      BY <1>1, <1>3 DEF RowDecision
    <3>3. [approval[a] EXCEPT !.status = "answered", !.decision = d]
            = Ledger!Entry(approval[a].turn, "answered", d)
      BY <3>2, DecidedEntry, Zenon
    <3> QED
      BY <3>1, <3>3
  <2>3. approval[a].status \in {"pending", "answered"} /\ approval[a].decision = "none"
    BY <1>3, <1>4 DEF Settleable, Pending, Undecided
  <2>4. Ledger!Decide(a, d)
    BY <1>1, <1>2, <1>4, <2>2, <2>3 DEF Ledger!Decide
  <2> QED
    BY <1>1, <2>4 DEF LedgerStep, Ledger!Next, Ledger!Decisions
<1>5. CASE Settleable(h) /\ SettleRow(h) /\ handler[h].reply = "expired"
  <2>1. Pending(a)
    BY <1>5 DEF Settleable
  <2>2. approval' = [approval EXCEPT ![a].status = "expired"]
    <3>1. approval' = [approval EXCEPT ![a].status = "expired",
                                       ![a].decision = approval[a].decision]
      BY <1>1, <1>3, <1>5 DEF SettleRow, ApprovalRow
    <3> QED
      BY <1>1, <1>3, <3>1 DEF ApprovalRow
  <2>3. Ledger!Close(a, "expired")
    BY <1>1, <1>5, <2>1, <2>2, StatusCloses
  <2> QED
    BY <1>1, <2>3 DEF LedgerStep, Ledger!Next
<1>6. CASE UNCHANGED dbVars
  BY <1>1, <1>6 DEF LedgerStep
<1> QED
  BY <1>2, <1>4, <1>5, <1>6 DEF Settle

\* One step per action of ChatTurn: a step of the ledger or a stutter.
LEMMA NextLedger ==
    ASSUME LedgerInv, [Next]_vars
    PROVE  LedgerStep
<1>1. CASE UNCHANGED <<approval, native>>
  BY <1>1 DEF LedgerStep
<1>2. ASSUME NEW m \in Turns, Report(m)
      PROVE  LedgerStep
  <2>1. ASSUME NEW a \in Approvals, ExpireApproval(m, a)
        PROVE  LedgerStep
    <3>1. CASE approval' = [approval EXCEPT ![a].status = "expired"]
      <4>1. Pending(a) /\ native[a] \in OverAtAgent /\ native' = native
        BY <2>1 DEF ExpireApproval, OverAtAgent
      <4>2. Ledger!Close(a, "expired")
        BY <3>1, <4>1, StatusCloses
      <4> QED
        BY <4>2 DEF LedgerStep, Ledger!Next
    <3> QED
      BY <1>1, <2>1, <3>1 DEF ExpireApproval
  <2>2. ASSUME NEW a \in Approvals, RequestApproval(m, a)
        PROVE  LedgerStep
    BY <2>2, RequestLedger DEF LedgerStep, Ledger!Next
  <2> QED
    BY <1>1, <1>2, <2>1, <2>2 DEF Report, Completed, FlushAgain
<1>3. ASSUME NEW m \in Turns, Submit(m) \/ RunTurn(m)
      PROVE  LedgerStep
  <2>1. CASE Interrupt(m)
    <3> DEFINE D == {a \in Approvals : approval[a].turn = m /\ native[a] = "open"}
    <3>1. \/ native' = [a \in Approvals |-> IF a \in D THEN "dead" ELSE native[a]]
          \/ native' = native
      BY <2>1 DEF Interrupt
    <3>2. D \in SUBSET Approvals /\ (\A a \in D : native[a] = "open") /\ approval' = approval
      BY <2>1 DEF Interrupt
    <3> HIDE DEF D
    <3> QED
      BY <1>1, <3>1, <3>2, DropsLedger
  <2> QED
    BY <1>1, <1>3, <2>1
       DEF Submit, RunTurn, Register, PlaceMessage, MarkStreaming, SaveFails,
           FlushAwaiting, UserClickedStop, WriteFinalMessage, WriteFinalStatus, FinishTurn,
           CompleteMessage
<1>4. ASSUME NEW h \in Handlers, Answer(h)
      PROVE  LedgerStep
  BY <1>1, <1>4, ReplyLedger, SettleLedger
     DEF Answer, AnswerCapture, AnswerRecheck, AnswerWaits, DeriveRead, DeriveRegistered
<1>5. ASSUME NEW a \in Approvals, NativeDrops(a)
      PROVE  LedgerStep
  <2>1. native' = [b \in Approvals |-> IF b \in {a} THEN "dead" ELSE native[b]]
    BY <1>5 DEF NativeDrops, LedgerInv, AcceptanceInv, TypeOK
  <2> QED
    BY <1>5, <2>1, DropsLedger DEF NativeDrops
<1>6. CASE Exit
  <2> DEFINE D == {a \in Approvals : native[a] = "open"}
  <2>1. native' = [a \in Approvals |-> IF a \in D THEN "dead" ELSE native[a]]
    BY <1>6 DEF Exit
  <2>2. D \in SUBSET Approvals /\ (\A a \in D : native[a] = "open") /\ approval' = approval
    BY <1>6 DEF Exit
  <2> HIDE DEF D
  <2> QED
    BY <2>1, <2>2, DropsLedger
<1>7. CASE ResolveCommit
  <2> DEFINE a == resolver.approval
  <2>1. a \in Approvals /\ native[a] \in OverAtAgent /\ native' = native
    BY <1>7 DEF ResolveCommit, LedgerInv, ReportShown
  <2>2. CASE Pending(a) /\ approval' = [approval EXCEPT ![a].status = "answered"]
    <3>1. Ledger!Close(a, "answered")
      BY <2>1, <2>2, StatusCloses
    <3> QED
      BY <2>1, <3>1 DEF LedgerStep, Ledger!Next
  <2> QED
    BY <1>1, <1>7, <2>1, <2>2 DEF ResolveCommit
<1>8. CASE \/ \E a \in Approvals : ResolveRead(a)
           \/ StopTurn \/ ArchiveBegin \/ ArchiveEnd \/ Start
  BY <1>1, <1>8 DEF ResolveRead, StopTurn, ArchiveBegin, ArchiveEnd, Start
<1>9. CASE \E h \in Handlers, a \in Approvals, d \in {"accept", "cancel"} : AnswerRead(h, a, d)
  BY <1>1, <1>9 DEF AnswerRead, Asks
<1>10. CASE UNCHANGED vars
  BY <1>1, <1>10 DEF vars
<1> QED
  BY <1>2, <1>3, <1>4, <1>5, <1>6, <1>7, <1>8, <1>9, <1>10 DEF Next, Others

\* What a step of the ledger keeps, and with it what the answers under way rely on.
LEMMA LedgerMovesOn ==
    ASSUME LedgerInv, LedgerStep, NEW a \in Approvals
    PROVE  /\ Shown(approval[a]) => Shown(approval'[a])
           /\ native[a] \in OverAtAgent => native'[a] \in OverAtAgent
           /\ approval'[a].status = "none" <=> native'[a] = "none"
<1>0. /\ approval \in [Approvals -> ApprovalRow]
      /\ native \in [Approvals -> {"none", "open", "accepted", "cancelled", "dead"}]
      /\ approval[a].status = "none" <=> native[a] = "none"
  BY DEF LedgerInv, AcceptanceInv, TypeOK, AskedOnBothSides
<1>1. \A t, s, d : Ledger!Entry(t, s, d).status = s
  BY DEF Ledger!Entry
<1>2. ASSUME NEW b \in Approvals, NEW m \in Turns, Ledger!Ask(b, m)
      PROVE  /\ Shown(approval[a]) => Shown(approval'[a])
             /\ native[a] \in OverAtAgent => native'[a] \in OverAtAgent
             /\ approval'[a].status = "none" <=> native'[a] = "none"
  <2>1. CASE a = b
    BY <1>0, <1>1, <1>2, <2>1 DEF Ledger!Ask, Shown, OverAtAgent
  <2>2. CASE a # b
    BY <1>0, <1>2, <2>2 DEF Ledger!Ask
  <2> QED
    BY <2>1, <2>2
<1>3. ASSUME NEW b \in Approvals, NEW d, Ledger!Tell(b, d)
      PROVE  /\ Shown(approval[a]) => Shown(approval'[a])
             /\ native[a] \in OverAtAgent => native'[a] \in OverAtAgent
             /\ approval'[a].status = "none" <=> native'[a] = "none"
  BY <1>0, <1>3 DEF Ledger!Tell, Ledger!Told, OverAtAgent
<1>4. ASSUME NEW D \in SUBSET Approvals, Ledger!Drop(D)
      PROVE  /\ Shown(approval[a]) => Shown(approval'[a])
             /\ native[a] \in OverAtAgent => native'[a] \in OverAtAgent
             /\ approval'[a].status = "none" <=> native'[a] = "none"
  BY <1>0, <1>4 DEF Ledger!Drop, OverAtAgent
<1>5. ASSUME NEW b \in Approvals, NEW status \in {"answered", "expired"}, NEW d, Shown(approval[b]),
             approval' = [approval EXCEPT ![b] = Ledger!Entry(approval[b].turn, status, d)],
             native' = native
      PROVE  /\ Shown(approval[a]) => Shown(approval'[a])
             /\ native[a] \in OverAtAgent => native'[a] \in OverAtAgent
             /\ approval'[a].status = "none" <=> native'[a] = "none"
  <2>1. approval'[a] = approval[a]
        \/ (Shown(approval[a]) /\ approval'[a].status = status)
    BY <1>0, <1>1, <1>5
  <2> QED
    BY <1>0, <1>5, <2>1 DEF Shown
<1>6. ASSUME NEW b \in Approvals, NEW d, Ledger!Decide(b, d)
      PROVE  /\ Shown(approval[a]) => Shown(approval'[a])
             /\ native[a] \in OverAtAgent => native'[a] \in OverAtAgent
             /\ approval'[a].status = "none" <=> native'[a] = "none"
  BY <1>5, <1>6 DEF Ledger!Decide, Shown
<1>7. ASSUME NEW b \in Approvals, NEW status \in {"expired", "answered"}, Ledger!Close(b, status)
      PROVE  /\ Shown(approval[a]) => Shown(approval'[a])
             /\ native[a] \in OverAtAgent => native'[a] \in OverAtAgent
             /\ approval'[a].status = "none" <=> native'[a] = "none"
  BY <1>5, <1>7 DEF Ledger!Close, Shown
<1>8. CASE UNCHANGED <<approval, native>>
  BY <1>0, <1>8
<1> QED
  BY <1>2, <1>3, <1>4, <1>6, <1>7, <1>8 DEF LedgerStep, Ledger!Next

\* What one step makes of an answer: it goes on with what it is about, or is over.
GoesOn(old, new, natives) ==
    \/ new.pc = "idle"
    \/ /\ old.pc # "idle" /\ new.approval = old.approval /\ new.decision = old.decision
       /\ \/ new.reply \in {old.reply, "answered"}
          \/ natives[old.approval] \in OverAtAgent

LEMMA AnswerGoesOn ==
    ASSUME LedgerInv, NEW h \in Handlers, Answer(h)
    PROVE  \E row : handler' = [handler EXCEPT ![h] = row] /\ GoesOn(handler[h], row, native)
<1>1. handler[h] \in HandlerRow /\ handler \in [Handlers -> HandlerRow]
  BY DEF LedgerInv, AcceptanceInv, TypeOK
<1>2. IdleHandler.pc = "idle"
  BY DEF IdleHandler
<1>3. CASE AnswerCapture(h)
  <2> DEFINE asking == handler[h].asking /\ Token(h) # 0
             row == [handler[h] EXCEPT !.pc = "recheck", !.token = Token(h),
                                       !.asking = asking]
  <2>1. handler' = [handler EXCEPT ![h] = row]
    BY <1>1, <1>3 DEF AnswerCapture, HandlerRow
  <2>2. GoesOn(handler[h], row, native)
    BY <1>1, <1>3 DEF AnswerCapture, GoesOn, HandlerRow
  <2> QED
    BY <2>1, <2>2
<1>4. CASE AnswerRecheck(h)
  <2> DEFINE row == [handler[h] EXCEPT !.pc = "native"]
  <2>1. handler' = [handler EXCEPT ![h] = row] \/ handler' = [handler EXCEPT ![h] = IdleHandler]
    BY <1>4 DEF AnswerRecheck
  <2>2. GoesOn(handler[h], row, native) /\ GoesOn(handler[h], IdleHandler, native)
    BY <1>1, <1>2, <1>4 DEF AnswerRecheck, GoesOn, HandlerRow
  <2> QED
    BY <2>1, <2>2
<1>5. CASE AnswerNative(h)
  <2> DEFINE row(reply) == [handler[h] EXCEPT !.pc = "read", !.reply = reply]
             a == handler[h].approval
  <2>1. \/ handler' = [handler EXCEPT ![h] = IdleHandler]
        \/ handler' = [handler EXCEPT ![h] = row("answered")]
        \/ handler' = [handler EXCEPT ![h] = row("expired")] /\ native[a] # "open"
    <3>1. \A reply : [handler EXCEPT ![h].pc = "read", ![h].reply = reply]
                       = [handler EXCEPT ![h] = row(reply)]
      BY <1>1 DEF HandlerRow
    <3>2. [handler EXCEPT ![h].pc = "read",
             ![h].reply = IF handler[h].decision = "accept" THEN "expired" ELSE "answered"]
          = IF handler[h].decision = "accept" THEN [handler EXCEPT ![h] = row("expired")]
            ELSE [handler EXCEPT ![h] = row("answered")]
      BY <3>1
    <3> QED
      BY <1>5, <3>1, <3>2 DEF AnswerNative, NativeReplies
  <2>2. native[a] # "open" => native[a] \in OverAtAgent
    <3>1. a \in Approvals /\ Shown(approval[a])
      BY <1>5 DEF AnswerNative, LedgerInv, AnswersShown, AnswerShown
    <3>2. native[a] \in {"none", "open", "accepted", "cancelled", "dead"} /\ native[a] # "none"
      BY <3>1 DEF LedgerInv, AcceptanceInv, TypeOK, AskedOnBothSides, Shown
    <3> QED
      BY <3>2 DEF OverAtAgent
  <2>3. /\ GoesOn(handler[h], IdleHandler, native)
        /\ GoesOn(handler[h], row("answered"), native)
        /\ native[a] # "open" => GoesOn(handler[h], row("expired"), native)
    BY <1>1, <1>2, <1>5, <2>2 DEF AnswerNative, GoesOn, HandlerRow
  <2> HIDE DEF row
  <2> QED
    BY <2>1, <2>3
<1>6. CASE AnswerCancels(h)
  <2> DEFINE row == [handler[h] EXCEPT !.pc = "wait", !.reply = "answered"]
  <2>1. handler' = [handler EXCEPT ![h] = row]
    BY <1>1, <1>6 DEF AnswerCancels, HandlerRow
  <2>2. GoesOn(handler[h], row, native)
    BY <1>1, <1>6 DEF AnswerCancels, GoesOn, HandlerRow
  <2> QED
    BY <2>1, <2>2
<1>7. CASE AnswerWaits(h)
  <2> DEFINE row == [handler[h] EXCEPT !.pc = "read"]
  <2>1. handler' = [handler EXCEPT ![h] = row]
    BY <1>1, <1>7 DEF AnswerWaits, HandlerRow
  <2>2. GoesOn(handler[h], row, native)
    BY <1>1, <1>7 DEF AnswerWaits, GoesOn, HandlerRow
  <2> QED
    BY <2>1, <2>2
<1>8. CASE DeriveRead(h)
  <2> DEFINE m == approval[handler[h].approval].turn
             others == \E b \in Approvals \ {handler[h].approval} : Pending(b)
             latest == [handler[h] EXCEPT !.pc = "registered", !.seen = message[m],
                                          !.others = others]
             older == [handler[h] EXCEPT !.pc = "settle", !.status = threadStatus]
  <2>1. handler' = [handler EXCEPT ![h] = latest] \/ handler' = [handler EXCEPT ![h] = older]
    BY <1>8 DEF DeriveRead
  <2>2. GoesOn(handler[h], latest, native) /\ GoesOn(handler[h], older, native)
    BY <1>1, <1>8 DEF DeriveRead, GoesOn, HandlerRow
  <2> QED
    BY <2>1, <2>2
<1>9. CASE DeriveRegistered(h)
  <2> DEFINE mark == IF Orphan(h) THEN "interrupted" ELSE "none"
             row == [handler[h] EXCEPT !.pc = "settle", !.seen = "none", !.others = FALSE,
                                       !.status = DeriveStatus(h), !.mark = mark]
  <2>1. handler' = [handler EXCEPT ![h] = row]
    BY <1>1, <1>9 DEF DeriveRegistered, HandlerRow
  <2>2. GoesOn(handler[h], row, native)
    BY <1>1, <1>9 DEF DeriveRegistered, GoesOn, HandlerRow
  <2> QED
    BY <2>1, <2>2
<1>10. CASE Settle(h)
  BY <1>2, <1>10 DEF Settle, GoesOn
<1> QED
  BY <1>3, <1>4, <1>5, <1>6, <1>7, <1>8, <1>9, <1>10 DEF Answer

LEMMA OneAnswerShown ==
    ASSUME LedgerInv, LedgerStep, NEW h \in Handlers, NEW row,
           handler' = [handler EXCEPT ![h] = row], AnswerShown(row, approval', native')
    PROVE  AnswersShown'
<1>1. ASSUME NEW g \in Handlers, g # h
      PROVE  AnswerShown(handler[g], approval', native')
  BY LedgerMovesOn DEF LedgerInv, AnswersShown, AnswerShown
<1>2. handler'[h] = row /\ \A g \in Handlers \ {h} : handler'[g] = handler[g]
  BY DEF LedgerInv, AcceptanceInv, TypeOK
<1> QED
  BY <1>1, <1>2 DEF AnswersShown

LEMMA StepKeepsShown ==
    ASSUME LedgerInv, [Next]_vars, LedgerStep
    PROVE  AnswersShown'
<1>1. CASE handler' = handler
  BY <1>1, LedgerMovesOn DEF LedgerInv, AnswersShown, AnswerShown
<1>2. ASSUME NEW h \in Handlers, Answer(h)
      PROVE  AnswersShown'
  <2>1. PICK row : handler' = [handler EXCEPT ![h] = row] /\ GoesOn(handler[h], row, native)
    BY <1>2, AnswerGoesOn
  <2>2. AnswerShown(handler[h], approval, native)
    BY DEF LedgerInv, AnswersShown
  <2>3. AnswerShown(row, approval', native')
    BY <2>1, <2>2, LedgerMovesOn DEF GoesOn, AnswerShown
  <2> QED
    BY <2>1, <2>3, OneAnswerShown
<1>3. ASSUME NEW h \in Handlers, NEW a \in Approvals, NEW d \in {"accept", "cancel"},
             AnswerRead(h, a, d)
      PROVE  AnswersShown'
  <2> DEFINE current == /\ IsLatest(approval[a].turn)
                        /\ message[approval[a].turn] = "streaming"
             row == [IdleHandler EXCEPT !.pc = "capture", !.approval = a, !.decision = d,
                                        !.current = current /\ d = "cancel",
                                        !.asking = Live(approval[a].turn)]
  <2>1. handler' = [handler EXCEPT ![h] = row]
    BY <1>3 DEF AnswerRead, Asks
  <2>2. row.approval = a /\ row.decision = d /\ row.reply = "none"
    BY DEF IdleHandler
  <2>3. Shown(approval'[a])
    BY <1>3 DEF AnswerRead, Asks, Pending, Shown
  <2> HIDE DEF row
  <2>4. AnswerShown(row, approval', native')
    BY <2>2, <2>3 DEF AnswerShown
  <2> QED
    BY <2>1, <2>4, OneAnswerShown
<1>4. CASE Exit
  BY <1>4 DEF Exit, AnswersShown, AnswerShown, IdleHandler
<1>5. CASE ResolveCommit \/ UNCHANGED vars
  BY <1>1, <1>5 DEF ResolveCommit, vars
<1>6. CASE Others
  <2>1. CASE Exit
    BY <1>4, <2>1
  <2>2. Exit \/ handler' = handler
    BY <1>6
       DEF Others, Submit, Report, RunTurn, Register, PlaceMessage, MarkStreaming, SaveFails,
           RequestApproval, ExpireApproval, Completed, FlushAgain, FlushAwaiting,
           UserClickedStop, Interrupt, WriteFinalMessage, WriteFinalStatus, FinishTurn,
           CompleteMessage, NativeDrops, ResolveRead, StopTurn, ArchiveBegin, ArchiveEnd, Start
  <2> QED
    BY <1>1, <2>1, <2>2
<1> QED
  BY <1>2, <1>3, <1>5, <1>6 DEF Next

LEMMA StepKeepsReport ==
    ASSUME LedgerInv, [Next]_vars, LedgerStep
    PROVE  ReportShown'
<1>1. CASE resolver' = resolver
  BY <1>1, LedgerMovesOn DEF LedgerInv, ReportShown
<1>2. CASE resolver' = NoResolver
  BY <1>2 DEF ReportShown, NoResolver
<1>3. ASSUME NEW a \in Approvals, ResolveRead(a)
      PROVE  ReportShown'
  BY <1>3 DEF ResolveRead, ReportShown, OverAtAgent
<1>4. CASE Others
  <2>1. \/ \E a \in Approvals : ResolveRead(a)
        \/ resolver' = NoResolver \/ resolver' = resolver
    BY <1>4
       DEF Others, Submit, Report, RunTurn, Register, PlaceMessage, MarkStreaming, SaveFails,
           RequestApproval, ExpireApproval, Completed, FlushAgain, FlushAwaiting,
           UserClickedStop, Interrupt, WriteFinalMessage, WriteFinalStatus, FinishTurn,
           CompleteMessage, NativeDrops, StopTurn, ArchiveBegin, ArchiveEnd, Exit, Start
  <2> QED
    BY <1>1, <1>2, <1>3, <2>1
<1>5. ASSUME NEW h \in Handlers,
             \/ Answer(h)
             \/ \E a \in Approvals, d \in {"accept", "cancel"} : AnswerRead(h, a, d)
      PROVE  resolver' = resolver
  BY <1>5 DEF Answer, AnswerRead, Asks, AnswerCapture, AnswerRecheck, AnswerNative,
              AnswerCancels, AnswerWaits, DeriveRead, DeriveRegistered, Settle
<1> QED
  BY <1>1, <1>2, <1>4, <1>5 DEF Next, ResolveCommit, vars

LEMMA StepKeepsLedger == LedgerInv /\ [Next]_vars => LedgerInv' /\ LedgerStep
<1> SUFFICES ASSUME LedgerInv, [Next]_vars PROVE LedgerInv' /\ LedgerStep
  OBVIOUS
<1>1. LedgerStep
  BY NextLedger
<1>2. AcceptanceInv'
  BY StepKeepsAcceptance DEF LedgerInv
<1>3. UnsettledIsUndecided'
  BY StepMovesRow DEF LedgerInv, AcceptanceInv, SettlementInv, UnsettledIsUndecided, RowMoves
<1>4. AskedOnBothSides'
  BY <1>1, LedgerMovesOn DEF AskedOnBothSides
<1> QED
  BY <1>1, <1>2, <1>3, <1>4, StepKeepsShown, StepKeepsReport DEF LedgerInv

LEMMA InitLedger == Init => LedgerInv /\ Ledger!Init
<1> SUFFICES ASSUME Init PROVE LedgerInv /\ Ledger!Init
  OBVIOUS
<1>1. AcceptanceInv
  BY InitAcceptance
<1>2. UnsettledIsUndecided /\ AskedOnBothSides
  BY DEF Init, NoRow, UnsettledIsUndecided, Undecided, AskedOnBothSides
<1>3. AnswersShown /\ ReportShown
  BY DEF Init, AnswersShown, AnswerShown, IdleHandler, ReportShown
<1>4. Ledger!Init
  BY DEF Init, NoRow, Ledger!Init, Ledger!NoEntry, Ledger!Entry
<1> QED
  BY <1>1, <1>2, <1>3, <1>4 DEF LedgerInv

\* The approvals of a thread keep the promises of ApprovalLedger for any number of
\* turns and of answers at once, with database failures, an agent that cannot be
\* reached, stops, archives, reports and exits between any two steps.
THEOREM ImplementsApprovalLedger == Spec => LedgerSpec
<1>1. LedgerInv /\ [Next]_vars => [Ledger!Next]_<<approval, native>>
  BY StepKeepsLedger DEF LedgerStep
<1> QED
  BY <1>1, InitLedger, StepKeepsLedger, PTL DEF Spec, LedgerSpec, Ledger!Spec
=============================================================================

------------------------- MODULE ChatTurnRestProofs -------------------------
(***************************************************************************)
(* Proofs about ChatTurn for any number of turns, approvals, answers at    *)
(* once and restarts, in every interleaving, when no database call fails   *)
(* and no thread is archived: whose token a cancellation takes, and what a *)
(* thread at rest shows.                                                   *)
(***************************************************************************)
EXTENDS ChatTurnProofs

USE DEF dbVars, turnVars, appVars

Quiet == ~Faults /\ ~ArchiveEnabled

Gone      == {"none", "done", "failed", "dead"}
InLoop    == {"placed", "observe", "flush", "interrupt", "finalMessage"}
Decided   == {"interrupt", "finalMessage", "finalThread", "finish", "complete"}
WroteLast == {"finalThread", "finish", "complete"}
Endings   == {"completed", "interrupted"}

\* The steps of an answer after it asked for the token, up to its derived status.
PastCapture == {"recheck", "native", "wait", "read", "registered"}

\* While the application is down nothing is under way.
DownIsQuiet ==
    ~up => /\ \A m \in Turns : turn[m].pc \in Gone
           /\ \A h \in Handlers : handler[h] = IdleHandler
           /\ resolver = NoResolver /\ active = 0

\* Turns register in the order of their numbers, and none after the live one.
TurnsInOrder ==
    \A m, n \in Turns :
        /\ n < m /\ turn[m].pc # "none" => turn[n].pc # "none"
        /\ m < n /\ Live(m) => turn[n].pc = "none"

\* A turn has a message from the second step on.
MessageFollowsTurn ==
    \A m \in Turns :
        /\ message[m] # "none" => turn[m].pc \notin {"none", "registered"}
        /\ turn[m].pc \in InLoop \cup WroteLast => message[m] # "none"

\* How a turn ends is known before it is written, and written before the thread.
EndIsWritten ==
    \A m \in Turns :
        /\ turn[m].pc \in Decided => turn[m].ending \in Endings
        /\ turn[m].pc \in WroteLast => message[m] = turn[m].ending

\* A message that streams is that of a turn in its loop.
StreamingIsLive ==
    up => \A m \in Turns : message[m] = "streaming" => turn[m].pc \in InLoop

TurnsInv == /\ DownIsQuiet /\ TurnsInOrder /\ MessageFollowsTurn
            /\ EndIsWritten /\ StreamingIsLive

\* Every approval was asked for by a turn that has registered.
AskerIsTurn ==
    \A a \in Approvals :
        approval[a].status # "none" => /\ approval[a].turn \in Turns
                                       /\ turn[approval[a].turn].pc # "none"

Asker(h) == approval[handler[h].approval].turn

\* The token an answer holds is that of the turn that asked, or that turn has ended
\* since the answer read it.  A cancellation that found nothing registered had its
\* own turn over, and then its message streams no more: it closes none.
AnswerHolds(h) ==
    /\ handler[h].mark = "none"
    /\ handler[h].pc = "idle" => handler[h].token = 0
    /\ handler[h].pc = "capture" /\ handler[h].current => handler[h].asking
    /\ handler[h].pc \in PastCapture /\ handler[h].current /\ handler[h].token = 0
         => /\ ~Live(Asker(h))
            /\ handler[h].pc = "registered" => handler[h].seen # "streaming"
    /\ handler[h].token # 0
         => handler[h].token = Asker(h) \/ (handler[h].asking /\ ~Live(Asker(h)))

\* The status a thread may show at rest.
EndShown(status) ==
    \A m \in Turns : IsLatest(m) => status \in {EndedAs(message[m]), "awaiting_approval"}

\* What an answer has read is still so when it is used, unless a turn has yet to
\* write its end over it, or wrote its end since: then the answer is late.
ReadingHolds(h) ==
    h \notin late =>
        /\ handler[h].pc = "registered"
             => EndDue \/ (IsLatest(Asker(h)) /\ handler[h].seen = message[Asker(h)])
        /\ handler[h].pc = "settle"
             => EndDue \/ outdated \/ EndShown(handler[h].status)

ReportHolds == resolver.live /\ Resolver \notin late => EndDue

\* From the final status of a turn on the thread shows its end.
ThreadShows == up /\ ~outdated => EndDue \/ EndShown(threadStatus)

AnswersHold  == \A h \in Handlers : AnswerHolds(h)
ReadingsHold == \A h \in Handlers : ReadingHolds(h)

QuietInv == /\ RegistrationInv /\ AcceptanceInv /\ TurnsInv /\ AskerIsTurn
            /\ AnswersHold /\ ReadingsHold /\ ReportHolds /\ ThreadShows

-----------------------------------------------------------------------------
(* Facts about the steps.                                                  *)

HandlerStep(h) ==
    \/ Answer(h)
    \/ \E a \in Approvals, d \in {"accept", "cancel"} : AnswerRead(h, a, d)

LEMMA LiveIsActive ==
    ASSUME QuietInv, NEW m \in Turns, Live(m)
    PROVE  active = m /\ active # 0 /\ \A n \in Turns : Live(n) => n = m
  BY TurnNumbers DEF QuietInv, RegistrationInv, LiveTurnIsRegistered

\* An answer steps while the application is up.
LEMMA AnswerNeedsUp ==
    ASSUME QuietInv, NEW h \in Handlers, HandlerStep(h)
    PROVE  up
<1>1. ~up => handler[h].pc = "idle"
  BY DEF QuietInv, TurnsInv, DownIsQuiet, IdleHandler
<1> QED
  BY <1>1 DEF HandlerStep, Answer, AnswerCapture, AnswerRecheck, AnswerNative, AnswerCancels,
              AnswerWaits, DeriveRead, DeriveRegistered, Settle, AnswerRead, Asks

\* What a step of an answer leaves alone.  No cancellation closes a message on its
\* own, because a message that streams has a turn.
LEMMA AnswerLeaves ==
    ASSUME QuietInv, NEW h \in Handlers, HandlerStep(h)
    PROVE  /\ UNCHANGED <<message, turn, active, resolver, archiving, up>>
           /\ \A g \in Handlers : g # h => handler'[g] = handler[g]
           /\ \A a \in Approvals : approval'[a].turn = approval[a].turn
           /\ handler[h].pc # "settle" => UNCHANGED <<threadStatus, approval>>
<1>1. handler \in [Handlers -> HandlerRow] /\ approval \in [Approvals -> ApprovalRow]
  BY DEF QuietInv, AcceptanceInv, TypeOK
<1>2. ASSUME NEW a \in Approvals, NEW d \in {"accept", "cancel"}, AnswerRead(h, a, d)
      PROVE  UNCHANGED <<dbVars, turnVars, resolver, archiving, up>>
             /\ \A g \in Handlers : g # h => handler'[g] = handler[g]
  BY <1>1, <1>2 DEF AnswerRead, Asks
<1>3. CASE AnswerCapture(h) \/ AnswerRecheck(h) \/ AnswerWaits(h)
           \/ DeriveRead(h) \/ DeriveRegistered(h)
  BY <1>1, <1>3 DEF AnswerCapture, AnswerRecheck, AnswerWaits, DeriveRead, DeriveRegistered
<1>4. CASE AnswerNative(h) \/ AnswerCancels(h)
  BY <1>1, <1>4 DEF AnswerNative, NativeReplies, AnswerCancels
<1>5. CASE Settle(h)
  <2>1. handler[h].mark = "none"
    BY DEF QuietInv, AnswersHold, AnswerHolds
  <2>2. UNCHANGED <<message, turn, active, resolver, archiving, up>> /\ handler[h].pc = "settle"
    BY <1>5, <2>1 DEF Settle, SettleRow
  <2>3. \A g \in Handlers : g # h => handler'[g] = handler[g]
    BY <1>1, <1>5 DEF Settle
  <2>4. \A a \in Approvals : approval'[a].turn = approval[a].turn
    <3>1. CASE SettleRow(h)
      BY <1>1, <3>1 DEF SettleRow, ApprovalRow
    <3> QED
      BY <1>5, <3>1 DEF Settle
  <2> QED
    BY <2>2, <2>3, <2>4
<1> QED
  BY <1>2, <1>3, <1>4, <1>5 DEF HandlerStep, Answer

\* What an answer keeps once it has asked for the token.
Same(old, new) ==
    /\ new.mark = old.mark /\ new.token = old.token /\ new.current = old.current
    /\ new.approval = old.approval /\ new.asking = old.asking

\* The agent's reply, whatever it is, sends the answer on or ends it.
LEMMA NativeRow ==
    ASSUME QuietInv, NEW h \in Handlers, AnswerNative(h)
    PROVE  \/ handler'[h].pc = "read" /\ Same(handler[h], handler'[h])
           \/ handler'[h] = IdleHandler
<1>1. handler \in [Handlers -> HandlerRow]
  BY DEF QuietInv, AcceptanceInv, TypeOK
<1>2. \/ handler' = [handler EXCEPT ![h].pc = "read", ![h].reply = "answered"]
      \/ handler' = [handler EXCEPT ![h].pc = "read",
                       ![h].reply = IF handler[h].decision = "accept" THEN "expired"
                                    ELSE "answered"]
      \/ handler' = [handler EXCEPT ![h] =
                       IF handler[h].decision = "accept" THEN IdleHandler
                       ELSE [@ EXCEPT !.pc = "read", !.reply = "answered"]]
  BY DEF AnswerNative, NativeReplies
<1>3. \/ \E rep \in {"answered", "expired"} :
           handler'[h] = [handler[h] EXCEPT !.pc = "read", !.reply = rep]
      \/ handler'[h] = IdleHandler
  BY <1>1, <1>2
<1>4. ASSUME NEW rep \in {"answered", "expired"},
             handler'[h] = [handler[h] EXCEPT !.pc = "read", !.reply = rep]
      PROVE  handler'[h].pc = "read" /\ Same(handler[h], handler'[h])
  BY <1>1, <1>4 DEF HandlerRow, Same
<1> QED
  BY <1>3, <1>4
-----------------------------------------------------------------------------
(* The turns and their messages.                                           *)

LEMMA SavedIsLatest ==
    ASSUME QuietInv, NEW m \in Turns, Live(m), turn[m].pc # "registered"
    PROVE  IsLatest(m)
<1>1. message[m] # "none"
  BY DEF QuietInv, TurnsInv, MessageFollowsTurn, Live, InLoop, WroteLast
<1>2. \A n \in Turns : m < n => message[n] = "none"
  BY DEF QuietInv, TurnsInv, MessageFollowsTurn, TurnsInOrder
<1> QED
  BY <1>1, <1>2 DEF IsLatest, Saved, Turns

LEMMA SubmitKeepsTurns ==
    ASSUME Quiet, QuietInv, NEW m \in Turns, Submit(m)
    PROVE  TurnsInv'
<1>1. /\ turn \in [Turns -> TurnRow] /\ message \in [Turns -> MessageStatus]
      /\ DownIsQuiet /\ TurnsInOrder /\ MessageFollowsTurn /\ EndIsWritten /\ StreamingIsLive
  BY DEF QuietInv, AcceptanceInv, TypeOK, TurnsInv
<1>2. CASE Register(m)
  <2>1. \A n \in Turns : ~Live(n)
    BY <1>2, LiveIsActive DEF Register
  <2>2. /\ turn'[m] = [turn[m] EXCEPT !.pc = "registered"] /\ turn'[m].pc = "registered"
        /\ \A n \in Turns : n # m => turn'[n] = turn[n]
    BY <1>1, <1>2 DEF Register, Goto, TurnRow
  <2>3. TurnsInOrder'
    <3>1. \A n \in Turns : n < m => turn[n].pc # "none"
      BY <1>2 DEF Register
    <3>2. \A n \in Turns : m < n => turn[n].pc = "none"
      BY <1>1, <1>2 DEF Register, TurnsInOrder
    <3>3. \A n \in Turns : Live(n)' => n = m
      BY <2>1, <2>2 DEF Live
    <3>4. \A k \in Turns : ~(k < k)
      BY DEF Turns
    <3> QED
      BY <1>1, <2>2, <3>1, <3>2, <3>3, <3>4 DEF TurnsInOrder
  <2>4. DownIsQuiet' /\ MessageFollowsTurn' /\ EndIsWritten' /\ StreamingIsLive'
    BY <1>1, <1>2, <2>2 DEF Register, DownIsQuiet, MessageFollowsTurn, EndIsWritten,
       StreamingIsLive, InLoop, WroteLast, Decided
  <2> QED
    BY <2>3, <2>4 DEF TurnsInv
<1>3. CASE PlaceMessage(m) \/ MarkStreaming(m)
  <2>1. /\ turn[m].pc \in {"registered", "placed"} /\ turn'[m].pc \in {"placed", "observe"}
        /\ \A n \in Turns : n # m => turn'[n] = turn[n]
        /\ \A n \in Turns : n # m => message'[n] = message[n]
        /\ message'[m] # "none" /\ UNCHANGED <<up, active, handler, resolver>>
    BY <1>1, <1>3 DEF PlaceMessage, MarkStreaming, Goto, TurnRow, MessageFollowsTurn, InLoop
  <2> QED
    BY <1>1, <2>1 DEF TurnsInv, DownIsQuiet, TurnsInOrder, MessageFollowsTurn, EndIsWritten,
       StreamingIsLive, InLoop, WroteLast, Decided, Gone, Live
<1> QED
  BY <1>2, <1>3 DEF Submit, SaveFails, Quiet

\* A step of a turn in its loop or on its way out.
TurnMoves(m) ==
    /\ Live(m) \/ turn[m].pc = "complete"
    /\ \A n \in Turns : n # m => turn'[n] = turn[n] /\ message'[n] = message[n]
    /\ turn[m].pc # "registered" /\ turn'[m].pc \notin {"none", "registered"}
    /\ message'[m] # "none"
    /\ turn[m].pc = "complete" => ~Live(m)'
    /\ turn'[m].pc \in Decided => turn'[m].ending \in Endings
    /\ turn'[m].pc \in WroteLast => message'[m] = turn'[m].ending
    /\ message'[m] = "streaming" => turn'[m].pc \in InLoop
    /\ UNCHANGED <<up, handler, resolver>>

LEMMA MovesKeepTurns ==
    ASSUME QuietInv, NEW m \in Turns, TurnMoves(m)
    PROVE  TurnsInv'
<1>1. DownIsQuiet /\ TurnsInOrder /\ MessageFollowsTurn /\ EndIsWritten /\ StreamingIsLive
  BY DEF QuietInv, TurnsInv
<1>2. up
  BY <1>1 DEF DownIsQuiet, TurnMoves, Live, Gone
<1>3. DownIsQuiet'
  BY <1>2 DEF DownIsQuiet, TurnMoves
<1>4. TurnsInOrder'
  <2>1. \A n \in Turns : turn'[n].pc = "none" <=> turn[n].pc = "none"
    BY DEF TurnMoves, Live
  <2>2. \A n \in Turns : Live(n)' => Live(n)
    BY DEF TurnMoves, Live
  <2> QED
    BY <1>1, <2>1, <2>2 DEF TurnsInOrder
<1>5. MessageFollowsTurn'
  BY <1>1 DEF TurnMoves, MessageFollowsTurn
<1>6. EndIsWritten' /\ StreamingIsLive'
  BY <1>1 DEF TurnMoves, EndIsWritten, StreamingIsLive
<1> QED
  BY <1>3, <1>4, <1>5, <1>6 DEF TurnsInv

LEMMA ReportMoves ==
    ASSUME Quiet, QuietInv, NEW m \in Turns, Report(m)
    PROVE  TurnMoves(m)
<1>1. /\ turn \in [Turns -> TurnRow] /\ message \in [Turns -> MessageStatus]
      /\ turn[m].pc = "observe" => message[m] # "none"
      /\ turn[m].pc # "complete" => (message[m] = "streaming" => turn[m].pc \in InLoop \/ ~up)
  BY DEF QuietInv, AcceptanceInv, TypeOK, TurnsInv, MessageFollowsTurn, StreamingIsLive, InLoop
<1>2. CASE Completed(m)
  <2>1. turn'[m] = [turn[m] EXCEPT !.pc = "finalMessage", !.ending = "completed"]
    BY <1>1, <1>2 DEF Completed
  <2>2. turn'[m].pc = "finalMessage" /\ turn'[m].ending = "completed"
    BY <1>1, <2>1 DEF TurnRow
  <2> QED
    BY <1>1, <1>2, <2>2 DEF Completed, Observing, TurnMoves, Live, InLoop, WroteLast, Decided,
       Endings
<1>3. ASSUME NEW a \in Approvals, RequestApproval(m, a)
      PROVE  TurnMoves(m)
  <2>1. turn'[m].pc = "flush" /\ message'[m] = "streaming"
        /\ \A n \in Turns : n # m => turn'[n] = turn[n] /\ message'[n] = message[n]
    BY <1>1, <1>3 DEF RequestApproval, Goto, TurnRow, Quiet
  <2> QED
    BY <1>1, <1>3, <2>1 DEF RequestApproval, Observing, TurnMoves, Live, InLoop, WroteLast,
       Decided, Endings
<1>4. ASSUME NEW a \in Approvals, ExpireApproval(m, a)
      PROVE  TurnMoves(m)
  BY <1>1, <1>4 DEF ExpireApproval, Observing, TurnMoves, Live, InLoop, WroteLast, Decided,
     Endings
<1>5. CASE FlushAgain(m)
  <2>1. turn'[m].pc = "observe" /\ \A n \in Turns : n # m => turn'[n] = turn[n]
    BY <1>1, <1>5 DEF FlushAgain, Observing, TurnRow
  <2> QED
    BY <1>1, <1>5, <2>1 DEF FlushAgain, Observing, TurnMoves, Live, InLoop, WroteLast, Decided,
       Endings
<1> QED
  BY <1>2, <1>3, <1>4, <1>5 DEF Report

LEMMA RunTurnMoves ==
    ASSUME Quiet, QuietInv, NEW m \in Turns, RunTurn(m)
    PROVE  TurnMoves(m)
<1>1. /\ turn \in [Turns -> TurnRow] /\ message \in [Turns -> MessageStatus]
      /\ turn[m].pc \in InLoop \cup WroteLast => message[m] # "none"
      /\ turn[m].pc \in Decided => turn[m].ending \in Endings
      /\ turn[m].pc \in WroteLast => message[m] = turn[m].ending
  BY DEF QuietInv, AcceptanceInv, TypeOK, TurnsInv, MessageFollowsTurn, EndIsWritten
<1> USE DEF TurnMoves, Live, InLoop, WroteLast, Decided, Endings
<1>2. CASE FlushAwaiting(m)
  <2>1. turn'[m].pc = "observe" /\ \A n \in Turns : n # m => turn'[n] = turn[n]
    BY <1>1, <1>2 DEF FlushAwaiting, Quiet, TurnRow
  <2> QED
    BY <1>1, <1>2, <2>1 DEF FlushAwaiting
<1>3. CASE UserClickedStop(m)
  <2>1. /\ turn'[m].pc = "interrupt" /\ turn'[m].ending = "interrupted"
        /\ \A n \in Turns : n # m => turn'[n] = turn[n]
    BY <1>1, <1>3 DEF UserClickedStop, TurnRow
  <2> QED
    BY <1>1, <1>3, <2>1 DEF UserClickedStop
<1>4. CASE Interrupt(m)
  <2>1. /\ turn'[m].pc = "finalMessage" /\ turn'[m].ending = turn[m].ending
        /\ \A n \in Turns : n # m => turn'[n] = turn[n]
    BY <1>1, <1>4 DEF Interrupt, Goto, TurnRow
  <2> QED
    BY <1>1, <1>4, <2>1 DEF Interrupt
<1>5. CASE WriteFinalMessage(m)
  <2>1. /\ turn'[m].pc = "finalThread" /\ turn'[m].ending = turn[m].ending
        /\ \A n \in Turns : n # m => turn'[n] = turn[n] /\ message'[n] = message[n]
        /\ message'[m] = turn[m].ending
    BY <1>1, <1>5 DEF WriteFinalMessage, Goto, TurnRow, Quiet
  <2> QED
    BY <1>1, <1>5, <2>1 DEF WriteFinalMessage
<1>6. CASE WriteFinalStatus(m) \/ FinishTurn(m)
  <2>1. /\ turn[m].pc \in {"finalThread", "finish"}
        /\ turn[m].pc = "finalThread" => turn'[m].pc = "finish"
        /\ turn[m].pc = "finish" => turn'[m].pc = "complete"
        /\ turn'[m].ending = turn[m].ending
        /\ \A n \in Turns : n # m => turn'[n] = turn[n]
        /\ UNCHANGED <<message, up, handler, resolver>>
    BY <1>1, <1>6 DEF WriteFinalStatus, FinishTurn, Goto, TurnRow
  <2> QED
    BY <1>1, <2>1
<1>7. CASE CompleteMessage(m)
  <2>1. /\ turn'[m].pc = "done" /\ message'[m] = turn[m].ending
        /\ \A n \in Turns : n # m => turn'[n] = turn[n] /\ message'[n] = message[n]
    BY <1>1, <1>7 DEF CompleteMessage, NewTurn, Quiet
  <2> QED
    BY <1>1, <1>7, <2>1 DEF CompleteMessage
<1> QED
  BY <1>2, <1>3, <1>4, <1>5, <1>6, <1>7 DEF RunTurn

\* Nothing but what TurnsInv speaks of matters to it.
LEMMA TurnsUnmoved ==
    ASSUME TurnsInv, UNCHANGED <<turn, message, up, active>>,
           up \/ UNCHANGED <<handler, resolver>>
    PROVE  TurnsInv'
  BY DEF TurnsInv, DownIsQuiet, TurnsInOrder, MessageFollowsTurn, EndIsWritten,
         StreamingIsLive, Live

LEMMA ExitKeepsTurns ==
    ASSUME QuietInv, Exit
    PROVE  TurnsInv'
<1>1. /\ turn \in [Turns -> TurnRow]
      /\ TurnsInOrder /\ MessageFollowsTurn
  BY DEF QuietInv, AcceptanceInv, TypeOK, TurnsInv
<1>2. \A m \in Turns : /\ turn'[m].pc \in Gone
                       /\ turn'[m].pc = "none" <=> turn[m].pc = "none"
  BY DEF Exit, NewTurn, Gone
<1>3. DownIsQuiet' /\ StreamingIsLive'
  BY <1>2 DEF Exit, DownIsQuiet, StreamingIsLive
<1>4. TurnsInOrder'
  BY <1>1, <1>2 DEF TurnsInOrder, Live, Gone
<1>5. MessageFollowsTurn'
  BY <1>1, <1>2 DEF Exit, MessageFollowsTurn, Gone, InLoop, WroteLast
<1>6. EndIsWritten'
  BY <1>2 DEF EndIsWritten, Gone, Decided, WroteLast
<1> QED
  BY <1>3, <1>4, <1>5, <1>6 DEF TurnsInv

LEMMA StartKeepsTurns ==
    ASSUME Quiet, QuietInv, Start
    PROVE  TurnsInv'
<1>1. /\ DownIsQuiet /\ TurnsInOrder /\ MessageFollowsTurn
      /\ message \in [Turns -> MessageStatus]
  BY DEF QuietInv, AcceptanceInv, TypeOK, TurnsInv
<1>2. /\ \A m \in Turns : message'[m] # "streaming"
      /\ \A m \in Turns : message'[m] = "none" <=> message[m] = "none"
      /\ turn' = turn /\ up'
  BY <1>1 DEF Start, RecoveredMessages, Quiet
<1>3. \A m \in Turns : turn[m].pc \in Gone
  BY <1>1 DEF Start, DownIsQuiet
<1> QED
  BY <1>1, <1>2, <1>3 DEF TurnsInv, DownIsQuiet, TurnsInOrder, MessageFollowsTurn,
     EndIsWritten, StreamingIsLive, Live, Gone, InLoop, WroteLast, Decided

LEMMA StepKeepsTurns ==
    ASSUME Quiet, QuietInv, [Next]_vars
    PROVE  TurnsInv'
<1>1. TurnsInv /\ ~archiving
  BY DEF QuietInv, RegistrationInv
<1>2. ASSUME NEW m \in Turns, Submit(m) \/ Report(m) \/ RunTurn(m)
      PROVE  TurnsInv'
  BY <1>2, SubmitKeepsTurns, ReportMoves, RunTurnMoves, MovesKeepTurns
<1>3. ASSUME NEW h \in Handlers, HandlerStep(h)
      PROVE  TurnsInv'
  BY <1>1, <1>3, AnswerLeaves, AnswerNeedsUp, TurnsUnmoved
<1>4. CASE \/ \E a \in Approvals : NativeDrops(a) \/ ResolveRead(a)
           \/ StopTurn
  BY <1>1, <1>4, TurnsUnmoved DEF NativeDrops, ResolveRead, StopTurn
<1>5. CASE ResolveCommit
  <2>1. up
    BY <1>1, <1>5 DEF ResolveCommit, TurnsInv, DownIsQuiet
  <2> QED
    BY <1>1, <1>5, <2>1, TurnsUnmoved DEF ResolveCommit
<1>6. CASE UNCHANGED vars
  BY <1>1, <1>6, TurnsUnmoved DEF vars
<1> QED
  BY <1>1, <1>2, <1>3, <1>4, <1>5, <1>6, ExitKeepsTurns, StartKeepsTurns
  DEF Next, Others, HandlerStep, ArchiveBegin, ArchiveEnd, Quiet
-----------------------------------------------------------------------------
(* When a turn still has its final status to write, and when it does not.  *)

EndsTurn == \E m \in Turns : WriteFinalStatus(m)

LEMMA DueWhileOn ==
    ASSUME NEW m \in Turns,
           turn'[m].pc \in {"registered", "placed", "observe", "flush", "interrupt",
                            "finalMessage", "finalThread"}
    PROVE  EndDue'
  BY DEF EndDue, Live

LEMMA DueStays ==
    ASSUME NEW m \in Turns, \A n \in Turns : n # m => turn'[n] = turn[n],
           turn[m].pc \in {"finish", "complete"}, EndDue
    PROVE  EndDue'
  BY DEF EndDue, Live

LEMMA TurnEndsByStatus ==
    ASSUME Quiet, QuietInv, NEW m \in Turns, Submit(m) \/ Report(m) \/ RunTurn(m),
           ~EndsTurn, ~EndDue'
    PROVE  ~EndDue /\ UNCHANGED <<message, threadStatus, outdated, late>>
<1>1. /\ turn \in [Turns -> TurnRow] /\ message \in [Turns -> MessageStatus]
      /\ turn[m].pc \in WroteLast => message[m] = turn[m].ending
  BY DEF QuietInv, AcceptanceInv, TypeOK, TurnsInv, EndIsWritten
<1>2. CASE Register(m) \/ PlaceMessage(m) \/ MarkStreaming(m)
  <2>1. turn'[m].pc \in {"registered", "placed", "observe"}
    BY <1>1, <1>2 DEF Register, PlaceMessage, MarkStreaming, Goto, TurnRow
  <2> QED
    BY <2>1, DueWhileOn
<1>3. CASE Completed(m)
  <2>1. turn'[m].pc = "finalMessage"
    BY <1>1, <1>3 DEF Completed, TurnRow
  <2> QED
    BY <2>1, DueWhileOn
<1>4. CASE \E a \in Approvals : RequestApproval(m, a) \/ ExpireApproval(m, a)
  <2>1. turn'[m].pc \in {"observe", "flush"}
    BY <1>1, <1>4 DEF RequestApproval, ExpireApproval, Observing, Goto, TurnRow
  <2> QED
    BY <2>1, DueWhileOn
<1>5. CASE FlushAgain(m) \/ FlushAwaiting(m)
  <2>1. turn'[m].pc = "observe"
    BY <1>1, <1>5 DEF FlushAgain, FlushAwaiting, Observing, Goto, TurnRow
  <2> QED
    BY <2>1, DueWhileOn
<1>6. CASE UserClickedStop(m)
  <2>1. turn'[m].pc = "interrupt"
    BY <1>1, <1>6 DEF UserClickedStop, TurnRow
  <2> QED
    BY <2>1, DueWhileOn
<1>7. CASE Interrupt(m) \/ WriteFinalMessage(m)
  <2>1. turn'[m].pc \in {"finalMessage", "finalThread"}
    BY <1>1, <1>7 DEF Interrupt, WriteFinalMessage, Goto, TurnRow
  <2> QED
    BY <2>1, DueWhileOn
<1>8. CASE FinishTurn(m)
  <2>1. /\ turn[m].pc = "finish" /\ \A n \in Turns : n # m => turn'[n] = turn[n]
        /\ UNCHANGED <<message, threadStatus, outdated, late>>
    BY <1>1, <1>8 DEF FinishTurn, Goto
  <2> QED
    BY <2>1, DueStays
<1>9. CASE CompleteMessage(m)
  <2>1. /\ turn[m].pc = "complete" /\ \A n \in Turns : n # m => turn'[n] = turn[n]
        /\ UNCHANGED <<message, threadStatus, outdated, late>>
    BY <1>1, <1>9 DEF CompleteMessage, WroteLast, Quiet
  <2> QED
    BY <2>1, DueStays
<1> QED
  BY <1>2, <1>3, <1>4, <1>5, <1>6, <1>7, <1>8, <1>9
  DEF Submit, Report, RunTurn, SaveFails, EndsTurn, Quiet

\* What every step but the writing of a final status, an exit and a start keeps when
\* it leaves no final status to be written.
LEMMA NothingDue ==
    ASSUME Quiet, QuietInv, [Next]_vars, ~EndsTurn, ~Exit, ~Start, ~EndDue'
    PROVE  /\ ~EndDue /\ UNCHANGED message
           /\ outdated => outdated'
           /\ \/ UNCHANGED <<threadStatus, late>>
              \/ ResolveCommit \/ (\E a \in Approvals : ResolveRead(a))
              \/ \E h \in Handlers : HandlerStep(h)
<1>1. (turn' = turn) => (EndDue' <=> EndDue)
  BY DEF EndDue, Live
<1>2. CASE \E m \in Turns : Submit(m) \/ Report(m) \/ RunTurn(m)
  BY <1>2, TurnEndsByStatus
<1>3. CASE ResolveCommit
  BY <1>1, <1>3, Zenon DEF ResolveCommit, Saves
<1>4. CASE \E a \in Approvals : ResolveRead(a)
  BY <1>1, <1>4 DEF ResolveRead
<1>5. ASSUME NEW h \in Handlers, HandlerStep(h)
      PROVE  ~EndDue /\ UNCHANGED message /\ (outdated => outdated')
  <2>1. UNCHANGED <<message, turn>>
    BY <1>5, AnswerLeaves
  <2>2. outdated => outdated'
    BY <1>5, Zenon
       DEF HandlerStep, Answer, AnswerRead, Asks, AnswerCapture, AnswerRecheck, AnswerNative,
           AnswerCancels, AnswerWaits, DeriveRead, DeriveRegistered, Settle, Saves
  <2> QED
    BY <1>1, <2>1, <2>2
<1>6. CASE StopTurn \/ \E a \in Approvals : NativeDrops(a)
  BY <1>1, <1>6 DEF StopTurn, NativeDrops
<1>7. CASE UNCHANGED vars
  BY <1>1, <1>7 DEF vars
<1>8. ~archiving
  BY DEF QuietInv, RegistrationInv
<1> QED
  BY <1>2, <1>3, <1>4, <1>5, <1>6, <1>7, <1>8
  DEF Next, Others, HandlerStep, ArchiveBegin, ArchiveEnd, Quiet
-----------------------------------------------------------------------------
(* Who asked.                                                              *)

\* Who asked for an approval is never changed.
LEMMA AskerStays ==
    ASSUME QuietInv, [Next]_vars, NEW a \in Approvals, approval[a].status # "none"
    PROVE  approval'[a].turn = approval[a].turn
<1>1. approval \in [Approvals -> ApprovalRow]
  BY DEF QuietInv, AcceptanceInv, TypeOK
<1>2. ASSUME NEW b, NEW s, approval' \in {approval, [approval EXCEPT ![b].status = s]}
      PROVE  approval'[a].turn = approval[a].turn
  BY <1>1, <1>2 DEF ApprovalRow
<1>3. ASSUME NEW m \in Turns, NEW b \in Approvals, RequestApproval(m, b)
      PROVE  approval'[a] = approval[a]
  BY <1>1, <1>3 DEF RequestApproval
<1>4. ASSUME NEW m \in Turns, NEW b \in Approvals, ExpireApproval(m, b)
      PROVE  approval'[a].turn = approval[a].turn
  BY <1>2, <1>4 DEF ExpireApproval
<1>5. CASE ResolveCommit
  <2>1. approval' \in {approval, [approval EXCEPT ![resolver.approval].status = "answered"]}
    BY <1>5 DEF ResolveCommit
  <2> QED
    BY <1>2, <2>1
<1>6. CASE \E h \in Handlers : HandlerStep(h)
  BY <1>6, AnswerLeaves
<1>7. \/ approval' = approval
      \/ ResolveCommit \/ \E h \in Handlers : HandlerStep(h)
      \/ \E m \in Turns, b \in Approvals : RequestApproval(m, b) \/ ExpireApproval(m, b)
  BY DEF Next, HandlerStep, Others, Submit, Register, PlaceMessage, MarkStreaming, SaveFails,
     Report, Completed, FlushAgain, RunTurn, FlushAwaiting, UserClickedStop, Interrupt,
     WriteFinalMessage, WriteFinalStatus, FinishTurn, CompleteMessage, NativeDrops,
     ResolveRead, StopTurn, ArchiveBegin, ArchiveEnd, Exit, Start, vars
<1> QED
  BY <1>3, <1>4, <1>5, <1>6, <1>7

\* A turn that has registered never comes back to life once it is over.
LEMMA OverStaysOver ==
    ASSUME Quiet, QuietInv, [Next]_vars, NEW m \in Turns, turn[m].pc # "none"
    PROVE  turn'[m].pc # "none" /\ (Live(m)' => Live(m))
<1>1. turn \in [Turns -> TurnRow]
  BY DEF QuietInv, AcceptanceInv, TypeOK
<1>2. CASE turn' = turn
  BY <1>2 DEF Live
<1>3. ASSUME NEW n \in Turns, Register(n)
      PROVE  turn'[m].pc # "none" /\ (Live(m)' => Live(m))
  BY <1>1, <1>3 DEF Register, Goto, Live
<1>4. ASSUME NEW n \in Turns, PlaceMessage(n) \/ MarkStreaming(n)
      PROVE  turn'[m].pc # "none" /\ (Live(m)' => Live(m))
  BY <1>1, <1>4 DEF PlaceMessage, MarkStreaming, Goto, Live, TurnRow
<1>5. ASSUME NEW n \in Turns, Report(n) \/ RunTurn(n)
      PROVE  turn'[m].pc # "none" /\ (Live(m)' => Live(m))
  <2>1. TurnMoves(n)
    BY <1>5, ReportMoves, RunTurnMoves
  <2> QED
    BY <2>1 DEF TurnMoves, Live
<1>6. CASE Exit
  BY <1>1, <1>6 DEF Exit, NewTurn, Live
<1>7. CASE \E h \in Handlers : HandlerStep(h)
  BY <1>2, <1>7, AnswerLeaves
<1>8. ~archiving
  BY DEF QuietInv, RegistrationInv
<1> QED
  BY <1>2, <1>3, <1>4, <1>5, <1>6, <1>7, <1>8
  DEF Next, Others, HandlerStep, Submit, SaveFails, ArchiveBegin, ArchiveEnd, Quiet,
      ResolveCommit, ResolveRead, NativeDrops, StopTurn, Start, vars

LEMMA StepKeepsAskers ==
    ASSUME Quiet, QuietInv, [Next]_vars
    PROVE  AskerIsTurn'
<1>1. ASSUME NEW a \in Approvals, approval[a].status # "none"
      PROVE  approval'[a].turn \in Turns /\ turn'[approval'[a].turn].pc # "none"
  BY <1>1, AskerStays, OverStaysOver DEF QuietInv, AskerIsTurn
<1>2. ASSUME NEW m \in Turns, NEW b \in Approvals, RequestApproval(m, b)
      PROVE  AskerIsTurn'
  <2>1. approval \in [Approvals -> ApprovalRow]
        /\ \E s \in {"pending", "unsaved"} :
             approval' = [approval EXCEPT ![b] = [NoRow EXCEPT !.turn = m, !.status = s]]
    BY <1>2 DEF RequestApproval, QuietInv, AcceptanceInv, TypeOK
  <2>2. turn'[m].pc # "none"
    BY <1>2, OverStaysOver DEF RequestApproval, Observing
  <2>3. approval'[b].turn = m /\ \A a \in Approvals : a # b => approval'[a] = approval[a]
    BY <2>1 DEF NoRow
  <2>4. ASSUME NEW a \in Approvals, approval'[a].status # "none"
        PROVE  approval'[a].turn \in Turns /\ turn'[approval'[a].turn].pc # "none"
    BY <1>1, <2>2, <2>3, <2>4
  <2> QED
    BY <2>4 DEF AskerIsTurn
<1>3. ASSUME NEW a \in Approvals, approval[a].status = "none",
             \A m \in Turns, b \in Approvals : ~RequestApproval(m, b)
      PROVE  approval'[a].status = "none"
  <2>1. \A h \in Handlers : HandlerStep(h) => \/ approval' = approval
                                              \/ handler[h].pc = "settle" /\ Settle(h)
    BY DEF HandlerStep, Answer, AnswerRead, Asks, AnswerCapture, AnswerRecheck, AnswerNative,
           AnswerCancels, AnswerWaits, DeriveRead, DeriveRegistered, Settle
  <2>2. approval \in [Approvals -> ApprovalRow]
    BY DEF QuietInv, AcceptanceInv, TypeOK
  <2>3. ASSUME NEW b, Pending(b), NEW s,
               approval' \in {approval, [approval EXCEPT ![b].status = s]}
        PROVE  approval'[a] = approval[a]
    BY <1>3, <2>2, <2>3 DEF Pending
  <2>4. ASSUME NEW h \in Handlers, Settle(h)
        PROVE  approval'[a] = approval[a]
    <3>1. handler[h].approval # a
      BY <1>3, <2>4 DEF Settle, QuietInv, AcceptanceInv, AnswersInv, AnswerHasRow
    <3> QED
      BY <2>2, <2>4, <3>1 DEF Settle, SettleRow
  <2>5. ASSUME NEW m \in Turns, NEW b \in Approvals, ExpireApproval(m, b)
        PROVE  approval'[a] = approval[a]
    BY <2>3, <2>5 DEF ExpireApproval
  <2>6. CASE ResolveCommit
    <3>1. approval' = approval
          \/ /\ Pending(resolver.approval)
             /\ approval' = [approval EXCEPT ![resolver.approval].status = "answered"]
      BY <2>6 DEF ResolveCommit
    <3>2. ASSUME Pending(resolver.approval),
                 approval' = [approval EXCEPT ![resolver.approval].status = "answered"]
          PROVE  approval'[a] = approval[a]
      BY <1>3, <2>2, <3>2 DEF Pending
    <3> QED
      BY <1>3, <3>1, <3>2
  <2>7. \/ approval' = approval
        \/ ResolveCommit \/ \E h \in Handlers : HandlerStep(h)
        \/ \E m \in Turns, b \in Approvals : ExpireApproval(m, b)
    BY <1>3
    DEF Next, HandlerStep, Others, Submit, Register, PlaceMessage, MarkStreaming, SaveFails,
        Report, Completed, FlushAgain, RunTurn, FlushAwaiting, UserClickedStop, Interrupt,
        WriteFinalMessage, WriteFinalStatus, FinishTurn, CompleteMessage, NativeDrops,
        ResolveRead, StopTurn, ArchiveBegin, ArchiveEnd, Exit, Start, vars
  <2> QED
    BY <1>3, <2>1, <2>4, <2>5, <2>6, <2>7
<1> QED
  BY <1>1, <1>2, <1>3 DEF AskerIsTurn

\* The turn an answer is about stays the same, and over once it is over.
LEMMA AskerHolds ==
    ASSUME Quiet, QuietInv, [Next]_vars, NEW h \in Handlers, handler[h].pc # "idle",
           handler'[h].approval = handler[h].approval
    PROVE  /\ Asker(h) \in Turns /\ Asker(h)' = Asker(h)
           /\ turn[Asker(h)].pc # "none"
           /\ ~Live(Asker(h)) => ~Live(Asker(h))'
<1>1. handler[h].approval \in Approvals /\ approval[handler[h].approval].status # "none"
  BY DEF QuietInv, AcceptanceInv, AnswersInv, AnswerHasRow
<1>2. Asker(h) \in Turns /\ turn[Asker(h)].pc # "none"
  BY <1>1 DEF QuietInv, AskerIsTurn, Asker
<1>3. Asker(h)' = Asker(h)
  BY <1>1, AskerStays DEF Asker
<1>4. \A m \in Turns : turn[m].pc # "none" => (Live(m)' => Live(m))
  BY OverStaysOver
<1>5. Live(Asker(h))' => Live(Asker(h))
  <2> HIDE DEF Asker
  <2> QED
    BY <1>2, <1>3, <1>4 DEF Live
<1> QED
  BY <1>2, <1>3, <1>5
-----------------------------------------------------------------------------
(* The tokens of the answers.                                              *)

LEMMA IdleHolds ==
    ASSUME NEW h \in Handlers, handler'[h] = IdleHandler
    PROVE  AnswerHolds(h)'
  BY DEF AnswerHolds, IdleHandler, PastCapture

\* An answer that goes on with the token it has, or without one, as before.
LEMMA GoingOnHolds ==
    ASSUME Quiet, QuietInv, [Next]_vars, NEW h \in Handlers,
           Same(handler[h], handler'[h]),
           \/ handler[h].pc \in PastCapture /\ handler'[h].pc \in PastCapture \cup {"settle"}
           \/ handler'[h] = handler[h] /\ handler[h].pc # "idle",
           handler'[h].pc = "registered" /\ handler[h].current /\ handler[h].token = 0
              => handler'[h].seen # "streaming"
    PROVE  AnswerHolds(h)'
<1>1. AnswerHolds(h)
  BY DEF QuietInv, AnswersHold
<1>2. Asker(h)' = Asker(h) /\ (~Live(Asker(h)) => ~Live(Asker(h))')
  BY AskerHolds DEF Same, PastCapture
<1>3. handler'[h].pc # "idle"
  BY DEF PastCapture
<1>4. \/ handler'[h].pc \in PastCapture => handler[h].pc \in PastCapture
      \/ handler'[h] = handler[h]
  OBVIOUS
<1>5. handler'[h].pc = "capture" => handler'[h] = handler[h]
  BY DEF PastCapture
<1> DEFINE over  == ~Live(Asker(h))
           over2 == ~Live(Asker(h))'
<1>6. over => over2
  BY <1>2
<1>7. /\ handler[h].mark = "none"
      /\ handler[h].pc = "capture" /\ handler[h].current => handler[h].asking
      /\ handler[h].pc \in PastCapture /\ handler[h].current /\ handler[h].token = 0 => over
      /\ handler[h].token # 0
           => handler[h].token = Asker(h) \/ (handler[h].asking /\ over)
  BY <1>1 DEF AnswerHolds
<1> HIDE DEF over, over2
<1>8. /\ handler'[h].mark = "none"
      /\ handler'[h].pc = "capture" /\ handler'[h].current => handler'[h].asking
      /\ handler'[h].pc \in PastCapture /\ handler'[h].current /\ handler'[h].token = 0 => over2
      /\ handler'[h].token # 0
           => handler'[h].token = Asker(h)' \/ (handler'[h].asking /\ over2)
  BY <1>2, <1>4, <1>5, <1>6, <1>7 DEF Same
<1>9. handler'[h].pc = "registered" /\ handler'[h].current /\ handler'[h].token = 0
        => handler'[h].seen # "streaming"
  BY DEF Same
<1> QED
  BY <1>3, <1>8, <1>9 DEF AnswerHolds, over2

LEMMA StillAnswerHolds ==
    ASSUME Quiet, QuietInv, [Next]_vars, NEW h \in Handlers, handler'[h] = handler[h]
    PROVE  AnswerHolds(h)'
<1>1. AnswerHolds(h)
  BY DEF QuietInv, AnswersHold
<1>2. CASE handler[h].pc = "idle"
  BY <1>1, <1>2 DEF AnswerHolds, PastCapture
<1>3. CASE handler[h].pc # "idle"
  <2>1. handler'[h].pc = "registered" /\ handler[h].current /\ handler[h].token = 0
          => handler'[h].seen # "streaming"
    BY <1>1 DEF AnswerHolds, PastCapture
  <2> QED
    BY <1>3, <2>1, GoingOnHolds DEF Same
<1> QED
  BY <1>2, <1>3

\* With a message that streams a turn of its own is live.
LEMMA StreamingHasTurn ==
    ASSUME QuietInv, up, NEW m \in Turns, message[m] = "streaming"
    PROVE  Live(m) /\ EndDue
<1>1. turn[m].pc \in InLoop
  BY DEF QuietInv, TurnsInv, StreamingIsLive
<1> QED
  BY <1>1 DEF InLoop, Live, EndDue

LEMMA ReadHolds ==
    ASSUME Quiet, QuietInv, [Next]_vars, NEW h \in Handlers, NEW a \in Approvals,
           NEW d \in {"accept", "cancel"}, AnswerRead(h, a, d)
    PROVE  AnswerHolds(h)'
<1> DEFINE m == approval[a].turn
           current == (IsLatest(m) /\ message[m] = "streaming") /\ d = "cancel"
           asking == Live(m)
           row == [IdleHandler EXCEPT !.pc = "capture", !.approval = a, !.decision = d,
                                      !.current = current, !.asking = asking]
<1>1. handler'[h] = row
  BY DEF AnswerRead, Asks, QuietInv, AcceptanceInv, TypeOK
<1>2. up
  BY DEF AnswerRead, Asks
<1>3. current => asking
  BY <1>2, StreamingHasTurn DEF IsLatest, Saved
<1> HIDE DEF current, asking
<1>4. /\ row.pc = "capture" /\ row.mark = "none" /\ row.token = 0
      /\ row.current = current /\ row.asking = asking
  BY DEF IdleHandler
<1> HIDE DEF row
<1> QED
  BY <1>1, <1>3, <1>4 DEF AnswerHolds, PastCapture

LEMMA CaptureHolds ==
    ASSUME Quiet, QuietInv, [Next]_vars, NEW h \in Handlers, AnswerCapture(h)
    PROVE  AnswerHolds(h)'
<1>1. /\ handler \in [Handlers -> HandlerRow] /\ AnswerHolds(h)
      /\ handler[h].pc = "capture" /\ UNCHANGED <<approval, turn>>
  BY DEF QuietInv, AcceptanceInv, TypeOK, AnswersHold, AnswerCapture
<1>2. Asker(h) \in Turns /\ turn[Asker(h)].pc # "none"
  BY <1>1 DEF QuietInv, AcceptanceInv, AnswersInv, AnswerHasRow, AskerIsTurn, Asker
<1> DEFINE asking == handler[h].asking /\ Token(h) # 0
           row == [handler[h] EXCEPT !.pc = "recheck", !.token = Token(h), !.asking = asking]
           over == ~Live(Asker(h))
<1>3. handler'[h] = row
  BY <1>1 DEF AnswerCapture, HandlerRow
<1>4. Live(Asker(h)) => active = Asker(h) /\ active # 0
  BY <1>2, LiveIsActive
<1>5. Token(h) = 0 /\ handler[h].current => over
  BY <1>4 DEF Token
<1>6. Token(h) # 0 => Token(h) = Asker(h) \/ (asking /\ over)
  BY <1>1, <1>4 DEF Token, AnswerHolds
<1> HIDE DEF asking
<1>7. /\ row.pc = "recheck" /\ row.mark = "none" /\ row.token = Token(h)
      /\ row.asking = asking /\ row.current = handler[h].current
      /\ row.approval = handler[h].approval
  BY <1>1 DEF HandlerRow, AnswerHolds
<1> HIDE DEF row
<1>8. Asker(h)' = Asker(h)
  BY <1>1, <1>3, <1>7 DEF Asker
<1>9. ~Live(Asker(h))' <=> over
  BY <1>1, <1>8 DEF Live
<1> HIDE DEF over
<1> QED
  BY <1>3, <1>5, <1>6, <1>7, <1>8, <1>9 DEF AnswerHolds, PastCapture

\* No cancellation finds its message streaming and nobody running it.
LEMMA NoOrphan ==
    ASSUME QuietInv, NEW h \in Handlers, DeriveRegistered(h)
    PROVE  ~Orphan(h)
  BY DEF QuietInv, AnswersHold, AnswerHolds, DeriveRegistered, Orphan, PastCapture

LEMMA DerivesHold ==
    ASSUME Quiet, QuietInv, [Next]_vars, NEW h \in Handlers,
           DeriveRead(h) \/ DeriveRegistered(h)
    PROVE  AnswerHolds(h)'
<1>1. handler \in [Handlers -> HandlerRow] /\ AnswerHolds(h) /\ handler[h] \in HandlerRow
  BY DEF QuietInv, AcceptanceInv, TypeOK, AnswersHold
<1>2. CASE DeriveRead(h)
  <2> DEFINE m == approval[handler[h].approval].turn
             others == \E b \in Approvals \ {handler[h].approval} : Pending(b)
             latest == [handler[h] EXCEPT !.pc = "registered", !.seen = message[m],
                                          !.others = others]
             older == [handler[h] EXCEPT !.pc = "settle", !.status = threadStatus]
  <2>1. handler'[h] = IF IsLatest(m) THEN latest ELSE older
    BY <1>1, <1>2 DEF DeriveRead
  <2>2. /\ latest.pc = "registered" /\ latest.seen = message[m] /\ Same(handler[h], latest)
        /\ older.pc = "settle" /\ Same(handler[h], older)
    <3> HIDE DEF others
    <3> QED
      BY <1>1 DEF HandlerRow, Same
  <2>3. handler[h].pc = "read" /\ up
    BY <1>2, AnswerNeedsUp DEF DeriveRead, HandlerStep, Answer
  <2>4. IsLatest(m) /\ handler[h].current /\ handler[h].token = 0 => message[m] # "streaming"
    BY <1>1, <2>3, StreamingHasTurn DEF AnswerHolds, PastCapture, Asker, IsLatest, Saved
  <2> HIDE DEF latest, older
  <2> QED
    BY <2>1, <2>2, <2>3, <2>4, GoingOnHolds DEF PastCapture
<1>3. CASE DeriveRegistered(h)
  <2> DEFINE status == DeriveStatus(h)
             row == [handler[h] EXCEPT !.pc = "settle", !.seen = "none", !.others = FALSE,
                                       !.status = status, !.mark = "none"]
  <2>1. handler'[h] = row
    BY <1>1, <1>3, NoOrphan DEF DeriveRegistered
  <2> HIDE DEF status
  <2>2. row.pc = "settle" /\ Same(handler[h], row)
    BY <1>1 DEF HandlerRow, Same, AnswerHolds
  <2> HIDE DEF row
  <2>3. handler[h].pc = "registered"
    BY <1>3 DEF DeriveRegistered
  <2> QED
    BY <2>1, <2>2, <2>3, GoingOnHolds DEF PastCapture
<1> QED
  BY <1>2, <1>3

LEMMA AnswerKeepsHold ==
    ASSUME Quiet, QuietInv, [Next]_vars, NEW h \in Handlers, HandlerStep(h)
    PROVE  AnswerHolds(h)'
<1>1. handler \in [Handlers -> HandlerRow] /\ handler[h] \in HandlerRow
  BY DEF QuietInv, AcceptanceInv, TypeOK
<1>2. ASSUME NEW pc \in {"native", "wait", "read"}, handler'[h].pc = pc,
             handler[h].pc \in PastCapture, Same(handler[h], handler'[h])
      PROVE  AnswerHolds(h)'
  BY <1>2, GoingOnHolds DEF PastCapture
<1>3. CASE AnswerRecheck(h)
  <2>1. \/ handler'[h] = IdleHandler
        \/ handler'[h].pc = "native" /\ Same(handler[h], handler'[h])
    BY <1>1, <1>3 DEF AnswerRecheck, HandlerRow, Same
  <2> QED
    BY <1>2, <1>3, <2>1, IdleHolds DEF AnswerRecheck, PastCapture
<1>4. CASE AnswerNative(h)
  BY <1>2, <1>4, NativeRow, IdleHolds DEF AnswerNative, PastCapture
<1>5. CASE AnswerCancels(h)
  <2>1. handler'[h] = [handler[h] EXCEPT !.pc = "wait", !.reply = "answered"]
    BY <1>1, <1>5 DEF AnswerCancels
  <2>2. handler'[h].pc = "wait" /\ Same(handler[h], handler'[h])
    BY <1>1, <2>1 DEF HandlerRow, Same
  <2> QED
    BY <1>2, <1>5, <2>2 DEF AnswerCancels, PastCapture
<1>6. CASE AnswerWaits(h)
  <2>1. handler'[h].pc = "read" /\ Same(handler[h], handler'[h])
    BY <1>1, <1>6 DEF AnswerWaits, HandlerRow, Same
  <2> QED
    BY <1>2, <1>6, <2>1 DEF AnswerWaits, PastCapture
<1>7. CASE Settle(h)
  BY <1>1, <1>7, IdleHolds DEF Settle
<1> QED
  BY <1>3, <1>4, <1>5, <1>6, <1>7, ReadHolds, CaptureHolds, DerivesHold
  DEF HandlerStep, Answer

\* A step moves one answer, or all of them when the application exits.
LEMMA WhoMoves ==
    ASSUME [Next]_vars
    PROVE  handler' = handler \/ Exit \/ \E h \in Handlers : HandlerStep(h)
  BY DEF Next, HandlerStep, Others, Submit, Register, PlaceMessage, MarkStreaming, SaveFails,
     Report, Completed, FlushAgain, RequestApproval, ExpireApproval, RunTurn, FlushAwaiting,
     UserClickedStop, Interrupt, WriteFinalMessage, WriteFinalStatus, FinishTurn,
     CompleteMessage, NativeDrops, ResolveRead, ResolveCommit, StopTurn, ArchiveBegin,
     ArchiveEnd, Start, vars

LEMMA StepKeepsAnswers ==
    ASSUME Quiet, QuietInv, [Next]_vars
    PROVE  AnswersHold'
<1>1. CASE handler' = handler
  BY <1>1, StillAnswerHolds DEF AnswersHold
<1>2. CASE Exit
  BY <1>2, IdleHolds DEF Exit, AnswersHold
<1>3. ASSUME NEW h \in Handlers, HandlerStep(h)
      PROVE  AnswersHold'
  <2>1. \A g \in Handlers : g # h => AnswerHolds(g)'
    BY <1>3, AnswerLeaves, StillAnswerHolds
  <2> QED
    BY <1>3, <2>1, AnswerKeepsHold DEF AnswersHold
<1> QED
  BY <1>1, <1>2, <1>3, WhoMoves
-----------------------------------------------------------------------------
(* What the answers and the report have read.                              *)

\* Who is late stays so until it saves.
LEMMA LateStays ==
    ASSUME [Next]_vars, NEW who, who \in late, who \notin late'
    PROVE  \/ Exit \/ (who = Resolver /\ ResolveCommit)
           \/ who \in Handlers /\ Settle(who)
<1>1. ASSUME Overtake
      PROVE  FALSE
  BY <1>1 DEF Overtake
<1>2. ASSUME NEW x, FindsEnded(x)
      PROVE  FALSE
  BY <1>2 DEF FindsEnded
<1>3. ASSUME NEW x, NEW saved, Saves(x, saved)
      PROVE  who = x
  BY <1>3 DEF Saves
<1>4. CASE ResolveCommit
  BY <1>3, <1>4 DEF ResolveCommit
<1>5. ASSUME NEW h \in Handlers, HandlerStep(h)
      PROVE  Settle(h) /\ who = h
  BY <1>2, <1>3, <1>5
  DEF HandlerStep, Answer, AnswerRead, Asks, AnswerCapture, AnswerRecheck, AnswerNative,
      AnswerCancels, AnswerWaits, DeriveRead, DeriveRegistered, Settle
<1>6. CASE Others
  BY <1>1, <1>2, <1>6
  DEF Others, Submit, Report, RunTurn, Register, PlaceMessage, MarkStreaming, SaveFails,
      Completed, FlushAgain, RequestApproval, ExpireApproval, FlushAwaiting, UserClickedStop,
      Interrupt, WriteFinalMessage, WriteFinalStatus, FinishTurn, CompleteMessage,
      NativeDrops, ResolveRead, StopTurn, ArchiveBegin, ArchiveEnd, Start
<1> QED
  BY <1>4, <1>5, <1>6 DEF Next, HandlerStep, vars

LEMMA StillReadingHolds ==
    ASSUME Quiet, QuietInv, [Next]_vars, NEW h \in Handlers, handler'[h] = handler[h]
    PROVE  ReadingHolds(h)'
<1>1. ReadingHolds(h)
  BY DEF QuietInv, ReadingsHold
<1>2. CASE handler[h].pc \notin {"registered", "settle"}
  BY <1>2 DEF ReadingHolds
<1>3. CASE EndDue' \/ EndsTurn
  BY <1>3 DEF ReadingHolds, EndsTurn, WriteFinalStatus, Overtake
<1>4. CASE Exit \/ Start
  <2>1. handler'[h] = IdleHandler
    BY <1>4 DEF Exit, Start, QuietInv, TurnsInv, DownIsQuiet
  <2> QED
    BY <2>1 DEF ReadingHolds, IdleHandler
<1>5. CASE /\ ~EndDue' /\ ~EndsTurn /\ ~Exit /\ ~Start
           /\ handler[h].pc \in {"registered", "settle"}
  <2>1. ~EndDue /\ UNCHANGED message /\ (outdated => outdated')
    BY <1>5, NothingDue
  <2>2. h \notin late' => h \notin late
    <3>1. Settle(h) => handler'[h] = IdleHandler
      BY DEF Settle, QuietInv, AcceptanceInv, TypeOK
    <3>2. IdleHandler.pc = "idle"
      BY DEF IdleHandler
    <3> QED
      BY <1>5, <3>1, <3>2, LateStays, ChatConstants
  <2>3. Asker(h)' = Asker(h)
    BY <1>5, AskerHolds
  <2>4. \A status : EndShown(status) => EndShown(status)'
    BY <2>1 DEF EndShown, IsLatest, Saved
  <2>5. EndShown(handler[h].status) => EndShown(handler[h].status)'
    BY <2>1 DEF EndShown, IsLatest, Saved
  <2>6. IsLatest(Asker(h)) => IsLatest(Asker(h))'
    BY <2>1, <2>3 DEF IsLatest, Saved
  <2>7. /\ h \notin late' /\ handler[h].pc = "registered"
             => IsLatest(Asker(h)) /\ handler[h].seen = message[Asker(h)]
        /\ h \notin late' /\ handler[h].pc = "settle"
             => outdated \/ EndShown(handler[h].status)
    BY <1>1, <2>1, <2>2 DEF ReadingHolds
  <2> QED
    BY <2>1, <2>3, <2>5, <2>6, <2>7 DEF ReadingHolds
<1> QED
  BY <1>2, <1>3, <1>4, <1>5

\* With no turn registered the derived status is that of the end of the latest.
LEMMA DerivedShowsEnd ==
    ASSUME QuietInv, NEW h \in Handlers, DeriveRegistered(h), h \notin late'
    PROVE  EndDue \/ EndShown(DeriveStatus(h))
<1> SUFFICES ASSUME ~EndDue
             PROVE  EndShown(DeriveStatus(h))
  OBVIOUS
<1> DEFINE m == Asker(h)
<1>1. h \notin late /\ active = 0
  BY DEF DeriveRegistered, FindsEnded
<1>2. IsLatest(m) /\ handler[h].seen = message[m]
  BY <1>1 DEF QuietInv, ReadingsHold, ReadingHolds, DeriveRegistered
<1>3. up
  BY AnswerNeedsUp DEF HandlerStep, Answer
<1>4. m \in Turns /\ message[m] # "none" /\ message[m] # "streaming"
  BY <1>2, <1>3, StreamingHasTurn DEF IsLatest, Saved
<1>5. message[m] \in {"completed", "interrupted"}
  BY <1>4 DEF QuietInv, AcceptanceInv, TypeOK, MessageStatus
<1>6. \A n \in Turns : IsLatest(n) => n = m
  BY <1>2 DEF IsLatest, Saved, Turns
<1>7. DeriveStatus(h) \in {EndedAs(message[m]), "awaiting_approval"}
  BY <1>1, <1>2, <1>5, NoOrphan DEF DeriveStatus, RestStatus, EndedAs
<1> HIDE DEF m
<1> QED
  BY <1>6, <1>7 DEF EndShown

LEMMA AnswerKeepsReading ==
    ASSUME Quiet, QuietInv, [Next]_vars, NEW h \in Handlers, HandlerStep(h)
    PROVE  ReadingHolds(h)'
<1>1. /\ handler \in [Handlers -> HandlerRow] /\ handler[h] \in HandlerRow
      /\ ReadingHolds(h) /\ up
  BY AnswerNeedsUp DEF QuietInv, AcceptanceInv, TypeOK, ReadingsHold
<1>2. UNCHANGED <<message, turn>>
  BY AnswerLeaves
<1>3. (EndDue' <=> EndDue) /\ \A status : EndShown(status)' <=> EndShown(status)
  BY <1>2 DEF EndDue, Live, EndShown, IsLatest, Saved
<1>4. ASSUME handler'[h].pc \notin {"registered", "settle"}
      PROVE  ReadingHolds(h)'
  BY <1>4 DEF ReadingHolds
<1>5. CASE DeriveRead(h)
  <2> DEFINE m == approval[handler[h].approval].turn
             others == \E b \in Approvals \ {handler[h].approval} : Pending(b)
             latest == [handler[h] EXCEPT !.pc = "registered", !.seen = message[m],
                                          !.others = others]
             older == [handler[h] EXCEPT !.pc = "settle", !.status = threadStatus]
  <2>1. handler'[h] = (IF IsLatest(m) THEN latest ELSE older) /\ UNCHANGED <<approval, outdated>>
    BY <1>1, <1>5 DEF DeriveRead
  <2>2. /\ latest.pc = "registered" /\ latest.seen = message[m]
        /\ latest.approval = handler[h].approval
        /\ older.pc = "settle" /\ older.status = threadStatus
    <3> HIDE DEF others
    <3> QED
      BY <1>1 DEF HandlerRow
  <2>3. EndDue \/ outdated \/ EndShown(threadStatus)
    BY <1>1 DEF QuietInv, ThreadShows
  <2> HIDE DEF latest, older
  <2>4. CASE IsLatest(m)
    <3>1. handler'[h] = latest
      BY <2>1, <2>4
    <3>2. Asker(h)' = m
      BY <2>1, <2>2, <3>1 DEF Asker
    <3>3. IsLatest(Asker(h))' /\ handler'[h].seen = message'[Asker(h)']
      BY <1>2, <2>2, <2>4, <3>1, <3>2 DEF IsLatest, Saved
    <3> QED
      BY <2>2, <3>1, <3>3 DEF ReadingHolds
  <2>5. CASE ~IsLatest(m)
    <3>1. handler'[h] = older
      BY <2>1, <2>5
    <3>2. EndDue' \/ outdated' \/ EndShown(handler[h].status)'
      BY <1>2, <1>3, <2>1, <2>2, <2>3, <3>1 DEF EndShown, IsLatest, Saved
    <3> QED
      BY <2>2, <3>1, <3>2 DEF ReadingHolds
  <2> QED
    BY <2>4, <2>5
<1>6. CASE DeriveRegistered(h)
  <2> DEFINE status == DeriveStatus(h)
             row == [handler[h] EXCEPT !.pc = "settle", !.seen = "none", !.others = FALSE,
                                       !.status = status, !.mark = "none"]
  <2>1. handler'[h] = row
    BY <1>1, <1>6, NoOrphan DEF DeriveRegistered
  <2>2. h \notin late' => EndDue \/ EndShown(status)
    BY <1>6, DerivedShowsEnd
  <2> HIDE DEF status
  <2>3. row.pc = "settle" /\ row.status = status
    BY <1>1 DEF HandlerRow
  <2> HIDE DEF row
  <2>4. h \notin late' => EndDue' \/ EndShown(handler[h].status)'
    BY <1>2, <1>3, <2>1, <2>2, <2>3 DEF EndShown, IsLatest, Saved
  <2> QED
    BY <2>1, <2>3, <2>4 DEF ReadingHolds
<1>7. CASE AnswerCapture(h) \/ AnswerRecheck(h) \/ AnswerWaits(h)
  <2>1. AnswerCapture(h) => handler'[h].pc = "recheck"
    BY <1>1 DEF AnswerCapture, HandlerRow
  <2>2. AnswerRecheck(h) => handler'[h].pc \in {"native", "idle"}
    BY <1>1 DEF AnswerRecheck, HandlerRow, IdleHandler
  <2>3. AnswerWaits(h) => handler'[h].pc = "read"
    BY <1>1 DEF AnswerWaits, HandlerRow
  <2> QED
    BY <1>4, <1>7, <2>1, <2>2, <2>3
<1>8. CASE AnswerCancels(h)
  <2>1. handler'[h] = [handler[h] EXCEPT !.pc = "wait", !.reply = "answered"]
    BY <1>1, <1>8 DEF AnswerCancels
  <2> QED
    BY <1>1, <1>4, <2>1 DEF HandlerRow
<1>9. CASE AnswerNative(h)
  BY <1>4, <1>9, NativeRow DEF IdleHandler
<1>10. CASE Settle(h)
  BY <1>1, <1>4, <1>10 DEF Settle, IdleHandler
<1>11. ASSUME NEW a \in Approvals, NEW d \in {"accept", "cancel"}, AnswerRead(h, a, d)
       PROVE  handler'[h].pc \notin {"registered", "settle"}
  BY <1>1, <1>11 DEF AnswerRead, Asks, IdleHandler
<1> QED
  BY <1>4, <1>5, <1>6, <1>7, <1>8, <1>9, <1>10, <1>11 DEF HandlerStep, Answer

LEMMA StepKeepsReadings ==
    ASSUME Quiet, QuietInv, [Next]_vars
    PROVE  ReadingsHold'
<1>1. CASE handler' = handler
  BY <1>1, StillReadingHolds DEF ReadingsHold
<1>2. CASE Exit
  BY <1>2 DEF Exit, IdleHandler, ReadingsHold, ReadingHolds
<1>3. ASSUME NEW h \in Handlers, HandlerStep(h)
      PROVE  ReadingsHold'
  <2>1. \A g \in Handlers : g # h => ReadingHolds(g)'
    BY <1>3, AnswerLeaves, StillReadingHolds
  <2> QED
    BY <1>3, <2>1, AnswerKeepsReading DEF ReadingsHold
<1> QED
  BY <1>1, <1>2, <1>3, WhoMoves

\* A report finds a turn registered only while that turn has an end to write, or is
\* late.
LEMMA StepKeepsReportRead ==
    ASSUME Quiet, QuietInv, [Next]_vars
    PROVE  ReportHolds'
<1>1. CASE resolver' = NoResolver
  BY <1>1 DEF ReportHolds, NoResolver
<1>2. ASSUME NEW a \in Approvals, ResolveRead(a)
      PROVE  ReportHolds'
  <2>1. resolver'.live = (active # 0) /\ UNCHANGED turn
    BY <1>2 DEF ResolveRead
  <2>2. Resolver \notin late' => active = 0 \/ EndDue
    BY <1>2 DEF ResolveRead, FindsEnded
  <2>3. EndDue' <=> EndDue
    BY <2>1 DEF EndDue, Live
  <2> QED
    BY <2>1, <2>2, <2>3 DEF ReportHolds
<1>3. CASE resolver' = resolver
  <2>1. CASE EndDue' \/ EndsTurn
    BY <1>3, <2>1 DEF ReportHolds, EndsTurn, WriteFinalStatus, Overtake
  <2>2. CASE Exit \/ Start
    BY <1>1, <1>3, <2>2 DEF Exit, Start, QuietInv, TurnsInv, DownIsQuiet
  <2>3. CASE ~EndDue' /\ ~EndsTurn /\ ~Exit /\ ~Start
    <3>1. ~EndDue
      BY <2>3, NothingDue
    <3>2. Resolver \notin late' => Resolver \notin late \/ ResolveCommit
      BY <2>3, LateStays, ChatConstants
    <3> QED
      BY <1>1, <1>3, <3>1, <3>2 DEF QuietInv, ReportHolds, ResolveCommit
  <2> QED
    BY <2>1, <2>2, <2>3
<1>4. resolver' = resolver \/ resolver' = NoResolver \/ \E a \in Approvals : ResolveRead(a)
  BY DEF Next, Others, Submit, Register, PlaceMessage, MarkStreaming, SaveFails,
     Report, Completed, FlushAgain, RequestApproval, ExpireApproval, RunTurn, FlushAwaiting,
     UserClickedStop, Interrupt, WriteFinalMessage, WriteFinalStatus, FinishTurn,
     CompleteMessage, NativeDrops, ResolveCommit, StopTurn, ArchiveBegin, ArchiveEnd, Exit,
     Start, vars, Answer, AnswerRead, Asks, AnswerCapture, AnswerRecheck, AnswerNative,
     AnswerCancels, AnswerWaits, DeriveRead, DeriveRegistered, Settle
<1> QED
  BY <1>1, <1>2, <1>3, <1>4
-----------------------------------------------------------------------------
(* What the thread shows.                                                  *)

\* A turn that writes its final status leaves its end in the thread.
LEMMA FinalShowsEnd ==
    ASSUME Quiet, QuietInv, NEW m \in Turns, WriteFinalStatus(m)
    PROVE  EndShown(threadStatus)'
<1>1. Live(m) /\ turn[m].pc = "finalThread" /\ UNCHANGED message
  BY DEF WriteFinalStatus, Live
<1>2. threadStatus' = EndStatus(m)
  BY DEF WriteFinalStatus, Quiet
<1>3. message[m] = turn[m].ending /\ turn[m].ending \in Endings
  BY <1>1 DEF QuietInv, TurnsInv, EndIsWritten, WroteLast, Decided
<1>4. threadStatus' = EndedAs(message[m])
  BY <1>2, <1>3 DEF EndStatus, EndedAs, Endings
<1>5. IsLatest(m)
  BY <1>1, SavedIsLatest
<1>6. \A n \in Turns : IsLatest(n) => n = m
  BY <1>5 DEF IsLatest, Saved, Turns
<1> QED
  BY <1>1, <1>4, <1>6 DEF EndShown, IsLatest, Saved

LEMMA StartShowsEnd ==
    ASSUME Quiet, QuietInv, Start
    PROVE  EndShown(threadStatus)'
<1>1. message \in [Turns -> MessageStatus]
  BY DEF QuietInv, AcceptanceInv, TypeOK
<1>2. message' = RecoveredMessages /\ threadStatus' = RecoveredStatus
  BY DEF Start, Quiet
<1>3. \A m \in Turns : /\ message'[m] = "none" <=> message[m] = "none"
                       /\ EndedAs(message'[m]) = EndedAs(message[m])
  BY <1>1, <1>2 DEF RecoveredMessages, EndedAs
<1>4. \A m \in Turns : IsLatest(m)' <=> IsLatest(m)
  BY <1>3 DEF IsLatest, Saved
<1>5. \A m, n \in Turns : IsLatest(m) /\ IsLatest(n) => m = n
  BY DEF IsLatest, Saved, Turns
<1>6. \A m \in Turns : IsLatest(m)
        => threadStatus' \in {EndedAs(message[m]), "awaiting_approval"}
  BY <1>2, <1>5 DEF RecoveredStatus, EndedAs
<1> QED
  BY <1>3, <1>4, <1>6 DEF EndShown

LEMMA StepShowsEnd ==
    ASSUME Quiet, QuietInv, [Next]_vars
    PROVE  ThreadShows'
<1>1. CASE EndDue' \/ Exit
  BY <1>1 DEF ThreadShows, Exit
<1>2. CASE EndsTurn \/ Start
  BY <1>2, FinalShowsEnd, StartShowsEnd DEF EndsTurn, ThreadShows
<1>3. CASE ~EndDue' /\ ~EndsTurn /\ ~Exit /\ ~Start
  <2>1. /\ ~EndDue /\ UNCHANGED message
        /\ outdated => outdated'
        /\ \/ UNCHANGED <<threadStatus, late>>
           \/ ResolveCommit \/ (\E a \in Approvals : ResolveRead(a))
           \/ \E h \in Handlers : HandlerStep(h)
    BY <1>3, NothingDue
  <2>2. up' => up
    BY <1>3
    DEF Next, Others, Submit, Register, PlaceMessage, MarkStreaming, SaveFails,
        Report, Completed, FlushAgain, RequestApproval, ExpireApproval, RunTurn, FlushAwaiting,
        UserClickedStop, Interrupt, WriteFinalMessage, WriteFinalStatus, FinishTurn,
        CompleteMessage, NativeDrops, ResolveRead, ResolveCommit, StopTurn, ArchiveBegin,
        ArchiveEnd, vars, Answer, AnswerRead, Asks, AnswerCapture, AnswerRecheck, AnswerNative,
        AnswerCancels, AnswerWaits, DeriveRead, DeriveRegistered, Settle
  <2>3. up /\ ~outdated => EndShown(threadStatus)
    BY <2>1 DEF QuietInv, ThreadShows
  <2>4. ASSUME EndShown(threadStatus), threadStatus' = threadStatus
        PROVE  EndShown(threadStatus)'
    BY <2>1, <2>4 DEF EndShown, IsLatest, Saved
  <2>5. ASSUME NEW h \in Handlers, HandlerStep(h), up, ~outdated'
        PROVE  EndShown(threadStatus)'
    <3>1. CASE threadStatus' = threadStatus
      BY <2>1, <2>3, <2>4, <2>5, <3>1
    <3>2. CASE threadStatus' # threadStatus
      <4>1. handler[h].pc = "settle" /\ SettleRow(h) /\ Saves(h, TRUE)
        BY <2>5, <3>2
        DEF HandlerStep, Answer, AnswerRead, Asks, AnswerCapture, AnswerRecheck, AnswerNative,
            AnswerCancels, AnswerWaits, DeriveRead, DeriveRegistered, Settle
      <4>2. h \notin late /\ threadStatus' = handler[h].status
        BY <2>5, <4>1 DEF Saves, SettleRow
      <4>3. EndShown(handler[h].status)
        BY <2>1, <2>5, <4>1, <4>2 DEF QuietInv, ReadingsHold, ReadingHolds
      <4> QED
        BY <2>1, <4>2, <4>3 DEF EndShown, IsLatest, Saved
    <3> QED
      BY <3>1, <3>2
  <2>6. ASSUME ResolveCommit, ~outdated'
        PROVE  threadStatus' = threadStatus
    <3>1. threadStatus' # threadStatus => resolver.live /\ Saves(Resolver, TRUE)
      BY <2>6 DEF ResolveCommit
    <3>2. Saves(Resolver, TRUE) => Resolver \notin late
      BY <2>6 DEF Saves
    <3> QED
      BY <2>1, <3>1, <3>2 DEF QuietInv, ReportHolds
  <2>7. (\E a \in Approvals : ResolveRead(a)) => threadStatus' = threadStatus
    BY DEF ResolveRead
  <2> QED
    BY <2>1, <2>2, <2>3, <2>4, <2>5, <2>6, <2>7 DEF ThreadShows
<1> QED
  BY <1>1, <1>2, <1>3
-----------------------------------------------------------------------------
LEMMA InitQuiet == Init => QuietInv
<1> SUFFICES ASSUME Init PROVE QuietInv
  OBVIOUS
<1>1. RegistrationInv /\ AcceptanceInv
  BY InitRegistration, InitAcceptance
<1>2. /\ \A m \in Turns : turn[m].pc = "none" /\ message[m] = "none"
      /\ \A h \in Handlers : handler[h] = IdleHandler
      /\ up /\ active = 0 /\ resolver = NoResolver
  BY DEF Init, NewTurn
<1>3. TurnsInv
  BY <1>2 DEF TurnsInv, DownIsQuiet, TurnsInOrder, MessageFollowsTurn, EndIsWritten,
     StreamingIsLive, Live, Gone, InLoop, WroteLast, Decided
<1>4. AskerIsTurn
  BY DEF Init, NoRow, AskerIsTurn
<1>5. AnswersHold /\ ReadingsHold
  BY <1>2 DEF AnswersHold, AnswerHolds, ReadingsHold, ReadingHolds, IdleHandler, PastCapture
<1>6. ReportHolds /\ ThreadShows
  BY <1>2 DEF ReportHolds, NoResolver, ThreadShows, EndShown, IsLatest, Saved
<1> QED
  BY <1>1, <1>3, <1>4, <1>5, <1>6 DEF QuietInv

LEMMA StepKeepsQuiet ==
    ASSUME Quiet, QuietInv, [Next]_vars
    PROVE  QuietInv'
<1>1. RegistrationInv'
  BY StepKeepsRegistration DEF Quiet, QuietInv
<1>2. AcceptanceInv'
  BY StepKeepsAcceptance DEF QuietInv
<1> QED
  BY <1>1, <1>2, StepKeepsTurns, StepKeepsAskers, StepKeepsAnswers, StepKeepsReadings,
     StepKeepsReportRead, StepShowsEnd
  DEF QuietInv

\* When no database call fails and no thread is archived, the cancellation of an
\* approval (answer_chat_approval_inner) cancels the token of the turn that asked, in
\* every interleaving, unless that turn ended between the two reads of the answer.
THEOREM CapturedTokens ==
    ASSUME Quiet
    PROVE  Spec => []CapturedTokenIsOwn
<1>1. QuietInv /\ [Next]_vars => QuietInv'
  BY StepKeepsQuiet
<1>2. QuietInv => CapturedTokenIsOwn
  BY DEF QuietInv, AnswersHold, AnswerHolds, CapturedTokenIsOwn, Asker
<1> QED
  BY InitQuiet, <1>1, <1>2, PTL DEF Spec

\* In the same case a thread in which nothing runs shows how its latest turn ended, or
\* that an approval waits, in every interleaving of the end of run_turn, answers,
\* reports and restarts, unless an answer or a report that was late has saved.
THEOREM RestShowsEnd ==
    ASSUME Quiet
    PROVE  Spec => []RestShowsTheEnd
<1>1. QuietInv /\ [Next]_vars => QuietInv'
  BY StepKeepsQuiet
<1>2. QuietInv => RestShowsTheEnd
  <2> SUFFICES ASSUME QuietInv PROVE RestShowsTheEnd
    OBVIOUS
  <2>1. EndDue => active # 0
    BY LiveIsActive DEF EndDue
  <2> QED
    BY <2>1 DEF QuietInv, ThreadShows, EndShown, RestShowsTheEnd
<1> QED
  BY InitQuiet, <1>1, <1>2, PTL DEF Spec
=============================================================================

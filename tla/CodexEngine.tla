---------------------------- MODULE CodexEngine ----------------------------
(* The Codex engine of src-tauri/src/engines/codex.rs with the connection  *)
(* of codex_transport.rs: one app-server connection shared by the turns of *)
(* all threads, replaced when any of them finds it broken.                 *)
(*                                                                         *)
(* A line of the app-server and its delivery to the queues of the turns is *)
(* one action (the reader task and the pump keep the order); broadcast and *)
(* pump queue are one queue of Capacity items.  The app-server itself is   *)
(* external.  Rate limits, steering, review turns, turns of subagents, the *)
(* runtime monitor and the optional inactivity timeout are left out.       *)
EXTENDS Naturals, Sequences, FiniteSets

CONSTANTS
  Threads,    \* engine threads; run_turn has one turn of a thread at a time
  MaxConns,   \* bound: connections opened
  MaxTurns,   \* bound: turn/start requests sent
  Capacity,   \* items the queue of a turn holds before it lags
  Attempts,   \* TRANSPORT_RESTART_MAX_ATTEMPTS
  MaxFaults,  \* bound: failures of requests, of the server and of lines
  MaxStops,   \* bound: turns the user stops
  MaxAsks     \* bound: approvals the app-server asks for

ASSUME CodexAssumption ==
  /\ "free" \notin Threads
  /\ MaxConns \in Nat /\ MaxTurns \in Nat /\ MaxFaults \in Nat
  /\ MaxStops \in Nat /\ MaxAsks \in Nat
  /\ Capacity \in Nat \ {0} /\ Attempts \in Nat \ {0}

Conns == 1..MaxConns
Turns == 1..MaxTurns
None  == 0
Free  == "free"

Pcs == {"idle", "look", "alive", "lock", "spawn", "init", "subscribe", "loop",
        "shut", "read"}

NoCall == [pc |-> "idle", why |-> "send", conn |-> None, tries |-> 0,
           victim |-> None, ret |-> "idle", req |-> "none", turn |-> None,
           reqDone |-> FALSE, expected |-> None, done |-> FALSE, by |-> None]
NoTurn == [thread |-> "none", conn |-> None, st |-> "unsent", asked |-> FALSE]
NoAnswer == [pc |-> "idle", turn |-> None, asker |-> None, conn |-> None, victim |-> None]

VARIABLES
  cur,       \* state.transport
  inited,    \* state.initialized
  active,    \* state.active_turn_ids
  lock,      \* transport_spawn_lock
  conn,      \* connections: unborn, live, exited, closed (EOF delivered)
  ready,     \* connections that were initialized
  call,      \* send_message of each thread
  queue,     \* incoming_rx of each thread's call
  run,       \* run_turn of each thread: rest, on, grace (a second for
             \* send_message to return before it is aborted)
  settled,   \* threads whose call finished, or returned before a stop interrupted it
  dropped,   \* connections taken out of use by a call aborted before their kill
  remote,    \* turns of the app-servers
  asks,      \* approvals shown, with the connection of their route
  answer,    \* a respond_to_approval under way
  answered,  \* answers and the connection they were written to
  sent,      \* turn/start requests sent
  stops,     \* turns stopped so far
  faults     \* failures so far

vars == <<cur, inited, active, lock, conn, ready, call, queue, run, settled,
          dropped, remote, asks, answer, answered, sent, stops, faults>>

engine == <<cur, inited, active>>
agent  == <<remote, sent>>
cards  == <<asks, answer, answered>>
halts  == <<run, settled, stops>>
wires  == <<conn, ready, dropped>>

Init ==
  /\ cur = None
  /\ inited = FALSE
  /\ active = [h \in Threads |-> None]
  /\ lock = Free
  /\ conn = [c \in Conns |-> "unborn"]
  /\ ready = {}
  /\ call = [h \in Threads |-> NoCall]
  /\ queue = [h \in Threads |-> <<>>]
  /\ run = [h \in Threads |-> "rest"]
  /\ settled = {}
  /\ dropped = {}
  /\ remote = [k \in Turns |-> NoTurn]
  /\ asks = {}
  /\ answer = NoAnswer
  /\ answered = {}
  /\ sent = 0
  /\ stops = 0
  /\ faults = 0

Fault   == faults < MaxFaults /\ faults' = faults + 1
Live(c) == c # None /\ conn[c] = "live"
Goto(h, pc) == call' = [call EXCEPT ![h].pc = pc]

(* send_message returns.  run_turn goes on observing, with the end of the    *)
(* turn that it was sent, or was waiting for the return.                    *)
Return(h, told) ==
  /\ call' = [call EXCEPT ![h] = [NoCall EXCEPT !.done = told /\ run[h] = "on"]]
  /\ queue' = [queue EXCEPT ![h] = <<>>]
  /\ run' = [run EXCEPT ![h] = IF @ = "grace" THEN "rest" ELSE @]

(* invalidate_transport takes whatever transport is current, and forgets   *)
(* what the engine knows of every thread; the shutdown follows.            *)
Forget ==
  /\ cur' = None
  /\ inited' = FALSE
  /\ active' = [h \in Threads |-> None]

Invalidate(h, ret) ==
  /\ Forget
  /\ call' = [call EXCEPT ![h].pc = "shut", ![h].victim = cur, ![h].ret = ret]

Killed(c) == [conn EXCEPT ![c] = IF @ = "live" THEN "exited" ELSE @]

(* Bug: what is shut down is the transport that is current by then.         *)
CurrentByThen(h) == cur

TakenOut(h) == call[h].victim

(* A call goes on with a look for another connection, or listens on.        *)
Shutdown(h) ==
  /\ call[h].pc = "shut"
  /\ conn' = IF TakenOut(h) = None THEN conn ELSE Killed(TakenOut(h))
  /\ \/ call[h].ret = "idle" /\ Return(h, call[h].done)
     \/ /\ call[h].ret # "idle"
        /\ call' = [call EXCEPT ![h].pc = call[h].ret, ![h].victim = None, ![h].ret = "idle",
             ![h].conn = IF call[h].ret = "loop" THEN call[h].conn ELSE None]
        /\ UNCHANGED <<queue, run>>
  /\ UNCHANGED <<engine, lock, ready, dropped, agent, cards, faults, settled, stops>>

---------------------------------------------------------------------------
(* ensure_ready_transport                                                  *)

(* Calls that have not sent their turn/start yet.                           *)
Unsent == {h \in Threads :
             call[h].pc # "idle" /\ call[h].why = "send" /\ call[h].turn = None}

Send(h) ==
  /\ run[h] = "rest"
  /\ sent + Cardinality(Unsent) < MaxTurns
  /\ run' = [run EXCEPT ![h] = "on"]
  /\ call' = [call EXCEPT ![h] = [NoCall EXCEPT !.pc = "look"]]
  /\ settled' = settled \ {h}
  /\ UNCHANGED <<engine, lock, wires, queue, agent, cards, faults, stops>>

(* live_transport: the transport is read, then asked whether it is alive;  *)
(* the second look is under the spawn lock.                                *)
Absent(h) == IF lock = h THEN "spawn" ELSE "lock"

Look(h) ==
  /\ call[h].pc = "look"
  /\ call' = [call EXCEPT ![h].pc = IF cur = None THEN Absent(h) ELSE "alive",
                          ![h].conn = cur]
  /\ UNCHANGED <<engine, lock, wires, queue, agent, cards, faults, halts>>

IsAlive(h) ==
  /\ call[h].pc = "alive"
  /\ \/ /\ Live(call[h].conn)
        /\ Goto(h, "init")
        /\ lock' = IF lock = h THEN Free ELSE lock
        /\ UNCHANGED engine
     \/ /\ ~Live(call[h].conn)
        /\ Invalidate(h, Absent(h))
        /\ UNCHANGED lock
  /\ UNCHANGED <<wires, queue, agent, cards, faults, halts>>

(* Bug: under the lock the transport is not looked up again.               *)
LockSpawns(h) ==
  /\ call[h].pc = "lock"
  /\ lock = Free
  /\ lock' = h
  /\ Goto(h, "spawn")
  /\ UNCHANGED <<engine, wires, queue, agent, cards, faults, halts>>

Lock(h) ==
  /\ call[h].pc = "lock"
  /\ lock = Free
  /\ lock' = h
  /\ Goto(h, "look")
  /\ UNCHANGED <<engine, wires, queue, agent, cards, faults, halts>>

Unborn == {c \in Conns : conn[c] = "unborn"}

Spawn(h) ==
  /\ call[h].pc = "spawn"
  /\ \E c \in Unborn :
       /\ \A d \in Unborn : c <= d
       /\ conn' = [conn EXCEPT ![c] = "live"]
       /\ cur' = c
       /\ call' = [call EXCEPT ![h].pc = "init", ![h].conn = c]
  /\ inited' = FALSE
  /\ lock' = Free
  /\ UNCHANGED <<active, ready, dropped, queue, agent, cards, faults, halts>>

SpawnFails(h) ==
  /\ call[h].pc = "spawn"
  /\ IF Unborn = {} THEN UNCHANGED faults ELSE Fault
  /\ lock' = Free
  /\ Return(h, call[h].done)
  /\ UNCHANGED <<engine, wires, agent, cards, settled, stops>>

(* ensure_initialized keeps the state locked from the test of the flag to  *)
(* its update; the flag is that of the engine, not of the connection.      *)
AfterInit(h) == IF call[h].why = "send" THEN "subscribe" ELSE "read"

Initialized(h) ==
  /\ call[h].pc = "init"
  /\ \/ inited /\ UNCHANGED <<inited, ready>>
     \/ /\ ~inited /\ Live(call[h].conn)
        /\ inited' = TRUE /\ ready' = ready \cup {call[h].conn}
  /\ call' = [call EXCEPT ![h].pc = AfterInit(h), ![h].tries = 0]
  /\ UNCHANGED <<cur, active, lock, conn, dropped, queue, agent, cards, faults, halts>>

InitializeFails(h) ==
  /\ call[h].pc = "init"
  /\ ~inited
  /\ IF Live(call[h].conn) THEN Fault ELSE UNCHANGED faults
  /\ Forget
  /\ call' = [call EXCEPT ![h].pc = "shut", ![h].victim = cur, ![h].tries = @ + 1,
       ![h].ret = IF call[h].tries + 1 < Attempts THEN "look" ELSE "idle"]
  /\ UNCHANGED <<lock, wires, queue, agent, cards, halts>>

---------------------------------------------------------------------------
(* The turn: the queue is subscribed first, the request is a task.         *)

(* The loop ends when the turn has completed and its request was answered;  *)
(* a reset on the way (a refused login) leaves the queue and request open.  *)
Listening(h) == call[h].pc = "loop" \/ (call[h].pc = "shut" /\ call[h].ret = "loop")
Looping(h) == call[h].pc = "loop" /\ ~(call[h].done /\ call[h].reqDone)

Subscribe(h) ==
  /\ call[h].pc = "subscribe"
  /\ queue' = [queue EXCEPT ![h] = <<>>]
  /\ call' = [call EXCEPT ![h].pc = "loop", ![h].req = "unsent"]
  /\ UNCHANGED <<engine, lock, wires, agent, cards, faults, halts>>

SendStart(h) ==
  /\ Listening(h) /\ call[h].req = "unsent"
  /\ \/ /\ Live(call[h].conn) /\ sent < MaxTurns
        /\ sent' = sent + 1
        /\ remote' = [remote EXCEPT ![sent + 1] =
                        [NoTurn EXCEPT !.thread = h, !.conn = call[h].conn, !.st = "sent"]]
        /\ call' = [call EXCEPT ![h].req = "sent", ![h].turn = sent + 1]
     \/ /\ ~Live(call[h].conn)
        /\ call' = [call EXCEPT ![h].req = "err"]
        /\ UNCHANGED agent
  /\ UNCHANGED <<engine, lock, wires, queue, cards, faults, halts>>

(* The request gives up after TURN_REQUEST_TIMEOUT; an answer that comes   *)
(* later finds no entry in the pending table.                              *)
StartTimesOut(h) ==
  /\ Listening(h) /\ call[h].req = "sent"
  /\ IF Live(call[h].conn) THEN Fault ELSE UNCHANGED faults
  /\ call' = [call EXCEPT ![h].req = "err"]
  /\ UNCHANGED <<engine, lock, wires, queue, agent, cards, halts>>

TakeResponse(h) ==
  /\ Looping(h) /\ call[h].req = "ok" /\ ~call[h].reqDone
  /\ call' = [call EXCEPT ![h].reqDone = TRUE, ![h].expected = call[h].turn]
  /\ active' = [active EXCEPT ![h] = call[h].turn]
  /\ UNCHANGED <<cur, inited, lock, wires, queue, agent, cards, faults, halts>>

(* The end of a turn, as a notification or as the result of turn/start; one  *)
(* that names a refused login also resets the transport.                    *)
Completed(h, k, last) ==
  [call[h] EXCEPT !.done = TRUE, !.by = k, !.reqDone = @ \/ last]

Complete(h, k, last) ==
  \/ /\ active' = [active EXCEPT ![h] = None]
     /\ call' = [call EXCEPT ![h] = Completed(h, k, last)]
     /\ UNCHANGED <<cur, inited, faults>>
  \/ /\ Fault
     /\ Forget
     /\ call' = [call EXCEPT ![h] = [Completed(h, k, last) EXCEPT
                    !.pc = "shut", !.victim = cur, !.ret = "loop"]]

TakeResult(h) ==
  /\ Looping(h) /\ call[h].req = "ended" /\ ~call[h].reqDone
  /\ Complete(h, call[h].turn, TRUE)
  /\ UNCHANGED <<lock, wires, queue, agent, cards, halts>>

(* A failed turn/start ends the call and leaves the active turn as it is;  *)
(* a refused login also resets the transport.                              *)
StartRefused(h) ==
  /\ Looping(h) /\ call[h].req = "err"
  /\ \/ Return(h, call[h].done) /\ UNCHANGED <<engine, faults>>
     \/ Fault /\ Invalidate(h, "idle") /\ UNCHANGED <<queue, run>>
  /\ UNCHANGED <<lock, wires, agent, cards, settled, stops>>

Head1(h) == Head(queue[h])
Pop(h)   == queue' = [queue EXCEPT ![h] = Tail(@)]

Receives(h, kind) ==
  /\ Looping(h) /\ queue[h] # <<>>
  /\ Head1(h).kind = kind

(* belongs_to_turn: any turn will do until one is expected, and what names   *)
(* none belongs to all.  It looks for turnId, which a completion (turn:     *)
(* {id, status}) does not carry, so that the completion of any turn of the  *)
(* thread is taken for the one awaited.                                     *)
Belongs(h) == call[h].expected = None \/ Head1(h).turn \in {None, call[h].expected}

RecvStarted(h) ==
  /\ Receives(h, "started")
  /\ Pop(h)
  /\ call' = [call EXCEPT ![h].expected = Head1(h).turn]
  /\ active' = [active EXCEPT ![h] = Head1(h).turn]
  /\ UNCHANGED <<cur, inited, lock, wires, agent, cards, faults, halts>>

RecvCompleted(h) ==
  /\ Receives(h, "completed")
  /\ Pop(h)
  /\ Complete(h, Head1(h).turn, FALSE)
  /\ UNCHANGED <<lock, wires, agent, cards, halts>>

(* A refused login resets the transport; the call goes on.                  *)
RecvAuth(h) ==
  /\ Receives(h, "auth")
  /\ Pop(h)
  /\ IF Belongs(h) THEN Invalidate(h, "loop") ELSE UNCHANGED <<engine, call>>
  /\ UNCHANGED <<lock, wires, agent, cards, faults, halts>>

(* The route of an approval holds the connection of the call.              *)
RecvAsk(h) ==
  /\ Receives(h, "ask")
  /\ Pop(h)
  /\ asks' = IF Belongs(h) THEN asks \cup {[turn |-> Head1(h).turn, conn |-> call[h].conn]}
             ELSE asks
  /\ UNCHANGED <<engine, lock, wires, call, agent, answer, answered, faults, halts>>

(* The end of the stream, an unreadable line or a lag break the turn: the  *)
(* current transport is reset and, when a turn id is known, the turn is    *)
(* looked up through a new one before the call fails.                      *)
AfterBreak(h) ==
  IF call[h].reqDone /\ call[h].expected # None THEN "look" ELSE "idle"

RecvBreak(h) ==
  /\ Receives(h, "fail") \/ Receives(h, "lagged")
  /\ Forget
  /\ call' = [call EXCEPT ![h] = [NoCall EXCEPT !.pc = "shut", !.victim = cur,
                  !.why = "reconcile", !.ret = AfterBreak(h), !.done = call[h].done]]
  /\ queue' = [queue EXCEPT ![h] = <<>>]
  /\ UNCHANGED <<lock, wires, agent, cards, faults, halts>>

(* thread/read may tell the end of the turn, which is handed on, or not.    *)
ReadTurns(h) ==
  /\ call[h].pc = "read"
  /\ \E found \in {TRUE, FALSE} :
       /\ found => Live(call[h].conn)
       /\ active' = [active EXCEPT ![h] = IF found THEN None ELSE @]
       /\ Return(h, call[h].done \/ found)
  /\ UNCHANGED <<cur, inited, lock, wires, agent, cards, faults, settled, stops>>

(* Bug: the active turn is left to the completion, which may come first.   *)
FinishKeepsTurn(h) ==
  /\ call[h].pc = "loop" /\ ~Looping(h)
  /\ Return(h, call[h].done)
  /\ settled' = settled \cup {h}
  /\ UNCHANGED <<engine, lock, wires, agent, cards, faults, stops>>

Finish(h) ==
  /\ call[h].pc = "loop" /\ ~Looping(h)
  /\ active' = [active EXCEPT ![h] = None]
  /\ Return(h, call[h].done)
  /\ settled' = settled \cup {h}
  /\ UNCHANGED <<cur, inited, lock, wires, agent, cards, faults, stops>>

---------------------------------------------------------------------------
(* What the app-server writes reaches the queues of the calls subscribed   *)
(* to the connection: those of the thread it names, and all when it names   *)
(* none, as failures of the line and of the login do; what is said of a     *)
(* turn names its thread.  A full queue lags.                               *)

Subscribed(h, c) == Listening(h) /\ call[h].conn = c
Lagged  == [kind |-> "lagged", turn |-> None]
Broken  == [kind |-> "fail", turn |-> None]
NoLogin == [kind |-> "auth", turn |-> None]

(* Bug: what finds the queue full is dropped without a word.               *)
OfferDrops(q, item, wanted) == IF Len(q) < Capacity /\ wanted THEN Append(q, item) ELSE q

(* Bug: a lag is told again for every item that is lost.                    *)
OfferLagsAgain(q, item, wanted) ==
  CASE Len(q) >= Capacity           -> Append(q, Lagged)
    [] Len(q) < Capacity /\ wanted  -> Append(q, item)
    [] Len(q) < Capacity /\ ~wanted -> q

Offer(q, item, wanted) ==
  CASE Len(q) > Capacity            -> q
    [] Len(q) = Capacity            -> Append(q, Lagged)
    [] Len(q) < Capacity /\ wanted  -> Append(q, item)
    [] Len(q) < Capacity /\ ~wanted -> q

(* Bug: the thread of a message is not compared with that of the call.     *)
PublishToAll(c, item, to) ==
  queue' = [h \in Threads |-> IF Subscribed(h, c) THEN Offer(queue[h], item, TRUE)
                              ELSE queue[h]]

Publish(c, item, to) ==
  queue' = [h \in Threads |-> IF Subscribed(h, c) THEN Offer(queue[h], item, h \in to)
                              ELSE queue[h]]

Notify(k, kind) ==
  Publish(remote[k].conn, [kind |-> kind, turn |-> k], {remote[k].thread})

(* Does a call wait for the response to the request of turn k?             *)
Waits(h, k) == Listening(h) /\ call[h].req = "sent" /\ call[h].turn = k

Answered(k, res) ==
  call' = [h \in Threads |-> IF Waits(h, k) THEN [call[h] EXCEPT !.req = res] ELSE call[h]]

(* The turns of a thread run one after another, and each is announced.      *)
ServerStarts(k) ==
  /\ remote[k].st = "sent" /\ Live(remote[k].conn) /\ remote[k].conn \in ready
  /\ \A j \in Turns : remote[j].thread = remote[k].thread /\ remote[j].conn = remote[k].conn
       => remote[j].st \in {"over", "refused"} \/ j >= k
  /\ remote' = [remote EXCEPT ![k].st = "running"]
  /\ Notify(k, "started")
  /\ UNCHANGED <<engine, lock, wires, call, sent, cards, faults, halts>>

(* A connection that was not initialized refuses every request.            *)
ServerRefuses(k) ==
  /\ remote[k].st = "sent" /\ Live(remote[k].conn)
  /\ IF remote[k].conn \in ready THEN Fault ELSE UNCHANGED faults
  /\ remote' = [remote EXCEPT ![k].st = "refused"]
  /\ Answered(k, "err")
  /\ UNCHANGED <<engine, lock, wires, queue, sent, cards, halts>>

ServerResponds(k) ==
  /\ remote[k].st \in {"running", "stopping", "over"} /\ Live(remote[k].conn)
  /\ \E h \in Threads : Waits(h, k)
  /\ \E res \in {"ok", "ended"} :
       /\ res = "ended" => remote[k].st = "over"
       /\ Answered(k, res)
  /\ UNCHANGED <<engine, lock, wires, queue, agent, cards, faults, halts>>

ServerAsks(k) ==
  /\ remote[k].st = "running" /\ Live(remote[k].conn) /\ ~remote[k].asked
  /\ Cardinality({j \in Turns : remote[j].asked}) < MaxAsks
  /\ remote' = [remote EXCEPT ![k].asked = TRUE]
  /\ Notify(k, "ask")
  /\ UNCHANGED <<engine, lock, wires, call, sent, cards, faults, halts>>

ServerCompletes(k) ==
  /\ remote[k].st \in {"running", "stopping"} /\ Live(remote[k].conn)
  /\ remote' = [remote EXCEPT ![k].st = "over"]
  /\ Notify(k, "completed")
  /\ UNCHANGED <<engine, lock, wires, call, sent, cards, faults, halts>>

(* A turn reports that the login was refused; it may go on.                *)
ServerErrs(k) ==
  /\ remote[k].st = "running" /\ Live(remote[k].conn) /\ Fault
  /\ Notify(k, "auth")
  /\ UNCHANGED <<engine, lock, wires, call, agent, cards, halts>>

(* The server dies, loses its login, or writes a line that cannot be read.  *)
ServerDies(c) ==
  /\ conn[c] = "live" /\ Fault
  /\ conn' = [conn EXCEPT ![c] = "exited"]
  /\ UNCHANGED <<engine, lock, ready, dropped, call, queue, agent, cards, halts>>

LoginLost(c) ==
  /\ conn[c] = "live" /\ Fault
  /\ Publish(c, NoLogin, Threads)
  /\ UNCHANGED <<engine, lock, wires, call, agent, cards, halts>>

ParseError(c) ==
  /\ conn[c] = "live" /\ Fault
  /\ Publish(c, Broken, Threads)
  /\ UNCHANGED <<engine, lock, wires, call, agent, cards, halts>>

(* The reader finds the end of the stream and tells everybody.  Requests   *)
(* in flight stay in the pending table until their timeout.                *)
Eof(c) ==
  /\ conn[c] = "exited"
  /\ conn' = [conn EXCEPT ![c] = "closed"]
  /\ Publish(c, Broken, Threads)
  /\ UNCHANGED <<engine, lock, ready, dropped, call, agent, cards, faults, halts>>

(* The last reference to a connection kills it; the runtime monitor holds    *)
(* one until the end of its stream, so that no fairness is asked of this.   *)
Released(c) ==
  /\ c \in dropped
  /\ conn' = Killed(c)
  /\ dropped' = dropped \ {c}
  /\ UNCHANGED <<engine, lock, ready, call, queue, agent, cards, faults, halts>>

---------------------------------------------------------------------------
(* run_turn observes the turn until its end is told or the user stops it;   *)
(* an error of send_message alone ends nothing.  A stop interrupts once,    *)
(* then send_message has a second to return before it is aborted.           *)

(* Without a transport or an active turn interrupt is Ok and does nothing. *)
Reaches(k) == Live(cur) /\ remote[k].conn = cur

InterruptSkips(h) ==
  /\ cur = None \/ active[h] = None
  /\ UNCHANGED <<active, remote, faults>>

InterruptOk(h) ==
  /\ active[h] # None /\ Reaches(active[h])
  /\ active' = [active EXCEPT ![h] = None]
  /\ remote' = [remote EXCEPT ![active[h]].st = IF @ = "running" THEN "stopping" ELSE @]
  /\ UNCHANGED faults

InterruptFails(h) ==
  /\ cur # None /\ active[h] # None
  /\ IF Reaches(active[h]) THEN Fault ELSE UNCHANGED faults
  /\ UNCHANGED <<active, remote>>

Settles(h) == settled' = IF call[h].pc = "idle" THEN settled \cup {h} ELSE settled

Interrupt(h) ==
  \/ (InterruptSkips(h) \/ InterruptOk(h)) /\ Settles(h)
  \/ InterruptFails(h) /\ UNCHANGED settled

LeaveOff(h) ==
  /\ run[h] = "on"
  /\ run' = [run EXCEPT ![h] = IF call[h].pc = "idle" THEN "rest" ELSE "grace"]
  /\ call' = [call EXCEPT ![h].done = @ /\ call[h].pc # "idle"]

Stop(h) ==
  /\ LeaveOff(h)
  /\ stops < MaxStops /\ stops' = stops + 1
  /\ Interrupt(h)
  /\ UNCHANGED <<cur, inited, lock, wires, queue, sent, cards>>

Delivered(h) ==
  /\ call[h].done /\ call[h].pc # "shut"
  /\ LeaveOff(h)
  /\ UNCHANGED <<engine, lock, wires, queue, agent, cards, faults, settled, stops>>

(* The request of turn/start is a task of its own, which goes on: one that   *)
(* was not sent yet is sent now or finds the connection dead.                *)
SendLoose(h) ==
  IF call[h].req = "unsent" /\ Live(call[h].conn) /\ sent < MaxTurns
  THEN /\ sent' = sent + 1
       /\ remote' = [remote EXCEPT ![sent + 1] =
                       [NoTurn EXCEPT !.thread = h, !.conn = call[h].conn, !.st = "sent"]]
  ELSE UNCHANGED agent

(* An aborted call gives back the lock; a connection it was about to kill    *)
(* is left to whoever holds the last reference.                              *)
Abort(h) ==
  /\ run[h] = "grace"
  /\ run' = [run EXCEPT ![h] = "rest"]
  /\ call' = [call EXCEPT ![h] = NoCall]
  /\ queue' = [queue EXCEPT ![h] = <<>>]
  /\ lock' = IF lock = h THEN Free ELSE lock
  /\ dropped' = dropped \cup ({TakenOut(h)} \ {None})
  /\ SendLoose(h)
  /\ UNCHANGED <<engine, conn, ready, cards, faults, settled, stops>>

---------------------------------------------------------------------------
(* respond_to_approval answers on the connection that asked, or not.       *)

AnswerLook(a) ==
  /\ answer.pc = "idle"
  /\ a \in asks
  /\ asks' = asks \ {a}
  /\ answer' = IF cur = None THEN NoAnswer
               ELSE [NoAnswer EXCEPT !.pc = "alive", !.turn = a.turn, !.asker = a.conn,
                                     !.conn = cur]
  /\ UNCHANGED <<engine, lock, wires, call, queue, agent, answered, faults, halts>>

(* Bug: the connection of the route is not compared with the current one.  *)
AnswerSendAnywhere ==
  /\ answer.pc = "alive"
  /\ Live(answer.conn)
  /\ answered' = answered \cup {[turn |-> answer.turn, conn |-> answer.conn]}
  /\ answer' = NoAnswer
  /\ UNCHANGED <<engine, lock, wires, call, queue, agent, asks, faults, halts>>

AnswerSend ==
  /\ answer.pc = "alive"
  /\ Live(answer.conn)
  /\ answered' = IF answer.asker = answer.conn
                 THEN answered \cup {[turn |-> answer.turn, conn |-> answer.conn]}
                 ELSE answered
  /\ answer' = NoAnswer
  /\ UNCHANGED <<engine, lock, wires, call, queue, agent, asks, faults, halts>>

AnswerDead ==
  /\ answer.pc = "alive"
  /\ ~Live(answer.conn)
  /\ Forget
  /\ answer' = [answer EXCEPT !.pc = "shut", !.victim = cur]
  /\ UNCHANGED <<lock, wires, call, queue, agent, asks, answered, faults, halts>>

AnswerShut ==
  /\ answer.pc = "shut"
  /\ conn' = IF answer.victim = None THEN conn ELSE Killed(answer.victim)
  /\ answer' = NoAnswer
  /\ UNCHANGED <<engine, lock, ready, dropped, call, queue, agent, asks, answered, faults, halts>>

---------------------------------------------------------------------------
Ensure(h)  == Look(h) \/ IsAlive(h) \/ Lock(h) \/ Spawn(h) \/ SpawnFails(h)
              \/ Initialized(h) \/ InitializeFails(h) \/ Shutdown(h)
Start(h)   == Subscribe(h) \/ SendStart(h) \/ StartTimesOut(h)
Receive(h) == TakeResponse(h) \/ TakeResult(h) \/ StartRefused(h) \/ RecvStarted(h)
              \/ RecvCompleted(h) \/ RecvAuth(h) \/ RecvAsk(h) \/ RecvBreak(h)
              \/ ReadTurns(h) \/ Finish(h)
EndTurn(h) == Delivered(h) \/ Abort(h)
Server(k)  == ServerStarts(k) \/ ServerRefuses(k) \/ ServerResponds(k) \/ ServerAsks(k)
              \/ ServerCompletes(k) \/ ServerErrs(k)
Wire(c)    == ServerDies(c) \/ LoginLost(c) \/ ParseError(c) \/ Eof(c) \/ Released(c)
Answer     == (\E a \in asks : AnswerLook(a)) \/ AnswerSend \/ AnswerDead \/ AnswerShut

Next ==
  \/ \E h \in Threads : Send(h) \/ Ensure(h) \/ Start(h) \/ Receive(h) \/ Stop(h)
                        \/ EndTurn(h)
  \/ \E k \in Turns : Server(k)
  \/ \E c \in Conns : Wire(c)
  \/ Answer

Spec == Init /\ [][Next]_vars

(* The tasks of the engine run, the lock is fair, a timeout fires and the   *)
(* reader reads what is there; nothing is asked of the app-server.          *)
Fairness ==
  /\ \A h \in Threads :
       /\ WF_vars(Ensure(h)) /\ SF_vars(Lock(h))
       /\ WF_vars(Start(h)) /\ WF_vars(Receive(h)) /\ WF_vars(EndTurn(h))
  /\ \A c \in Conns : WF_vars(Eof(c))
  /\ WF_vars(AnswerSend \/ AnswerDead \/ AnswerShut)

FairSpec == Spec /\ Fairness

---------------------------------------------------------------------------
ItemType == [kind : {"started", "completed", "ask", "auth", "fail", "lagged"},
             turn : Turns \cup {None}]

(* Every variable keeps the kind of value the engine keeps there, and no     *)
(* queue outgrows its capacity and one notice of a lag.                      *)
TypeOK ==
  /\ cur \in Conns \cup {None}
  /\ inited \in BOOLEAN
  /\ active \in [Threads -> Turns \cup {None}]
  /\ lock \in Threads \cup {Free}
  /\ conn \in [Conns -> {"unborn", "live", "exited", "closed"}]
  /\ ready \subseteq Conns
  /\ call \in [Threads ->
       [pc : Pcs, why : {"send", "reconcile"}, conn : Conns \cup {None}, tries : Nat,
        victim : Conns \cup {None}, ret : {"idle", "look", "lock", "spawn", "loop"},
        req : {"none", "unsent", "sent", "ok", "ended", "err"}, turn : Turns \cup {None},
        reqDone : BOOLEAN, expected : Turns \cup {None}, done : BOOLEAN,
        by : Turns \cup {None}]]
  /\ queue \in [Threads -> Seq(ItemType)]
  /\ \A h \in Threads : Len(queue[h]) <= Capacity + 1
  /\ run \in [Threads -> {"rest", "on", "grace"}]
  /\ settled \subseteq Threads
  /\ dropped \subseteq Conns
  /\ remote \in [Turns ->
       [thread : Threads \cup {"none"}, conn : Conns \cup {None},
        st : {"unsent", "sent", "running", "stopping", "over", "refused"},
        asked : BOOLEAN]]
  /\ asks \subseteq [turn : Turns \cup {None}, conn : Conns \cup {None}]
  /\ answer \in [pc : {"idle", "alive", "shut"}, turn : Turns \cup {None},
                 asker : Conns \cup {None}, conn : Conns \cup {None},
                 victim : Conns \cup {None}]
  /\ answered \subseteq [turn : Turns \cup {None}, conn : Conns \cup {None}]
  /\ sent \in 0..MaxTurns
  /\ stops \in 0..MaxStops
  /\ faults \in 0..MaxFaults

(* One app-server: a connection that is alive is the current one, or one    *)
(* task that has taken it out of the state is about to kill it, or was      *)
(* aborted by a stop before it did.                                         *)
OneServer ==
  \A c \in Conns : Live(c) /\ c # cur =>
    answer.victim = c \/ c \in dropped \/ \E h \in Threads : call[h].victim = c

(* The processes as their owner sees them, and those a task is about to     *)
(* kill.                                                                    *)
Process == [c \in Conns |-> IF conn[c] \in {"unborn", "live"} THEN conn[c] ELSE "dead"]
Doomed  == ({call[h].victim : h \in Threads} \cup {answer.victim} \cup dropped) \ {None}

Servers == INSTANCE AppServers WITH server <- Process, current <- cur, doomed <- Doomed

(* The engine keeps the promise of AppServers: of the calls and answers     *)
(* that find the connection broken at once, one takes out whatever is       *)
(* current and that connection is killed, not one opened since; nobody      *)
(* takes up a connection that was taken out.                                *)
ServersSpec == Servers!Spec

(* A call is ended only by the end of a turn of its own thread, on the      *)
(* connection the call listens to.                                          *)
EndsByOwnThread ==
  \A h \in Threads : call[h].by # None =>
    LET k == call[h].by
    IN remote[k].thread = h /\ remote[k].conn = call[h].conn /\ remote[k].st = "over"

(* An answer is written only to the connection whose turn asked.            *)
AnswerReachesAsker ==
  \A a \in answered : remote[a.turn].conn = a.conn /\ remote[a.turn].asked

(* A call that finished, or that had returned when a stop interrupted its    *)
(* turn, leaves no active turn on the current connection, whatever order the *)
(* response, the notifications and the end of the turn came in.  (Nothing is *)
(* promised of a call aborted by a stop, or whose interrupt failed.)         *)
RestHasNoTurn ==
  \A h \in settled : active[h] # None => remote[active[h]].conn # cur

(* A call that listens to a dead connection returns, and a turn the user     *)
(* stops comes to rest, whatever its call is waiting for.                    *)
CallEnds ==
  \A h \in Threads :
    /\ (call[h].pc = "loop" /\ ~Live(call[h].conn)) ~> (call[h].pc = "idle")
    /\ (run[h] = "grace") ~> (run[h] = "rest")

=============================================================================

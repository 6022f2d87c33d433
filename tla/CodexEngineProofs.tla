------------------------- MODULE CodexEngineProofs -------------------------
(* Proofs about CodexEngine: the invariants the runs check hold for any     *)
(* number of threads, connections, turns, queued items and failures.        *)
EXTENDS CodexEngine, TLAPS

Rets     == {"idle", "look", "lock", "spawn", "loop"}
Reqs     == {"none", "unsent", "sent", "ok", "ended", "err"}
CallRecs == [pc : Pcs, why : {"send", "reconcile"}, conn : Conns \cup {None}, tries : Nat,
             victim : Conns \cup {None}, ret : Rets, req : Reqs,
             turn : Turns \cup {None}, reqDone : BOOLEAN, expected : Turns \cup {None},
             done : BOOLEAN, by : Turns \cup {None}]
Runs     == {"rest", "on", "grace"}
Sts      == {"unsent", "sent", "running", "stopping", "over", "refused"}
TurnRecs == [thread : Threads \cup {"none"}, conn : Conns \cup {None}, st : Sts,
             asked : BOOLEAN]
Queues   == {q \in [Threads -> Seq(ItemType)] :
               \A h \in Threads : Len(q[h]) <= Capacity + 1}

(* A task is about to spawn only with the lock and no current transport.    *)
SpawnFit(h) ==
  call[h].pc = "spawn" \/ (call[h].pc = "shut" /\ call[h].ret = "spawn") =>
    lock = h /\ cur = None

(* Only a task that shuts a connection down has a victim.                   *)
VictimFit(h) == call[h].victim # None => call[h].pc = "shut"

(* A call listens, or is about to return after it has listened.             *)
Open(h) == call[h].pc = "loop" \/ (call[h].pc = "shut" /\ call[h].ret \in {"idle", "loop"})

(* What is queued was written for a turn of the thread on the connection    *)
(* the call listens to.                                                     *)
ItemFit(h, m) ==
  m.kind \in {"started", "completed", "ask"} =>
    /\ m.turn \in Turns
    /\ remote[m.turn].thread = h
    /\ remote[m.turn].conn = call[h].conn
    /\ remote[m.turn].st # "unsent"
    /\ m.kind = "completed" => remote[m.turn].st = "over"
    /\ m.kind = "ask" => remote[m.turn].asked

QueueFit(h) ==
  /\ queue[h] # <<>> => Open(h)
  /\ \A i \in 1..Len(queue[h]) : ItemFit(h, queue[h][i])

(* The turn a call requested is one of its thread on its connection, and is *)
(* over when the response says so.                                          *)
CallFit(h) ==
  /\ call[h].by # None => Open(h)
  /\ call[h].turn # None =>
       /\ Open(h)
       /\ remote[call[h].turn].st # "unsent"
       /\ remote[call[h].turn].thread = h
       /\ remote[call[h].turn].conn = call[h].conn
  /\ call[h].req = "ended" => call[h].turn # None /\ remote[call[h].turn].st = "over"

ActiveFit(h) == active[h] # None => remote[active[h]].st # "unsent"

EndFit(h) ==
  call[h].by # None =>
    LET k == call[h].by
    IN remote[k].thread = h /\ remote[k].conn = call[h].conn /\ remote[k].st = "over"

(* A thread that came to rest has no call, and no active turn on the        *)
(* current connection.                                                      *)
RestFit(h) ==
  h \in settled =>
    call[h].pc = "idle" /\ (active[h] # None => remote[active[h]].conn # cur)

(* Only a turn that run_turn observes has a call.                           *)
RunFit(h) == run[h] = "rest" => call[h].pc = "idle"

ThreadFit(h) ==
  /\ SpawnFit(h) /\ VictimFit(h) /\ QueueFit(h) /\ CallFit(h) /\ ActiveFit(h)
  /\ EndFit(h) /\ RestFit(h) /\ RunFit(h)

(* A turn that was requested was requested on a connection that was opened. *)
TurnsFit ==
  \A k \in Turns :
    /\ remote[k].st # "unsent" =>
         k <= sent /\ remote[k].conn \in Conns /\ conn[remote[k].conn] # "unborn"
    /\ remote[k].asked => remote[k].st # "unsent"

CardFit(t, c) == t \in Turns /\ remote[t].conn = c /\ remote[t].asked

CardsFit ==
  /\ \A a \in asks \cup answered : CardFit(a.turn, a.conn)
  /\ answer.pc = "alive" => CardFit(answer.turn, answer.asker)
  /\ answer.victim # None => answer.pc = "shut"

CodexInv ==
  /\ TypeOK /\ OneServer /\ TurnsFit /\ CardsFit
  /\ \A h \in Threads : ThreadFit(h)

---------------------------------------------------------------------------
LEMMA InitInv == Init => CodexInv
<1> SUFFICES ASSUME Init PROVE CodexInv
  OBVIOUS
<1> USE CodexAssumption DEF CodexAssumption, Init, None, Free, Conns, Turns
<1>1. TypeOK
  <2>1. call \in [Threads -> CallRecs] /\ remote \in [Turns -> TurnRecs]
    BY DEF NoCall, NoTurn, CallRecs, TurnRecs, Pcs, Rets, Reqs, Sts
  <2>2. queue \in [Threads -> Seq(ItemType)] /\ \A h \in Threads : Len(queue[h]) <= Capacity + 1
    OBVIOUS
  <2>3. /\ answer \in [pc : {"idle", "alive", "shut"}, turn : Turns \cup {None},
                      asker : Conns \cup {None}, conn : Conns \cup {None},
                      victim : Conns \cup {None}]
        /\ asks = {} /\ answered = {} /\ ready = {} /\ settled = {} /\ dropped = {}
    BY DEF NoAnswer
  <2>4. active \in [Threads -> Turns \cup {None}] /\ conn \in [Conns -> {"unborn"}]
        /\ run \in [Threads -> {"rest"}] /\ inited \in BOOLEAN /\ cur = None /\ lock = Free
    OBVIOUS
  <2>5. sent \in 0..MaxTurns /\ stops \in 0..MaxStops /\ faults \in 0..MaxFaults
    OBVIOUS
  <2> QED
    BY <2>1, <2>2, <2>3, <2>4, <2>5 DEF TypeOK, CallRecs, TurnRecs, Rets, Reqs, Sts
<1>2. OneServer /\ TurnsFit /\ CardsFit
  BY DEF OneServer, TurnsFit, CardsFit, Live, NoTurn, NoAnswer
<1>3. ASSUME NEW h \in Threads PROVE ThreadFit(h)
  BY DEF ThreadFit, SpawnFit, VictimFit, QueueFit, CallFit, ActiveFit, EndFit, RestFit, RunFit,
     NoCall
<1> QED
  BY <1>1, <1>2, <1>3 DEF CodexInv

LEMMA TypeFacts ==
  ASSUME TypeOK
  PROVE  /\ call \in [Threads -> CallRecs]
         /\ remote \in [Turns -> TurnRecs]
         /\ run \in [Threads -> Runs]
         /\ queue \in Queues
         /\ active \in [Threads -> Turns \cup {None}]
BY DEF TypeOK, CallRecs, TurnRecs, Rets, Reqs, Runs, Sts, Queues

LEMMA SetCall ==
  ASSUME call \in [Threads -> CallRecs], NEW h \in Threads, NEW r \in CallRecs,
         call' = [call EXCEPT ![h] = r]
  PROVE  /\ call' \in [Threads -> CallRecs]
         /\ call'[h] = r
         /\ \A g \in Threads : g # h => call'[g] = call[g]
OBVIOUS

LEMMA MoveCall ==
  ASSUME call \in [Threads -> CallRecs], NEW h \in Threads, NEW pc \in Pcs,
         call' = [call EXCEPT ![h].pc = pc]
  PROVE  /\ call' \in [Threads -> CallRecs]
         /\ call'[h] = [call[h] EXCEPT !.pc = pc]
         /\ \A g \in Threads : g # h => call'[g] = call[g]
BY DEF CallRecs

LEMMA SetQueue ==
  ASSUME queue \in Queues, NEW h \in Threads, NEW s \in Seq(ItemType),
         Len(s) <= Capacity + 1, queue' = [queue EXCEPT ![h] = s]
  PROVE  /\ queue' \in Queues
         /\ queue'[h] = s
         /\ \A g \in Threads : g # h => queue'[g] = queue[g]
BY DEF Queues

LEMMA EmptyQueue ==
  ASSUME queue \in Queues, NEW h \in Threads, queue' = [queue EXCEPT ![h] = <<>>]
  PROVE  /\ queue' \in Queues
         /\ queue'[h] = <<>>
         /\ \A g \in Threads : g # h => queue'[g] = queue[g]
<1>1. <<>> \in Seq(ItemType) /\ Len(<<>>) <= Capacity + 1
  BY CodexAssumption DEF CodexAssumption
<1> QED
  BY <1>1, SetQueue

(* The facts about the turns that steps may add to and never take away.     *)
Grows ==
  \A k \in Turns : remote[k].st # "unsent" =>
    /\ remote'[k].st # "unsent"
    /\ remote'[k].thread = remote[k].thread
    /\ remote'[k].conn = remote[k].conn
    /\ remote[k].asked => remote'[k].asked
    /\ remote[k].st = "over" => remote'[k].st = "over"

(* The current transport is kept, dropped, or replaces none by a new one.   *)
CurMoves ==
  \/ cur' = cur
  \/ cur' = None
  \/ cur = None /\ cur' \in Conns /\ conn[cur'] = "unborn"

LEMMA SameTurns == UNCHANGED remote => Grows
BY DEF Grows

(* A step of somebody else leaves the facts about a thread as they are.     *)
LEMMA OtherThread ==
  ASSUME CodexInv, NEW g \in Threads, Grows, CurMoves,
         call'[g] = call[g], queue'[g] = queue[g], run'[g] = run[g],
         g \in settled' => g \in settled,
         active'[g] = active[g] \/ active'[g] = None,
         lock = g => lock' = g /\ (cur' = cur \/ cur' = None)
  PROVE  ThreadFit(g)'
<1>1. /\ ThreadFit(g) /\ TurnsFit /\ TypeOK
      /\ call[g] \in CallRecs /\ active[g] \in Turns \cup {None}
  BY TypeFacts DEF CodexInv
<1>2. SpawnFit(g)' /\ VictimFit(g)'
  BY <1>1 DEF ThreadFit, SpawnFit, VictimFit
<1>3. QueueFit(g)'
  BY <1>1 DEF ThreadFit, QueueFit, ItemFit, Grows, Open
<1>4. CallFit(g)' /\ EndFit(g)'
  BY <1>1 DEF ThreadFit, CallFit, EndFit, Grows, Open, CallRecs
<1>5. ActiveFit(g)'
  BY <1>1 DEF ThreadFit, ActiveFit, Grows
<1>6. RestFit(g)' /\ RunFit(g)'
  BY <1>1 DEF ThreadFit, RestFit, RunFit, ActiveFit, TurnsFit, Grows, CurMoves, None, Conns
<1> QED
  BY <1>2, <1>3, <1>4, <1>5, <1>6 DEF ThreadFit

(* A step of one thread that leaves the connections and the turns alone.    *)
LEMMA QuietStep ==
  ASSUME CodexInv, NEW h \in Threads, TypeOK',
         UNCHANGED <<cur, conn, dropped, remote, sent, asks, answer, answered>>,
         \A g \in Threads : g # h =>
           /\ call'[g] = call[g] /\ queue'[g] = queue[g] /\ run'[g] = run[g]
           /\ g \in settled' => g \in settled
           /\ active'[g] = active[g] \/ active'[g] = None
           /\ lock = g => lock' = g,
         call'[h].victim = call[h].victim \/ call[h].victim = None,
         ThreadFit(h)'
  PROVE  CodexInv'
<1>1. OneServer'
  BY DEF CodexInv, OneServer, Live, None, Conns
<1>2. TurnsFit' /\ CardsFit'
  BY DEF CodexInv, TurnsFit, CardsFit, CardFit
<1>3. Grows /\ CurMoves
  BY SameTurns DEF CurMoves
<1>4. ASSUME NEW g \in Threads PROVE ThreadFit(g)'
  BY <1>3, <1>4, OtherThread
<1> QED
  BY <1>1, <1>2, <1>4 DEF CodexInv

---------------------------------------------------------------------------
(* ensure_ready_transport.                                                  *)

LEMMA SendInv ==
  ASSUME CodexInv, NEW h \in Threads, Send(h)
  PROVE  CodexInv'
<1> DEFINE r == [NoCall EXCEPT !.pc = "look"]
<1>1. /\ TypeOK /\ ThreadFit(h) /\ call \in [Threads -> CallRecs]
      /\ run \in [Threads -> Runs]
  BY TypeFacts DEF CodexInv
<1>2. r \in CallRecs
  BY DEF NoCall, CallRecs, Pcs, Rets, Reqs, None
<1>3. call' \in [Threads -> CallRecs] /\ call'[h] = r
      /\ \A g \in Threads : g # h => call'[g] = call[g]
  BY <1>1, <1>2, SetCall DEF Send
<1>4. /\ run' \in [Threads -> Runs] /\ run'[h] = "on"
      /\ \A g \in Threads : g # h => run'[g] = run[g]
  BY <1>1 DEF Send, Runs
<1>5. TypeOK'
  BY <1>1, <1>3, <1>4 DEF Send, TypeOK, CallRecs, Rets, Reqs, Runs, engine, wires, agent, cards
<1>6. /\ call'[h].pc = "look" /\ call'[h].victim = None
      /\ call'[h].turn = None /\ call'[h].by = None /\ call'[h].req = "none"
  BY <1>3 DEF NoCall
<1>7. call[h].pc = "idle" /\ call[h].victim = None /\ queue[h] = <<>>
  BY <1>1 DEF ThreadFit, RunFit, VictimFit, QueueFit, Open, Send
<1>8. ThreadFit(h)'
  BY <1>1, <1>4, <1>6, <1>7 DEF Send, ThreadFit, SpawnFit, VictimFit, QueueFit, CallFit,
     ActiveFit, EndFit, RestFit, RunFit, engine, agent
<1> QED
  BY <1>3, <1>4, <1>5, <1>6, <1>7, <1>8, QuietStep DEF Send, engine, wires, agent, cards

LEMMA LookInv ==
  ASSUME CodexInv, NEW h \in Threads, Look(h)
  PROVE  CodexInv'
<1> DEFINE pc == IF cur = None THEN Absent(h) ELSE "alive"
           r  == [call[h] EXCEPT !.pc = pc, !.conn = cur]
<1>1. TypeOK /\ ThreadFit(h) /\ call \in [Threads -> CallRecs]
  BY TypeFacts DEF CodexInv
<1>2. r \in CallRecs
  <2>1. pc \in Pcs /\ cur \in Conns \cup {None}
    BY <1>1 DEF Pcs, Absent, TypeOK
  <2> QED
    BY <1>1, <2>1 DEF CallRecs
<1>3. call' \in [Threads -> CallRecs] /\ call'[h] = r
      /\ \A g \in Threads : g # h => call'[g] = call[g]
  <2>1. call' = [call EXCEPT ![h] = r]
    BY <1>1 DEF Look
  <2> QED
    BY <1>1, <1>2, <2>1, SetCall
<1>4. TypeOK'
  BY <1>1, <1>3 DEF Look, TypeOK, CallRecs, Rets, Reqs, Runs, Queues, engine, wires, agent,
     cards, halts
<1>5. ThreadFit(h)'
  BY <1>1, <1>3 DEF Look, ThreadFit, SpawnFit, VictimFit, QueueFit, ItemFit, CallFit, ActiveFit,
     EndFit, RestFit, RunFit, halts, Open, Absent, CallRecs, engine, agent
<1>6. call'[h].victim = call[h].victim
  BY <1>1, <1>3 DEF CallRecs
<1> QED
  BY <1>3, <1>4, <1>5, <1>6, QuietStep DEF Look, engine, wires, agent, cards, halts

(* A step of one thread that takes the current transport out of the state.  *)
LEMMA ForgetStep ==
  ASSUME CodexInv, NEW h \in Threads, TypeOK', Forget,
         UNCHANGED <<lock, conn, dropped, remote, sent, asks, answer, answered, settled>>,
         \A g \in Threads : g # h =>
           call'[g] = call[g] /\ queue'[g] = queue[g] /\ run'[g] = run[g],
         call[h].victim = None, call'[h].victim = cur,
         ThreadFit(h)'
  PROVE  CodexInv'
<1>1. OneServer'
  BY DEF CodexInv, OneServer, Live, Forget, None, Conns
<1>2. TurnsFit' /\ CardsFit'
  BY DEF CodexInv, TurnsFit, CardsFit, CardFit
<1>3. Grows /\ CurMoves
  BY SameTurns DEF CurMoves, Forget
<1>4. ASSUME NEW g \in Threads PROVE ThreadFit(g)'
  <2>1. CASE g = h
    BY <2>1
  <2>2. CASE g # h
    <3>1. active'[g] = None /\ cur' = None
      BY DEF Forget
    <3> QED
      BY <1>3, <2>2, <3>1, OtherThread
  <2> QED
    BY <2>1, <2>2
<1> QED
  BY <1>1, <1>2, <1>4 DEF CodexInv

LEMMA IsAliveInv ==
  ASSUME CodexInv, NEW h \in Threads, IsAlive(h)
  PROVE  CodexInv'
<1>1. TypeOK /\ ThreadFit(h) /\ call \in [Threads -> CallRecs]
  BY TypeFacts DEF CodexInv
<1>2. CASE Live(call[h].conn)
  <2>1. /\ Goto(h, "init") /\ lock' = IF lock = h THEN Free ELSE lock
        /\ UNCHANGED engine
    BY <1>2 DEF IsAlive
  <2>2. call' \in [Threads -> CallRecs] /\ call'[h] = [call[h] EXCEPT !.pc = "init"]
        /\ \A g \in Threads : g # h => call'[g] = call[g]
    BY <1>1, <2>1, MoveCall DEF Goto, Pcs
  <2>3. TypeOK'
    BY <1>1, <2>1, <2>2 DEF IsAlive, TypeOK, CallRecs, Rets, Reqs, Runs, Queues, engine,
       wires, agent, cards,
       halts
  <2>4. ThreadFit(h)'
    BY <1>1, <2>1, <2>2 DEF IsAlive, ThreadFit, SpawnFit, VictimFit, QueueFit, ItemFit, CallFit,
       ActiveFit, EndFit, RestFit, RunFit, halts, Open, CallRecs, engine, agent
  <2>5. call'[h].victim = call[h].victim
    BY <1>1, <2>2 DEF CallRecs
  <2> QED
    BY <2>1, <2>2, <2>3, <2>4, <2>5, QuietStep DEF IsAlive, engine, wires, agent, cards, halts
<1>3. CASE ~Live(call[h].conn)
  <2> DEFINE r == [call[h] EXCEPT !.pc = "shut", !.victim = cur, !.ret = Absent(h)]
  <2>1. Invalidate(h, Absent(h)) /\ UNCHANGED lock
    BY <1>3 DEF IsAlive
  <2>2. r \in CallRecs
    <3>1. cur \in Conns \cup {None} /\ Absent(h) \in Rets /\ "shut" \in Pcs
      BY <1>1 DEF TypeOK, Absent, Rets, Pcs
    <3> QED
      BY <1>1, <3>1 DEF CallRecs
  <2>3. call' \in [Threads -> CallRecs] /\ call'[h] = r
        /\ \A g \in Threads : g # h => call'[g] = call[g]
    <3>1. call' = [call EXCEPT ![h] = r]
      BY <1>1, <2>1 DEF Invalidate
    <3> QED
      BY <1>1, <2>2, <3>1, SetCall
  <2>4. TypeOK'
    BY <1>1, <2>1, <2>3 DEF Invalidate, Forget, IsAlive, TypeOK, CallRecs, Rets, Reqs, Runs,
       Queues, wires,
       agent, cards, halts
  <2>5. /\ call'[h].victim = cur /\ call'[h].pc = "shut" /\ call'[h].ret = Absent(h)
        /\ call'[h].turn = call[h].turn /\ call'[h].by = call[h].by
        /\ call'[h].req = call[h].req
    BY <1>1, <2>3 DEF CallRecs
  <2>6. /\ call[h].victim = None /\ call[h].by = None /\ call[h].turn = None
        /\ call[h].req # "ended" /\ queue[h] = <<>>
    BY <1>1 DEF IsAlive, ThreadFit, VictimFit, CallFit, QueueFit, Open
  <2>7. ThreadFit(h)'
    BY <1>1, <2>1, <2>5, <2>6 DEF Invalidate, Forget, IsAlive, ThreadFit, SpawnFit, VictimFit,
       QueueFit, CallFit, ActiveFit, EndFit, RestFit, RunFit, halts, Absent, agent
  <2> QED
    BY <2>1, <2>3, <2>4, <2>5, <2>6, <2>7, ForgetStep
    DEF Invalidate, IsAlive, wires, agent, cards, halts
<1> QED
  BY <1>2, <1>3

LEMMA LockInv ==
  ASSUME CodexInv, NEW h \in Threads, Lock(h)
  PROVE  CodexInv'
<1>1. TypeOK /\ ThreadFit(h) /\ call \in [Threads -> CallRecs]
  BY TypeFacts DEF CodexInv
<1>2. call' \in [Threads -> CallRecs] /\ call'[h] = [call[h] EXCEPT !.pc = "look"]
      /\ \A g \in Threads : g # h => call'[g] = call[g]
  BY <1>1, MoveCall DEF Lock, Goto, Pcs
<1>3. TypeOK'
  BY <1>1, <1>2 DEF Lock, TypeOK, CallRecs, Rets, Reqs, Runs, Queues, engine, wires, agent,
     cards, halts
<1>4. ThreadFit(h)'
  BY <1>1, <1>2 DEF Lock, ThreadFit, SpawnFit, VictimFit, QueueFit, ItemFit, CallFit,
     ActiveFit, EndFit, RestFit, RunFit, halts, Open, CallRecs, engine, agent
<1>5. call'[h].victim = call[h].victim
  BY <1>1, <1>2 DEF CallRecs
<1>6. \A g \in Threads : lock # g
  BY CodexAssumption DEF CodexAssumption, Lock, Free
<1> QED
  BY <1>2, <1>3, <1>4, <1>5, <1>6, QuietStep DEF Lock, engine, wires, agent, cards, halts

LEMMA SpawnInv ==
  ASSUME CodexInv, NEW h \in Threads, Spawn(h)
  PROVE  CodexInv'
<1>1. TypeOK /\ ThreadFit(h) /\ call \in [Threads -> CallRecs]
  BY TypeFacts DEF CodexInv
<1>2. PICK c \in Unborn : /\ conn' = [conn EXCEPT ![c] = "live"]
                          /\ cur' = c
                          /\ call' = [call EXCEPT ![h].pc = "init", ![h].conn = c]
  BY DEF Spawn
<1>3. c \in Conns /\ conn[c] = "unborn" /\ cur = None /\ lock = h
  BY <1>1, <1>2 DEF Unborn, Spawn, ThreadFit, SpawnFit
<1> DEFINE r == [call[h] EXCEPT !.pc = "init", !.conn = c]
<1>4. r \in CallRecs
  <2>1. "init" \in Pcs /\ c \in Conns \cup {None}
    BY <1>3 DEF Pcs
  <2> QED
    BY <1>1, <2>1 DEF CallRecs
<1>5. call' \in [Threads -> CallRecs] /\ call'[h] = r
      /\ \A g \in Threads : g # h => call'[g] = call[g]
  <2>1. call' = [call EXCEPT ![h] = r]
    BY <1>1, <1>2
  <2> QED
    BY <1>1, <1>4, <2>1, SetCall
<1>6. TypeOK'
  BY <1>1, <1>2, <1>3, <1>5 DEF Spawn, TypeOK, CallRecs, Rets, Reqs, Runs, Queues, agent,
     cards, halts
<1>7. /\ call'[h].pc = "init" /\ call'[h].victim = call[h].victim
      /\ call'[h].turn = call[h].turn /\ call'[h].by = call[h].by /\ call'[h].req = call[h].req
  BY <1>1, <1>5 DEF CallRecs
<1>8. call[h].by = None /\ call[h].turn = None /\ call[h].req # "ended" /\ queue[h] = <<>>
  BY <1>1 DEF Spawn, ThreadFit, CallFit, QueueFit, Open
<1>9. ThreadFit(h)'
  BY <1>1, <1>7, <1>8 DEF Spawn, ThreadFit, SpawnFit, VictimFit, QueueFit, CallFit, ActiveFit,
     EndFit, RestFit, RunFit, halts, agent
<1>10. OneServer'
  <2> SUFFICES ASSUME NEW d \in Conns, Live(d)', d # c
               PROVE  answer'.victim = d \/ d \in dropped' \/ \E g \in Threads : call'[g].victim = d
    BY <1>2 DEF OneServer
  <2>1. Live(d) /\ d # cur
    BY <1>1, <1>2, <1>3 DEF Live, TypeOK
  <2> QED
    BY <1>5, <1>7, <2>1 DEF CodexInv, OneServer, Spawn, cards
<1>11. TurnsFit' /\ CardsFit'
  BY <1>1, <1>2 DEF CodexInv, TypeOK, TurnsFit, CardsFit, CardFit, Spawn, agent, cards
<1>12. Grows /\ CurMoves
  BY <1>2, <1>3, SameTurns DEF CurMoves, Spawn, agent
<1>13. ASSUME NEW g \in Threads PROVE ThreadFit(g)'
  <2>1. CASE g = h
    BY <1>9, <2>1
  <2>2. CASE g # h
    BY <1>3, <1>5, <1>12, <2>2, OtherThread DEF Spawn, halts
  <2> QED
    BY <2>1, <2>2
<1> QED
  BY <1>6, <1>10, <1>11, <1>13 DEF CodexInv

(* A call that returns.                                                     *)
Returned(h) ==
  /\ call'[h].pc = "idle" /\ call'[h].victim = None /\ call'[h].turn = None
  /\ call'[h].by = None /\ call'[h].req = "none"
  /\ queue'[h] = <<>>
  /\ run'[h] = IF run[h] = "grace" THEN "rest" ELSE run[h]
  /\ \A g \in Threads : g # h =>
       call'[g] = call[g] /\ queue'[g] = queue[g] /\ run'[g] = run[g]

LEMMA ReturnFacts ==
  ASSUME TypeOK, NEW h \in Threads, NEW told \in BOOLEAN, Return(h, told)
  PROVE  /\ call' \in [Threads -> CallRecs]
         /\ queue' \in Queues
         /\ run' \in [Threads -> Runs]
         /\ Returned(h)
<1> DEFINE d == told /\ run[h] = "on"
           r == [NoCall EXCEPT !.done = d]
           w == IF run[h] = "grace" THEN "rest" ELSE run[h]
<1>1. /\ call \in [Threads -> CallRecs] /\ queue \in Queues /\ run \in [Threads -> Runs]
  BY TypeFacts
<1>2. d \in BOOLEAN
  OBVIOUS
<1>3. w \in Runs
  BY <1>1 DEF Runs
<1>4. call' = [call EXCEPT ![h] = r] /\ run' = [run EXCEPT ![h] = w]
      /\ queue' = [queue EXCEPT ![h] = <<>>]
  BY <1>1 DEF Return
<1>5. w = IF run[h] = "grace" THEN "rest" ELSE run[h]
  OBVIOUS
<1> HIDE DEF d, w
<1>6. r \in CallRecs
  BY <1>2 DEF NoCall, CallRecs, Pcs, Rets, Reqs, None
<1>7. r.pc = "idle" /\ r.victim = None /\ r.turn = None /\ r.by = None /\ r.req = "none"
  BY DEF NoCall
<1> HIDE DEF r
<1>8. call' \in [Threads -> CallRecs] /\ call'[h] = r
      /\ \A g \in Threads : g # h => call'[g] = call[g]
  BY <1>1, <1>4, <1>6, SetCall
<1>9. queue' \in Queues /\ queue'[h] = <<>>
      /\ \A g \in Threads : g # h => queue'[g] = queue[g]
  BY <1>1, <1>4, EmptyQueue
<1>10. run' \in [Threads -> Runs] /\ run'[h] = w
       /\ \A g \in Threads : g # h => run'[g] = run[g]
  BY <1>1, <1>3, <1>4
<1> QED
  BY <1>5, <1>7, <1>8, <1>9, <1>10 DEF Returned

(* A thread whose call returned fits, when its rest does.                   *)
LEMMA ReturnFit ==
  ASSUME NEW h \in Threads, ActiveFit(h), UNCHANGED remote,
         active'[h] = active[h] \/ active'[h] = None, Returned(h), RestFit(h)'
  PROVE  ThreadFit(h)'
<1>1. \A i \in 1..Len(queue'[h]) : FALSE
  BY DEF Returned
<1> QED
  BY <1>1 DEF Returned, ThreadFit, SpawnFit, VictimFit, QueueFit, CallFit, ActiveFit, EndFit,
     RunFit

(* A call that returns has left no trace at rest, when it was under way.     *)
LEMMA ReturnRest ==
  ASSUME NEW h \in Threads, RestFit(h), call[h].pc # "idle", Returned(h),
         settled' = settled \/ active'[h] = None
  PROVE  RestFit(h)'
BY DEF RestFit, Returned

LEMMA SpawnFailsInv ==
  ASSUME CodexInv, NEW h \in Threads, SpawnFails(h)
  PROVE  CodexInv'
<1>1. TypeOK /\ ThreadFit(h) /\ call[h].done \in BOOLEAN
  BY TypeFacts DEF CodexInv, CallRecs
<1>2. /\ call' \in [Threads -> CallRecs] /\ queue' \in Queues
      /\ run' \in [Threads -> Runs] /\ Returned(h)
  BY <1>1, ReturnFacts DEF SpawnFails
<1>3. faults' \in 0..MaxFaults
  BY <1>1, CodexAssumption DEF CodexAssumption, SpawnFails, Fault, TypeOK
<1>4. TypeOK'
  BY <1>1, <1>2, <1>3 DEF SpawnFails, TypeOK, CallRecs, Rets, Reqs, Runs, Queues, engine, wires,
     agent, cards
<1>5. call[h].victim = None /\ \A g \in Threads : g # h => lock # g
  BY <1>1 DEF SpawnFails, ThreadFit, SpawnFit, VictimFit
<1>6. RestFit(h)'
  BY <1>1, <1>2, ReturnRest DEF ThreadFit, SpawnFails
<1>7. ThreadFit(h)'
  BY <1>1, <1>2, <1>6, ReturnFit DEF ThreadFit, SpawnFails, engine, agent
<1> QED
  BY <1>2, <1>4, <1>5, <1>7, QuietStep DEF Returned, SpawnFails, engine, wires, agent, cards

LEMMA InitializedInv ==
  ASSUME CodexInv, NEW h \in Threads, Initialized(h)
  PROVE  CodexInv'
<1>1. TypeOK /\ ThreadFit(h) /\ call \in [Threads -> CallRecs]
  BY TypeFacts DEF CodexInv
<1>2. AfterInit(h) \in Pcs
  BY DEF AfterInit, Pcs
<1> DEFINE r == [call[h] EXCEPT !.pc = AfterInit(h), !.tries = 0]
<1>3. call' \in [Threads -> CallRecs] /\ call'[h] = r
      /\ \A g \in Threads : g # h => call'[g] = call[g]
  <2>1. r \in CallRecs
    BY <1>1, <1>2 DEF CallRecs
  <2>2. call' = [call EXCEPT ![h] = r]
    BY <1>1 DEF Initialized
  <2> QED
    BY <1>1, <2>1, <2>2, SetCall
<1>4. inited' \in BOOLEAN /\ ready' \subseteq Conns
  <2>1. Live(call[h].conn) => call[h].conn \in Conns
    BY <1>1 DEF Live, CallRecs
  <2> QED
    BY <1>1, <2>1 DEF Initialized, TypeOK
<1>5. TypeOK'
  BY <1>1, <1>3, <1>4 DEF Initialized, TypeOK, CallRecs, Rets, Reqs, Runs, Queues, agent,
     cards, halts
<1>6. /\ call'[h].pc = AfterInit(h) /\ call'[h].victim = call[h].victim
      /\ call'[h].turn = call[h].turn /\ call'[h].by = call[h].by /\ call'[h].req = call[h].req
  BY <1>1, <1>2, <1>3 DEF CallRecs
<1>7. call[h].by = None /\ call[h].turn = None /\ call[h].req # "ended" /\ queue[h] = <<>>
  BY <1>1 DEF Initialized, ThreadFit, CallFit, QueueFit, Open
<1>8. ThreadFit(h)'
  BY <1>1, <1>6, <1>7 DEF Initialized, ThreadFit, SpawnFit, VictimFit, QueueFit, CallFit,
     ActiveFit, EndFit, RestFit, RunFit, halts, AfterInit, agent
<1> QED
  BY <1>3, <1>5, <1>6, <1>8, QuietStep DEF Initialized, agent, cards, halts

LEMMA InitializeFailsInv ==
  ASSUME CodexInv, NEW h \in Threads, InitializeFails(h)
  PROVE  CodexInv'
<1> DEFINE ret == IF call[h].tries + 1 < Attempts THEN "look" ELSE "idle"
           n   == call[h].tries + 1
           r   == [call[h] EXCEPT !.pc = "shut", !.victim = cur, !.tries = n, !.ret = ret]
<1>1. TypeOK /\ ThreadFit(h) /\ call \in [Threads -> CallRecs]
  BY TypeFacts DEF CodexInv
<1>2. r \in CallRecs
  <2>1. cur \in Conns \cup {None} /\ ret \in Rets /\ "shut" \in Pcs
    BY <1>1 DEF TypeOK, Rets, Pcs
  <2>2. n \in Nat
    BY <1>1 DEF CallRecs
  <2> HIDE DEF ret, n
  <2> QED
    BY <1>1, <2>1, <2>2 DEF CallRecs
<1>3. call' \in [Threads -> CallRecs] /\ call'[h] = r
      /\ \A g \in Threads : g # h => call'[g] = call[g]
  <2>1. call' = [call EXCEPT ![h] = r]
    BY <1>1 DEF InitializeFails
  <2> QED
    BY <1>1, <1>2, <2>1, SetCall
<1>4. faults' \in 0..MaxFaults
  BY <1>1, CodexAssumption DEF CodexAssumption, InitializeFails, Fault, TypeOK
<1>5. TypeOK'
  BY <1>1, <1>3, <1>4 DEF Forget, InitializeFails, TypeOK, CallRecs, Rets, Reqs, Runs, Queues,
     wires, agent,
     cards, halts
<1>6. /\ call'[h].victim = cur /\ call'[h].pc = "shut" /\ call'[h].ret \in {"look", "idle"}
      /\ call'[h].turn = call[h].turn /\ call'[h].by = call[h].by
      /\ call'[h].req = call[h].req
  BY <1>1, <1>3 DEF CallRecs
<1>7. /\ call[h].victim = None /\ call[h].by = None /\ call[h].turn = None
      /\ call[h].req # "ended" /\ queue[h] = <<>>
  BY <1>1 DEF InitializeFails, ThreadFit, VictimFit, CallFit, QueueFit, Open
<1>8. ThreadFit(h)'
  BY <1>1, <1>6, <1>7 DEF Forget, InitializeFails, ThreadFit, SpawnFit, VictimFit, QueueFit,
     CallFit, ActiveFit, EndFit, RestFit, RunFit, halts, agent
<1> QED
  BY <1>3, <1>5, <1>6, <1>7, <1>8, ForgetStep DEF InitializeFails, wires, agent, cards, halts

(* A step that only kills a connection outside of the state.                *)
LEMMA KillStep ==
  ASSUME CodexInv, NEW c \in Conns \cup {None}, TypeOK',
         conn' = IF c = None THEN conn ELSE Killed(c),
         UNCHANGED <<cur, lock, active, dropped, remote, sent, asks, answered, settled>>,
         \A d \in Conns : d # c =>
           (answer.victim = d => answer'.victim = d)
           /\ \A g \in Threads : call[g].victim = d => call'[g].victim = d,
         CardsFit', \A g \in Threads : ThreadFit(g)'
  PROVE  CodexInv'
<1>1. conn \in [Conns -> {"unborn", "live", "exited", "closed"}]
  BY DEF CodexInv, TypeOK
<1>2. \A d \in Conns : /\ conn'[d] = "live" => conn[d] = "live" /\ d # c
                       /\ conn[d] # "unborn" => conn'[d] # "unborn"
  BY <1>1 DEF Killed, Conns, None
<1>3. OneServer'
  BY <1>2 DEF CodexInv, OneServer, Live
<1>4. TurnsFit'
  BY <1>2 DEF CodexInv, TurnsFit
<1> QED
  BY <1>3, <1>4 DEF CodexInv

LEMMA ShutdownInv ==
  ASSUME CodexInv, NEW h \in Threads, Shutdown(h)
  PROVE  CodexInv'
<1>1. /\ TypeOK /\ ThreadFit(h) /\ call \in [Threads -> CallRecs] /\ queue \in Queues
      /\ run \in [Threads -> Runs]
  BY TypeFacts DEF CodexInv
<1>2. /\ call[h].pc = "shut" /\ call[h].victim \in Conns \cup {None}
      /\ call[h].ret \in Rets /\ call[h].done \in BOOLEAN
      /\ UNCHANGED <<cur, active, lock, remote, settled, dropped>>
  BY <1>1 DEF Shutdown, CallRecs, engine, agent
<1>3. /\ call' \in [Threads -> CallRecs] /\ call'[h].victim = None
      /\ queue' \in Queues /\ run' \in [Threads -> Runs]
      /\ \A g \in Threads : g # h =>
           call'[g] = call[g] /\ queue'[g] = queue[g] /\ run'[g] = run[g]
      /\ ThreadFit(h)'
  <2>1. CASE call[h].ret = "idle"
    <3>1. /\ call' \in [Threads -> CallRecs] /\ queue' \in Queues
          /\ run' \in [Threads -> Runs] /\ Returned(h)
      BY <1>1, <1>2, <2>1, ReturnFacts DEF Shutdown
    <3>2. RestFit(h)'
      BY <1>1, <1>2, <3>1, ReturnRest DEF ThreadFit
    <3>3. ThreadFit(h)'
      BY <1>1, <1>2, <3>1, <3>2, ReturnFit DEF ThreadFit
    <3> QED
      BY <3>1, <3>3 DEF Returned
  <2>2. CASE call[h].ret # "idle"
    <3> DEFINE c == IF call[h].ret = "loop" THEN call[h].conn ELSE None
               r == [call[h] EXCEPT !.pc = call[h].ret, !.victim = None, !.conn = c,
                                  !.ret = "idle"]
    <3>1. c \in Conns \cup {None} /\ (call[h].ret = "loop" => c = call[h].conn)
      BY <1>1 DEF CallRecs
    <3>2. call' = [call EXCEPT ![h] = r] /\ UNCHANGED <<queue, run>>
      BY <1>1, <2>2 DEF Shutdown
    <3> HIDE DEF c
    <3>3. r \in CallRecs
      <4>1. call[h].ret \in Pcs /\ "idle" \in Rets /\ None \in Conns \cup {None}
        BY <1>2 DEF Rets, Pcs
      <4>2. c \in Conns \cup {None} /\ call[h] \in CallRecs
        BY <1>1, <3>1
      <4> QED
        BY <4>1, <4>2 DEF CallRecs
    <3>4. call' \in [Threads -> CallRecs] /\ call'[h] = r
          /\ \A g \in Threads : g # h => call'[g] = call[g]
      BY <1>1, <3>2, <3>3, SetCall
    <3>5. /\ call'[h].pc = call[h].ret /\ call'[h].victim = None
          /\ call'[h].turn = call[h].turn /\ call'[h].by = call[h].by
          /\ call'[h].req = call[h].req /\ call'[h].conn = c
      BY <1>1, <3>4 DEF CallRecs
    <3>6. SpawnFit(h)' /\ VictimFit(h)' /\ ActiveFit(h)' /\ RunFit(h)' /\ RestFit(h)'
      BY <1>1, <1>2, <2>2, <3>2, <3>5 DEF ThreadFit, SpawnFit, VictimFit, ActiveFit, RestFit,
         RunFit
    <3>7. QueueFit(h)' /\ CallFit(h)' /\ EndFit(h)'
      <4>1. CASE call[h].ret = "loop"
        BY <1>1, <1>2, <3>1, <3>2, <3>5, <4>1 DEF ThreadFit, QueueFit, ItemFit, CallFit,
           EndFit, Open
      <4>2. CASE call[h].ret # "loop"
        <5>1. /\ call[h].by = None /\ call[h].turn = None /\ call[h].req # "ended"
              /\ queue[h] = <<>>
          BY <1>1, <1>2, <2>2, <4>2 DEF ThreadFit, CallFit, QueueFit, Open
        <5> QED
          BY <3>2, <3>5, <5>1 DEF QueueFit, CallFit, EndFit
      <4> QED
        BY <4>1, <4>2
    <3> QED
      BY <1>1, <3>2, <3>4, <3>5, <3>6, <3>7 DEF ThreadFit
  <2> QED
    BY <2>1, <2>2
<1>4. TypeOK'
  <2>1. conn' \in [Conns -> {"unborn", "live", "exited", "closed"}]
    BY <1>1, <1>2 DEF Shutdown, TakenOut, Killed, TypeOK
  <2> QED
    BY <1>1, <1>3, <2>1 DEF Shutdown, TypeOK, CallRecs, Rets, Reqs, Runs, Queues, engine, agent,
       cards
<1>5. ASSUME NEW g \in Threads PROVE ThreadFit(g)'
  <2>1. CASE g # h
    BY <1>2, <1>3, <2>1, OtherThread, SameTurns DEF CurMoves
  <2> QED
    BY <1>3, <2>1
<1>6. CardsFit'
  BY DEF CodexInv, CardsFit, CardFit, Shutdown, agent, cards
<1>7. \A d \in Conns : d # call[h].victim =>
         \A g \in Threads : call[g].victim = d => call'[g].victim = d
  BY <1>3
<1> QED
  BY <1>2, <1>4, <1>5, <1>6, <1>7, KillStep DEF Shutdown, TakenOut, engine, agent, cards

---------------------------------------------------------------------------
(* The turn.                                                                *)

(* The facts about a queue and an end survive what a thread learns.         *)
LEMMA KeepFit ==
  ASSUME CodexInv, NEW h \in Threads, Grows, queue'[h] = queue[h],
         call'[h].pc = call[h].pc, call'[h].ret = call[h].ret,
         call'[h].conn = call[h].conn, call'[h].by = call[h].by
  PROVE  QueueFit(h)' /\ EndFit(h)' /\ (call'[h].by # None => Open(h)')
<1>1. ThreadFit(h) /\ TypeOK /\ call[h] \in CallRecs
  BY TypeFacts DEF CodexInv
<1>2. QueueFit(h)'
  BY <1>1 DEF ThreadFit, QueueFit, ItemFit, Grows, Open
<1>3. EndFit(h)' /\ (call'[h].by # None => Open(h)')
  BY <1>1 DEF ThreadFit, EndFit, CallFit, Grows, Open, CallRecs
<1> QED
  BY <1>2, <1>3

LEMMA SubscribeInv ==
  ASSUME CodexInv, NEW h \in Threads, Subscribe(h)
  PROVE  CodexInv'
<1> DEFINE r == [call[h] EXCEPT !.pc = "loop", !.req = "unsent"]
<1>1. /\ TypeOK /\ ThreadFit(h) /\ call \in [Threads -> CallRecs]
      /\ queue \in Queues
  BY TypeFacts DEF CodexInv
<1>2. r \in CallRecs
  <2>1. "loop" \in Pcs /\ "unsent" \in Reqs
    BY DEF Pcs, Reqs
  <2> QED
    BY <1>1, <2>1 DEF CallRecs
<1>3. call' \in [Threads -> CallRecs] /\ call'[h] = r
      /\ \A g \in Threads : g # h => call'[g] = call[g]
  <2>1. call' = [call EXCEPT ![h] = r]
    BY <1>1 DEF Subscribe
  <2> QED
    BY <1>1, <1>2, <2>1, SetCall
<1>4. queue' \in Queues /\ queue'[h] = <<>>
      /\ \A g \in Threads : g # h => queue'[g] = queue[g]
  BY <1>1, EmptyQueue DEF Subscribe
<1>5. TypeOK'
  BY <1>1, <1>3, <1>4 DEF Subscribe, TypeOK, CallRecs, Rets, Reqs, Runs, Queues, engine,
     wires, agent, cards,
     halts
<1>6. /\ call'[h].pc = "loop" /\ call'[h].victim = call[h].victim
      /\ call'[h].turn = call[h].turn /\ call'[h].by = call[h].by /\ call'[h].why = call[h].why
  BY <1>1, <1>3 DEF CallRecs
<1>7. call[h].by = None /\ call[h].turn = None
  BY <1>1 DEF Subscribe, ThreadFit, CallFit, Open
<1>8. ThreadFit(h)'
  BY <1>1, <1>4, <1>6, <1>7 DEF Subscribe, ThreadFit, SpawnFit, VictimFit, QueueFit, CallFit,
     ActiveFit, EndFit, RestFit, RunFit, halts, engine, agent
<1> QED
  BY <1>3, <1>4, <1>5, <1>6, <1>8, QuietStep DEF Subscribe, engine, wires, agent, cards, halts

(* A turn/start request that fails, is refused or times out.                *)
LEMMA RequestFails ==
  ASSUME CodexInv, NEW h \in Threads, Listening(h),
         call' = [call EXCEPT ![h].req = "err"],
         UNCHANGED <<engine, lock, wires, queue, agent, cards, halts>>,
         Fault \/ UNCHANGED faults
  PROVE  CodexInv'
<1> DEFINE r == [call[h] EXCEPT !.req = "err"]
<1>1. TypeOK /\ ThreadFit(h) /\ call \in [Threads -> CallRecs]
  BY TypeFacts DEF CodexInv
<1>2. r \in CallRecs
  BY <1>1 DEF CallRecs, Reqs
<1>3. call' \in [Threads -> CallRecs] /\ call'[h] = r
      /\ \A g \in Threads : g # h => call'[g] = call[g]
  BY <1>1, <1>2, SetCall
<1>4. faults' \in 0..MaxFaults
  BY <1>1, CodexAssumption DEF CodexAssumption, Fault, TypeOK
<1>5. TypeOK'
  BY <1>1, <1>3, <1>4 DEF TypeOK, CallRecs, Rets, Reqs, Runs, Queues, engine, wires, agent,
     cards, halts
<1>6. /\ call'[h].pc = call[h].pc /\ call'[h].victim = call[h].victim
      /\ call'[h].ret = call[h].ret /\ call'[h].conn = call[h].conn
      /\ call'[h].turn = call[h].turn /\ call'[h].by = call[h].by /\ call'[h].req = "err"
  BY <1>1, <1>3 DEF CallRecs
<1>7. QueueFit(h)' /\ EndFit(h)' /\ (call'[h].by # None => Open(h)')
  BY <1>6, KeepFit, SameTurns DEF agent
<1>8. ThreadFit(h)'
  BY <1>1, <1>6, <1>7 DEF ThreadFit, SpawnFit, VictimFit, CallFit, ActiveFit, RestFit, RunFit,
     halts, engine,
     agent, Listening, Open
<1> QED
  BY <1>3, <1>5, <1>6, <1>8, QuietStep DEF engine, wires, agent, cards, halts

(* A turn is requested, by a call or by the task a call left behind.        *)
NewTurn(h) ==
  /\ Live(call[h].conn) /\ sent < MaxTurns
  /\ sent' = sent + 1
  /\ remote' = [remote EXCEPT ![sent + 1] =
                  [NoTurn EXCEPT !.thread = h, !.conn = call[h].conn, !.st = "sent"]]

LEMMA NewTurnFacts ==
  ASSUME CodexInv, NEW h \in Threads, NewTurn(h), UNCHANGED conn
  PROVE  /\ remote' \in [Turns -> TurnRecs]
         /\ sent' = sent + 1 /\ sent' \in Turns /\ sent' \in 0..MaxTurns
         /\ remote'[sent'].thread = h /\ remote'[sent'].conn = call[h].conn
         /\ remote'[sent'].st = "sent"
         /\ Grows /\ TurnsFit'
         /\ \A t, c : CardFit(t, c) => CardFit(t, c)'
<1>1. /\ TypeOK /\ ThreadFit(h) /\ call \in [Threads -> CallRecs]
      /\ remote \in [Turns -> TurnRecs]
  BY TypeFacts DEF CodexInv
<1> DEFINE n == sent + 1
           c == call[h].conn
           t == [NoTurn EXCEPT !.thread = h, !.conn = c, !.st = "sent"]
<1>2. n \in Turns /\ sent' = n /\ sent' \in 0..MaxTurns /\ n > sent
  BY <1>1, CodexAssumption DEF CodexAssumption, NewTurn, TypeOK, Turns
<1>3. c \in Conns /\ conn[c] # "unborn"
  BY <1>1 DEF NewTurn, Live, CallRecs
<1>4. t \in TurnRecs /\ t.thread = h /\ t.conn = c /\ t.st = "sent" /\ ~t.asked
  BY <1>3 DEF NoTurn, TurnRecs, Sts
<1>5. remote' \in [Turns -> TurnRecs] /\ remote'[n] = t
      /\ \A k \in Turns : k # n => remote'[k] = remote[k]
  <2> HIDE DEF t
  <2>1. remote' = [remote EXCEPT ![n] = t]
    BY DEF NewTurn, t
  <2> HIDE DEF n
  <2> QED
    BY <1>1, <1>2, <1>4, <2>1
<1>6. remote[n].st = "unsent" /\ ~remote[n].asked
  <2>1. ~(n <= sent)
    BY <1>1, <1>2 DEF TypeOK
  <2> QED
    BY <1>2, <2>1 DEF CodexInv, TurnsFit
<1> HIDE DEF t, n
<1>7. Grows
  BY <1>5, <1>6 DEF Grows
<1>8. TurnsFit'
  <2>1. \A k \in Turns : k <= sent => k <= sent'
    BY <1>1 DEF NewTurn, TypeOK, Turns
  <2>2. n <= sent'
    BY <1>2 DEF Turns
  <2> QED
    BY <1>3, <1>4, <1>5, <2>1, <2>2 DEF CodexInv, TurnsFit
<1>9. \A u, d : CardFit(u, d) => CardFit(u, d)'
  BY <1>5, <1>6 DEF CardFit
<1> QED
  BY <1>2, <1>4, <1>5, <1>7, <1>8, <1>9 DEF n

LEMMA SendStartInv ==
  ASSUME CodexInv, NEW h \in Threads, SendStart(h)
  PROVE  CodexInv'
<1>1. TypeOK /\ ThreadFit(h) /\ call \in [Threads -> CallRecs] /\ Listening(h)
  BY TypeFacts DEF CodexInv, SendStart
<1>2. CASE call' = [call EXCEPT ![h].req = "err"] /\ UNCHANGED agent
  BY <1>2, RequestFails DEF SendStart
<1>3. CASE NewTurn(h) /\ call' = [call EXCEPT ![h].req = "sent", ![h].turn = sent + 1]
  <2> DEFINE r == [call[h] EXCEPT !.req = "sent", !.turn = sent']
  <2>1. /\ remote' \in [Turns -> TurnRecs]
        /\ sent' = sent + 1 /\ sent' \in Turns /\ sent' \in 0..MaxTurns
        /\ remote'[sent'].thread = h /\ remote'[sent'].conn = call[h].conn
        /\ remote'[sent'].st = "sent"
        /\ Grows /\ TurnsFit'
        /\ \A t, c : CardFit(t, c) => CardFit(t, c)'
    BY <1>3, NewTurnFacts DEF SendStart, wires
  <2>2. r \in CallRecs
    <3>1. sent' \in Turns \cup {None} /\ "sent" \in Reqs /\ call[h] \in CallRecs
      BY <1>1, <2>1 DEF Reqs
    <3> QED
      BY <3>1 DEF CallRecs
  <2>3. call' \in [Threads -> CallRecs] /\ call'[h] = r
        /\ \A g \in Threads : g # h => call'[g] = call[g]
    <3>1. call' = [call EXCEPT ![h] = r]
      BY <1>1, <1>3, <2>1
    <3> QED
      BY <1>1, <2>2, <3>1, SetCall
  <2>4. /\ call'[h].pc = call[h].pc /\ call'[h].victim = call[h].victim
        /\ call'[h].ret = call[h].ret /\ call'[h].conn = call[h].conn
        /\ call'[h].turn = sent' /\ call'[h].by = call[h].by /\ call'[h].req = "sent"
    BY <1>1, <2>3 DEF CallRecs
  <2> HIDE DEF r
  <2>5. TypeOK'
    BY <1>1, <2>1, <2>3 DEF SendStart, TypeOK, CallRecs, Rets, Reqs, TurnRecs, Sts, engine,
       wires, cards, halts
  <2>6. CardsFit'
    BY <2>1 DEF CodexInv, CardsFit, CardFit, SendStart, cards
  <2>7. OneServer'
    BY <2>3, <2>4 DEF CodexInv, OneServer, Live, SendStart, engine, wires, cards
  <2>8. QueueFit(h)' /\ EndFit(h)' /\ (call'[h].by # None => Open(h)')
    BY <2>1, <2>4, KeepFit DEF SendStart
  <2>9. ActiveFit(h)' /\ RestFit(h)' /\ RunFit(h)'
    BY <1>1, <2>1, <2>4, TypeFacts DEF ThreadFit, ActiveFit, RestFit, RunFit, Grows, SendStart,
       Listening, engine, halts
  <2>10. CallFit(h)'
    BY <1>1, <2>1, <2>4, <2>8 DEF CallFit, Open, Listening
  <2>11. ThreadFit(h)'
    BY <1>1, <2>4, <2>8, <2>9, <2>10 DEF ThreadFit, SpawnFit, VictimFit, SendStart, engine
  <2>12. ASSUME NEW g \in Threads PROVE ThreadFit(g)'
    <3>1. CASE g # h
      BY <2>1, <2>3, <3>1, OtherThread DEF CurMoves, SendStart, engine, halts
    <3> QED
      BY <2>11, <3>1
  <2> QED
    BY <2>1, <2>5, <2>6, <2>7, <2>12 DEF CodexInv
<1> QED
  BY <1>2, <1>3 DEF SendStart, NewTurn

LEMMA StartTimesOutInv ==
  ASSUME CodexInv, NEW h \in Threads, StartTimesOut(h)
  PROVE  CodexInv'
BY RequestFails DEF StartTimesOut

(* The queue of a thread holds on to items that fit.                        *)
QueueKept(h) ==
  /\ queue' \in Queues
  /\ \A g \in Threads : g # h => queue'[g] = queue[g]
  /\ \A i \in 1..Len(queue'[h]) : ItemFit(h, queue'[h][i])

LEMMA SameQueueKept ==
  ASSUME CodexInv, NEW h \in Threads, UNCHANGED queue
  PROVE  QueueKept(h)
BY TypeFacts DEF CodexInv, ThreadFit, QueueFit, QueueKept

(* The queue of a thread after its first item was taken.                    *)
LEMMA PopFacts ==
  ASSUME CodexInv, NEW h \in Threads, queue[h] # <<>>, Pop(h)
  PROVE  QueueKept(h) /\ Head1(h) \in ItemType /\ ItemFit(h, Head1(h))
<1>1. queue \in Queues /\ QueueFit(h)
  BY TypeFacts DEF CodexInv, ThreadFit
<1>2. queue[h] \in Seq(ItemType) /\ Len(queue[h]) <= Capacity + 1
  BY <1>1 DEF Queues
<1>3. Tail(queue[h]) \in Seq(ItemType) /\ Len(Tail(queue[h])) <= Capacity + 1
  BY <1>2, CodexAssumption DEF CodexAssumption
<1>4. queue' \in Queues /\ queue'[h] = Tail(queue[h])
      /\ \A g \in Threads : g # h => queue'[g] = queue[g]
  BY <1>1, <1>3, SetQueue DEF Pop
<1>5. \A i \in 1..Len(Tail(queue[h])) :
         i + 1 \in 1..Len(queue[h]) /\ Tail(queue[h])[i] = queue[h][i + 1]
  BY <1>2
<1>6. 1 \in 1..Len(queue[h]) /\ Head1(h) = queue[h][1] /\ Head1(h) \in ItemType
  BY <1>2 DEF Head1
<1> QED
  BY <1>1, <1>4, <1>5, <1>6 DEF QueueFit, QueueKept

(* What a step of a call that listens leaves of it, or learns of its end.   *)
EndedBy(h, k) ==
  k \in Turns /\ remote[k].thread = h /\ remote[k].conn = call[h].conn /\ remote[k].st = "over"

LoopRec(h, r) ==
  /\ r \in CallRecs
  /\ r.conn = call[h].conn /\ r.turn = call[h].turn /\ r.req = call[h].req
  /\ r.by = call[h].by \/ EndedBy(h, r.by)

ListensOn(h, r) ==
  /\ r.pc = "loop" /\ r.victim = call[h].victim
  /\ UNCHANGED <<cur, inited>>
  /\ active' \in [Threads -> Turns \cup {None}]
  /\ \A g \in Threads : g # h => active'[g] = active[g]
  /\ active'[h] # None => remote[active'[h]].st # "unsent"

Resets(h, r) == r.pc = "shut" /\ r.victim = cur /\ r.ret \in {"idle", "loop"} /\ Forget

LEMMA LoopStep ==
  ASSUME CodexInv, NEW h \in Threads, call[h].pc = "loop", NEW r, LoopRec(h, r),
         ListensOn(h, r) \/ Resets(h, r),
         call' = [call EXCEPT ![h] = r], QueueKept(h), faults' \in 0..MaxFaults,
         UNCHANGED <<lock, wires, agent, cards, halts>>
  PROVE  CodexInv'
<1>1. TypeOK /\ ThreadFit(h) /\ call \in [Threads -> CallRecs]
  BY TypeFacts DEF CodexInv
<1>2. call' \in [Threads -> CallRecs] /\ call'[h] = r
      /\ \A g \in Threads : g # h => call'[g] = call[g]
  BY <1>1, SetCall DEF LoopRec
<1>3. /\ active' \in [Threads -> Turns \cup {None}]
      /\ active'[h] # None => remote[active'[h]].st # "unsent"
      /\ \A g \in Threads : g # h => active'[g] = active[g] \/ active'[g] = None
      /\ cur' = cur \/ cur' = None
      /\ inited' \in BOOLEAN
  <2>1. CASE ListensOn(h, r)
    BY <1>1, <2>1 DEF ListensOn, TypeOK
  <2>2. CASE Resets(h, r)
    BY <2>2 DEF Resets, Forget
  <2> QED
    BY <2>1, <2>2
<1>4. TypeOK'
  BY <1>1, <1>2, <1>3 DEF QueueKept, TypeOK, CallRecs, Rets, Reqs, Runs, Queues, wires, agent,
     cards, halts
<1>5. Open(h)' /\ call'[h].pc # "spawn" /\ ~(call'[h].pc = "shut" /\ call'[h].ret = "spawn")
  BY <1>2 DEF ListensOn, Resets, Open
<1>6. VictimFit(h)' /\ SpawnFit(h)'
  BY <1>1, <1>2, <1>5 DEF ThreadFit, VictimFit, SpawnFit, ListensOn, Resets
<1>7. QueueFit(h)'
  BY <1>2, <1>5 DEF QueueKept, QueueFit, ItemFit, LoopRec, agent
<1>8. CallFit(h)' /\ EndFit(h)'
  BY <1>1, <1>2, <1>5 DEF ThreadFit, CallFit, EndFit, LoopRec, EndedBy, agent
<1>9. ActiveFit(h)' /\ RestFit(h)' /\ RunFit(h)'
  BY <1>1, <1>3 DEF ThreadFit, ActiveFit, RestFit, RunFit, agent, halts
<1>10. ThreadFit(h)'
  BY <1>6, <1>7, <1>8, <1>9 DEF ThreadFit
<1>11. CASE ListensOn(h, r)
  BY <1>2, <1>3, <1>4, <1>10, <1>11, QuietStep DEF ListensOn, QueueKept, wires, agent, cards,
     halts
<1>12. CASE Resets(h, r)
  <2>1. call[h].victim = None
    BY <1>1 DEF ThreadFit, VictimFit
  <2> QED
    BY <1>2, <1>4, <1>10, <1>12, <2>1, ForgetStep DEF Resets, QueueKept, wires, agent, cards,
       halts
<1> QED
  BY <1>11, <1>12

(* The fault that a step may be.                                            *)
LEMMA FaultCount ==
  ASSUME TypeOK, Fault \/ UNCHANGED faults
  PROVE  faults' \in 0..MaxFaults
BY CodexAssumption DEF CodexAssumption, Fault, TypeOK

LEMMA TakeResponseInv ==
  ASSUME CodexInv, NEW h \in Threads, TakeResponse(h)
  PROVE  CodexInv'
<1> DEFINE r == [call[h] EXCEPT !.reqDone = TRUE, !.expected = call[h].turn]
<1>1. /\ TypeOK /\ ThreadFit(h) /\ call \in [Threads -> CallRecs]
      /\ active \in [Threads -> Turns \cup {None}] /\ call[h].pc = "loop"
  BY TypeFacts DEF CodexInv, TakeResponse, Looping
<1>2. LoopRec(h, r) /\ r.pc = "loop" /\ r.victim = call[h].victim
  BY <1>1 DEF LoopRec, CallRecs
<1>3. call' = [call EXCEPT ![h] = r]
  BY <1>1 DEF TakeResponse
<1> HIDE DEF r
<1>4. active' = [active EXCEPT ![h] = call[h].turn] /\ call[h].turn \in Turns \cup {None}
  BY <1>1 DEF TakeResponse, CallRecs
<1>5. ListensOn(h, r)
  BY <1>1, <1>2, <1>4 DEF ThreadFit, CallFit, ListensOn, TakeResponse
<1>6. QueueKept(h) /\ faults' \in 0..MaxFaults
  BY <1>1, SameQueueKept, FaultCount DEF TakeResponse
<1> QED
  BY <1>1, <1>2, <1>3, <1>5, <1>6, LoopStep DEF TakeResponse

(* The end of a turn, however it is told.                                   *)
LEMMA CompleteStep ==
  ASSUME CodexInv, NEW h \in Threads, call[h].pc = "loop", NEW k \in Turns, NEW last \in BOOLEAN,
         Complete(h, k, last), EndedBy(h, k),
         QueueKept(h), UNCHANGED <<lock, wires, agent, cards, halts>>
  PROVE  CodexInv'
<1>1. /\ TypeOK /\ ThreadFit(h) /\ call \in [Threads -> CallRecs]
      /\ active \in [Threads -> Turns \cup {None}]
  BY TypeFacts DEF CodexInv
<1>2. faults' \in 0..MaxFaults
  BY <1>1, FaultCount DEF Complete
<1>3. call[h].reqDone \/ last \in BOOLEAN
  OBVIOUS
<1> DEFINE r == Completed(h, k, last)
<1>4. LoopRec(h, r) /\ r.pc = "loop" /\ r.victim = call[h].victim
  BY <1>1 DEF Completed, LoopRec, CallRecs
<1>5. CASE /\ active' = [active EXCEPT ![h] = None]
           /\ call' = [call EXCEPT ![h] = r]
           /\ UNCHANGED <<cur, inited, faults>>
  <2> HIDE DEF r
  <2>1. ListensOn(h, r)
    BY <1>1, <1>4, <1>5 DEF ListensOn
  <2> QED
    BY <1>2, <1>4, <1>5, <2>1, LoopStep
<1>6. CASE /\ Forget
           /\ call' = [call EXCEPT ![h] = [r EXCEPT !.pc = "shut", !.victim = cur,
                                                   !.ret = "loop"]]
  <2> DEFINE u == [r EXCEPT !.pc = "shut", !.victim = cur, !.ret = "loop"]
  <2> HIDE DEF r
  <2>1. "shut" \in Pcs /\ cur \in Conns \cup {None} /\ "loop" \in Rets
    BY <1>1 DEF Pcs, Rets, TypeOK
  <2>2. LoopRec(h, u) /\ u.pc = "shut" /\ u.victim = cur /\ u.ret = "loop"
    BY <1>4, <2>1 DEF LoopRec, CallRecs
  <2>3. call' = [call EXCEPT ![h] = u]
    BY <1>6
  <2> HIDE DEF u
  <2>4. Resets(h, u)
    BY <1>6, <2>2 DEF Resets
  <2> QED
    BY <1>2, <2>2, <2>3, <2>4, LoopStep
<1> QED
  BY <1>5, <1>6 DEF Complete

LEMMA TakeResultInv ==
  ASSUME CodexInv, NEW h \in Threads, TakeResult(h)
  PROVE  CodexInv'
<1> DEFINE k == call[h].turn
<1>1. ThreadFit(h) /\ call[h] \in CallRecs
  BY TypeFacts DEF CodexInv
<1>2. k \in Turns /\ EndedBy(h, k)
  BY <1>1 DEF ThreadFit, CallFit, TakeResult, EndedBy, CallRecs
<1>3. call[h].pc = "loop" /\ QueueKept(h)
  BY SameQueueKept DEF TakeResult, Looping
<1> QED
  BY <1>2, <1>3, CompleteStep DEF TakeResult

(* A call returns and interrupts nothing.                                   *)
LEMMA ReturnStep ==
  ASSUME CodexInv, NEW h \in Threads, NEW told \in BOOLEAN, Return(h, told),
         call[h].victim = None, call[h].pc # "idle",
         UNCHANGED <<cur, inited, lock, wires, agent, cards, stops, faults>>,
         active' \in [Threads -> Turns \cup {None}],
         active'[h] = active[h] \/ active'[h] = None,
         \A g \in Threads : g # h => active'[g] = active[g],
         settled' = settled \/ (settled' = settled \cup {h} /\ active'[h] = None)
  PROVE  CodexInv'
<1>1. TypeOK /\ ThreadFit(h)
  BY DEF CodexInv
<1>2. /\ call' \in [Threads -> CallRecs] /\ queue' \in Queues
      /\ run' \in [Threads -> Runs] /\ Returned(h)
  BY <1>1, ReturnFacts
<1>3. TypeOK'
  BY <1>1, <1>2 DEF TypeOK, CallRecs, Rets, Reqs, Runs, Queues, wires, agent, cards
<1>4. RestFit(h)'
  BY <1>1, <1>2, ReturnRest DEF ThreadFit
<1>5. ThreadFit(h)'
  BY <1>1, <1>2, <1>4, ReturnFit DEF ThreadFit, agent
<1> QED
  BY <1>2, <1>3, <1>5, QuietStep DEF Returned, wires, agent, cards

LEMMA ReadTurnsInv ==
  ASSUME CodexInv, NEW h \in Threads, ReadTurns(h)
  PROVE  CodexInv'
<1>1. /\ TypeOK /\ ThreadFit(h) /\ active \in [Threads -> Turns \cup {None}]
      /\ call[h].done \in BOOLEAN
  BY TypeFacts DEF CodexInv, CallRecs
<1>2. call[h].pc = "read" /\ call[h].victim = None
  BY <1>1 DEF ReadTurns, ThreadFit, VictimFit
<1>3. PICK found \in {TRUE, FALSE} :
        /\ active' = [active EXCEPT ![h] = IF found THEN None ELSE @]
        /\ Return(h, call[h].done \/ found)
  BY DEF ReadTurns
<1>4. /\ active' \in [Threads -> Turns \cup {None}]
      /\ active'[h] = active[h] \/ active'[h] = None
      /\ \A g \in Threads : g # h => active'[g] = active[g]
  BY <1>1, <1>3
<1>5. call[h].done \/ found \in BOOLEAN
  OBVIOUS
<1>6. (call[h].done \/ found) \in BOOLEAN
  OBVIOUS
<1> QED
  BY <1>2, <1>3, <1>4, <1>6, ReturnStep DEF ReadTurns

LEMMA FinishInv ==
  ASSUME CodexInv, NEW h \in Threads, Finish(h)
  PROVE  CodexInv'
<1>1. /\ TypeOK /\ ThreadFit(h) /\ active \in [Threads -> Turns \cup {None}]
      /\ call[h].done \in BOOLEAN
  BY TypeFacts DEF CodexInv, CallRecs
<1>2. call[h].pc # "idle" /\ call[h].victim = None
  BY <1>1 DEF Finish, ThreadFit, VictimFit
<1>3. /\ active' \in [Threads -> Turns \cup {None}] /\ active'[h] = None
      /\ \A g \in Threads : g # h => active'[g] = active[g]
  BY <1>1 DEF Finish
<1> QED
  BY <1>1, <1>2, <1>3, ReturnStep DEF Finish

(* A call that listens takes the transport out of the state.                *)
LEMMA InvalidateStep ==
  ASSUME CodexInv, NEW h \in Threads, call[h].pc = "loop", NEW ret \in {"idle", "loop"},
         Invalidate(h, ret), QueueKept(h), Fault \/ UNCHANGED faults,
         UNCHANGED <<lock, wires, agent, cards, halts>>
  PROVE  CodexInv'
<1> DEFINE r == [call[h] EXCEPT !.pc = "shut", !.victim = cur, !.ret = ret]
<1>1. TypeOK /\ call \in [Threads -> CallRecs]
  BY TypeFacts DEF CodexInv
<1>2. cur \in Conns \cup {None} /\ ret \in Rets /\ "shut" \in Pcs
  BY <1>1 DEF TypeOK, Rets, Pcs
<1>3. LoopRec(h, r) /\ r.pc = "shut" /\ r.victim = cur /\ r.ret = ret
  BY <1>1, <1>2 DEF LoopRec, CallRecs
<1>4. call' = [call EXCEPT ![h] = r]
  BY <1>1 DEF Invalidate
<1> HIDE DEF r
<1>5. Resets(h, r)
  BY <1>3 DEF Resets, Invalidate
<1>6. faults' \in 0..MaxFaults
  BY <1>1, FaultCount
<1> QED
  BY <1>3, <1>4, <1>5, <1>6, LoopStep

LEMMA StartRefusedInv ==
  ASSUME CodexInv, NEW h \in Threads, StartRefused(h)
  PROVE  CodexInv'
<1>1. /\ TypeOK /\ ThreadFit(h) /\ active \in [Threads -> Turns \cup {None}]
      /\ call[h].done \in BOOLEAN
  BY TypeFacts DEF CodexInv, CallRecs
<1>2. call[h].pc = "loop" /\ call[h].victim = None
  BY <1>1 DEF StartRefused, Looping, ThreadFit, VictimFit
<1>3. CASE Return(h, call[h].done) /\ UNCHANGED <<engine, faults>>
  BY <1>1, <1>2, <1>3, ReturnStep DEF StartRefused, engine
<1>4. CASE Fault /\ Invalidate(h, "idle") /\ UNCHANGED <<queue, run>>
  BY <1>2, <1>4, SameQueueKept, InvalidateStep DEF StartRefused, halts
<1> QED
  BY <1>3, <1>4 DEF StartRefused

LEMMA RecvStartedInv ==
  ASSUME CodexInv, NEW h \in Threads, RecvStarted(h)
  PROVE  CodexInv'
<1> DEFINE k == Head1(h).turn
           r == [call[h] EXCEPT !.expected = k]
<1>1. /\ TypeOK /\ ThreadFit(h) /\ call \in [Threads -> CallRecs]
      /\ active \in [Threads -> Turns \cup {None}]
  BY TypeFacts DEF CodexInv
<1>2. /\ call[h].pc = "loop" /\ queue[h] # <<>> /\ Head1(h).kind = "started"
      /\ Pop(h)
  BY DEF RecvStarted, Receives, Looping
<1>3. QueueKept(h) /\ ItemFit(h, Head1(h))
  BY <1>2, PopFacts
<1>4. k \in Turns /\ remote[k].st # "unsent"
  BY <1>2, <1>3 DEF ItemFit
<1>5. active' = [active EXCEPT ![h] = k] /\ call' = [call EXCEPT ![h] = r]
  BY <1>1 DEF RecvStarted
<1> HIDE DEF k
<1>6. LoopRec(h, r) /\ r.pc = "loop" /\ r.victim = call[h].victim
  BY <1>1, <1>2, <1>4 DEF LoopRec, CallRecs
<1> HIDE DEF r
<1>7. ListensOn(h, r)
  BY <1>1, <1>4, <1>5, <1>6 DEF ListensOn, RecvStarted
<1>8. faults' \in 0..MaxFaults
  BY <1>1, FaultCount DEF RecvStarted
<1> QED
  BY <1>2, <1>3, <1>5, <1>6, <1>7, <1>8, LoopStep DEF RecvStarted

LEMMA RecvCompletedInv ==
  ASSUME CodexInv, NEW h \in Threads, RecvCompleted(h)
  PROVE  CodexInv'
<1> DEFINE k == Head1(h).turn
<1>1. /\ call[h].pc = "loop" /\ queue[h] # <<>> /\ Head1(h).kind = "completed"
      /\ Pop(h)
  BY DEF RecvCompleted, Receives, Looping
<1>2. QueueKept(h) /\ ItemFit(h, Head1(h))
  BY <1>1, PopFacts
<1>3. EndedBy(h, k) /\ k \in Turns
  BY <1>1, <1>2 DEF ItemFit, EndedBy
<1>4. k # None
  BY <1>3 DEF Turns, None
<1> QED
  BY <1>1, <1>2, <1>3, <1>4, CompleteStep DEF RecvCompleted

LEMMA RecvAuthInv ==
  ASSUME CodexInv, NEW h \in Threads, RecvAuth(h)
  PROVE  CodexInv'
<1>1. /\ TypeOK /\ ThreadFit(h) /\ call \in [Threads -> CallRecs]
      /\ active \in [Threads -> Turns \cup {None}]
  BY TypeFacts DEF CodexInv
<1>2. call[h].pc = "loop" /\ queue[h] # <<>> /\ Pop(h)
  BY DEF RecvAuth, Receives, Looping
<1>3. QueueKept(h) /\ faults' \in 0..MaxFaults
  BY <1>1, <1>2, PopFacts, FaultCount DEF RecvAuth
<1>4. CASE Belongs(h)
  BY <1>2, <1>3, <1>4, InvalidateStep DEF RecvAuth
<1>5. CASE ~Belongs(h)
  <2>1. UNCHANGED <<engine, call>>
    BY <1>5 DEF RecvAuth
  <2>2. LoopRec(h, call[h]) /\ call' = [call EXCEPT ![h] = call[h]]
    BY <1>1, <2>1 DEF LoopRec
  <2>3. ListensOn(h, call[h])
    BY <1>1, <1>2, <2>1 DEF ListensOn, ThreadFit, ActiveFit, engine
  <2> QED
    BY <1>2, <1>3, <2>2, <2>3, LoopStep DEF RecvAuth
<1> QED
  BY <1>4, <1>5

LEMMA RecvAskInv ==
  ASSUME CodexInv, NEW h \in Threads, RecvAsk(h)
  PROVE  CodexInv'
<1> DEFINE a == [turn |-> Head1(h).turn, conn |-> call[h].conn]
<1>1. TypeOK /\ ThreadFit(h) /\ call \in [Threads -> CallRecs]
  BY TypeFacts DEF CodexInv
<1>2. /\ call[h].pc = "loop" /\ queue[h] # <<>> /\ Head1(h).kind = "ask"
      /\ Pop(h)
  BY DEF RecvAsk, Receives, Looping
<1>3. QueueKept(h) /\ ItemFit(h, Head1(h))
  BY <1>2, PopFacts
<1>4. CardFit(a.turn, a.conn) /\ call[h].conn \in Conns \cup {None}
  BY <1>1, <1>2, <1>3 DEF ItemFit, CardFit, CallRecs
<1>5. /\ asks' \subseteq asks \cup {a}
      /\ UNCHANGED <<cur, inited, active, lock, conn, ready, dropped, call, run, settled, stops,
                     remote, sent, answer, answered, faults>>
  BY DEF RecvAsk, engine, wires, agent, halts
<1>6. TypeOK'
  <2>1. a \in [turn : Turns \cup {None}, conn : Conns \cup {None}]
    BY <1>4 DEF CardFit
  <2> HIDE DEF a
  <2>2. asks' \subseteq [turn : Turns \cup {None}, conn : Conns \cup {None}]
    BY <1>1, <1>5, <2>1 DEF TypeOK
  <2> QED
    BY <1>1, <1>3, <1>5, <2>2 DEF TypeOK, QueueKept, Queues
<1>7. CardsFit'
  <2> HIDE DEF a
  <2> QED
    BY <1>4, <1>5 DEF CodexInv, CardsFit, CardFit
<1>8. OneServer' /\ TurnsFit'
  BY <1>5 DEF CodexInv, OneServer, TurnsFit, Live
<1>9. ThreadFit(h)'
  BY <1>1, <1>2, <1>3, <1>5 DEF QueueKept, ThreadFit, SpawnFit, VictimFit, QueueFit, ItemFit,
     CallFit, ActiveFit, EndFit, RestFit, RunFit, Open
<1>10. ASSUME NEW g \in Threads PROVE ThreadFit(g)'
  <2>1. CASE g # h
    BY <1>3, <1>5, <2>1, OtherThread, SameTurns DEF QueueKept, CurMoves
  <2> QED
    BY <1>9, <2>1
<1> QED
  BY <1>6, <1>7, <1>8, <1>10 DEF CodexInv

LEMMA RecvBreakInv ==
  ASSUME CodexInv, NEW h \in Threads, RecvBreak(h)
  PROVE  CodexInv'
<1> DEFINE d == call[h].done
           r == [NoCall EXCEPT !.pc = "shut", !.victim = cur, !.why = "reconcile",
                              !.ret = AfterBreak(h), !.done = d]
<1>1. /\ TypeOK /\ ThreadFit(h) /\ call \in [Threads -> CallRecs] /\ queue \in Queues
  BY TypeFacts DEF CodexInv
<1>2. call[h].pc = "loop" /\ call[h].victim = None
  BY <1>1 DEF RecvBreak, Receives, Looping, ThreadFit, VictimFit
<1>3. d \in BOOLEAN /\ cur \in Conns \cup {None} /\ AfterBreak(h) \in {"look", "idle"}
  BY <1>1 DEF TypeOK, AfterBreak, CallRecs
<1>4. call' = [call EXCEPT ![h] = r]
  BY DEF RecvBreak
<1> HIDE DEF d
<1>5. r \in CallRecs
  BY <1>3 DEF NoCall, CallRecs, Pcs, Reqs, Rets, None
<1>6. /\ r.pc = "shut" /\ r.victim = cur /\ r.ret \in {"look", "idle"}
      /\ r.turn = None /\ r.by = None /\ r.req = "none"
  BY <1>3 DEF NoCall
<1> HIDE DEF r
<1>7. call' \in [Threads -> CallRecs] /\ call'[h] = r
      /\ \A g \in Threads : g # h => call'[g] = call[g]
  BY <1>1, <1>4, <1>5, SetCall
<1>8. queue' \in Queues /\ queue'[h] = <<>>
      /\ \A g \in Threads : g # h => queue'[g] = queue[g]
  BY <1>1, EmptyQueue DEF RecvBreak
<1>9. TypeOK'
  BY <1>1, <1>7, <1>8 DEF Forget, RecvBreak, TypeOK, CallRecs, Rets, Reqs, Queues, wires, agent,
     cards, halts
<1>10. ThreadFit(h)'
  <2>1. /\ call'[h].pc = "shut" /\ call'[h].ret \in {"look", "idle"} /\ call'[h].req = "none"
        /\ call'[h].turn = None /\ call'[h].by = None
    BY <1>6, <1>7
  <2>2. SpawnFit(h)' /\ VictimFit(h)' /\ CallFit(h)' /\ EndFit(h)'
    BY <2>1 DEF SpawnFit, VictimFit, CallFit, EndFit
  <2>3. QueueFit(h)'
    BY <1>8, <2>1 DEF QueueFit
  <2>4. active' = [g \in Threads |-> None] /\ UNCHANGED <<run, settled>>
    BY DEF RecvBreak, Forget, halts
  <2>5. ActiveFit(h)'
    BY <2>4 DEF ActiveFit
  <2>6. RestFit(h)' /\ RunFit(h)'
    BY <1>1, <1>2, <2>4 DEF ThreadFit, RestFit, RunFit
  <2> QED
    BY <2>2, <2>3, <2>5, <2>6 DEF ThreadFit
<1> QED
  BY <1>2, <1>6, <1>7, <1>8, <1>9, <1>10, ForgetStep DEF RecvBreak, wires, agent, cards, halts

---------------------------------------------------------------------------
(* Turns that change their state, and the end of run_turn.                  *)

(* No turn is requested, and none changes its thread or connection.         *)
TurnsKept ==
  \A k \in Turns :
    /\ remote'[k].st = "unsent" <=> remote[k].st = "unsent"
    /\ remote'[k].thread = remote[k].thread
    /\ remote'[k].conn = remote[k].conn
    /\ remote[k].asked => remote'[k].asked
    /\ remote'[k].asked => remote[k].asked \/ remote[k].st # "unsent"
    /\ remote[k].st = "over" => remote'[k].st = "over"

LEMMA KeptGrows == TurnsKept => Grows
BY DEF TurnsKept, Grows

LEMMA SetSt ==
  ASSUME remote \in [Turns -> TurnRecs], NEW k \in Turns, NEW st \in Sts \ {"unsent"},
         remote[k].st # "unsent", remote[k].st = "over" => st = "over",
         remote' = [remote EXCEPT ![k].st = st]
  PROVE  remote' \in [Turns -> TurnRecs] /\ TurnsKept /\ remote'[k].st = st
<1>1. [remote[k] EXCEPT !.st = st] \in TurnRecs
  BY DEF TurnRecs
<1>2. /\ remote'[k] = [remote[k] EXCEPT !.st = st]
      /\ \A j \in Turns : j # k => remote'[j] = remote[j]
  OBVIOUS
<1>3. remote' \in [Turns -> TurnRecs]
  BY <1>1
<1>4. /\ remote'[k].st = st /\ remote'[k].thread = remote[k].thread
      /\ remote'[k].conn = remote[k].conn /\ remote'[k].asked = remote[k].asked
  BY <1>2 DEF TurnRecs
<1>5. TurnsKept
  BY <1>2, <1>4 DEF TurnsKept
<1> QED
  BY <1>3, <1>4, <1>5

LEMMA InterruptFacts ==
  ASSUME CodexInv, NEW h \in Threads, Interrupt(h)
  PROVE  /\ TurnsKept
         /\ remote' \in [Turns -> TurnRecs]
         /\ active' \in [Threads -> Turns \cup {None}]
         /\ active'[h] = active[h] \/ active'[h] = None
         /\ \A g \in Threads : g # h => active'[g] = active[g]
         /\ faults' \in 0..MaxFaults
         /\ \/ settled' = settled
            \/ /\ settled' = settled \cup {h} /\ call[h].pc = "idle"
               /\ active'[h] = None \/ cur = None
<1>1. /\ TypeOK /\ ThreadFit(h) /\ remote \in [Turns -> TurnRecs]
      /\ active \in [Threads -> Turns \cup {None}]
  BY TypeFacts DEF CodexInv
<1>2. CASE InterruptSkips(h) /\ Settles(h)
  <2>1. UNCHANGED <<active, remote, faults>> /\ (active[h] = None \/ cur = None)
    BY <1>2 DEF InterruptSkips
  <2>2. settled' = settled \/ (settled' = settled \cup {h} /\ call[h].pc = "idle")
    BY <1>2 DEF Settles
  <2> QED
    BY <1>1, <2>1, <2>2 DEF TurnsKept, TypeOK
<1>3. CASE InterruptOk(h) /\ Settles(h)
  <2> DEFINE k  == active[h]
             st == IF remote[k].st = "running" THEN "stopping" ELSE remote[k].st
  <2>1. k \in Turns /\ remote[k].st # "unsent"
    BY <1>1, <1>3 DEF InterruptOk, ThreadFit, ActiveFit
  <2>2. st \in Sts \ {"unsent"} /\ (remote[k].st = "over" => st = "over")
    BY <1>1, <2>1 DEF TurnRecs, Sts
  <2>3. remote' = [remote EXCEPT ![k].st = st]
    BY <1>1, <1>3, <2>1 DEF InterruptOk
  <2>4. remote' \in [Turns -> TurnRecs] /\ TurnsKept
    <3> HIDE DEF k, st
    <3> QED
      BY <1>1, <2>1, <2>2, <2>3, SetSt
  <2>5. settled' = settled \/ (settled' = settled \cup {h} /\ call[h].pc = "idle")
    BY <1>3 DEF Settles
  <2> QED
    BY <1>1, <1>3, <2>4, <2>5 DEF InterruptOk, TypeOK
<1>4. CASE InterruptFails(h) /\ UNCHANGED settled
  <2>1. faults' \in 0..MaxFaults
    BY <1>1, <1>4, FaultCount DEF InterruptFails
  <2> QED
    BY <1>1, <1>4, <2>1 DEF InterruptFails, TurnsKept, TypeOK
<1> QED
  BY <1>2, <1>3, <1>4 DEF Interrupt

(* run_turn leaves off: its call goes on, and keeps or forgets a told end.  *)
LEMMA LeaveOffFacts ==
  ASSUME TypeOK, NEW h \in Threads, LeaveOff(h)
  PROVE  /\ call' \in [Threads -> CallRecs] /\ run' \in [Threads -> Runs]
         /\ call'[h].pc = call[h].pc /\ call'[h].ret = call[h].ret
         /\ call'[h].conn = call[h].conn /\ call'[h].by = call[h].by
         /\ call'[h].turn = call[h].turn /\ call'[h].req = call[h].req
         /\ call'[h].victim = call[h].victim
         /\ run'[h] = IF call[h].pc = "idle" THEN "rest" ELSE "grace"
         /\ \A g \in Threads : g # h => call'[g] = call[g] /\ run'[g] = run[g]
<1> DEFINE d == call[h].done /\ call[h].pc # "idle"
           r == [call[h] EXCEPT !.done = d]
           w == IF call[h].pc = "idle" THEN "rest" ELSE "grace"
<1>1. call \in [Threads -> CallRecs] /\ run \in [Threads -> Runs]
  BY TypeFacts
<1>2. d \in BOOLEAN /\ w \in Runs
  BY DEF Runs
<1>3. run' = [run EXCEPT ![h] = w] /\ call' = [call EXCEPT ![h] = r]
  BY <1>1 DEF LeaveOff
<1> HIDE DEF d
<1>4. /\ r \in CallRecs /\ r.pc = call[h].pc /\ r.ret = call[h].ret /\ r.conn = call[h].conn
      /\ r.by = call[h].by /\ r.turn = call[h].turn /\ r.req = call[h].req
      /\ r.victim = call[h].victim
  BY <1>1, <1>2 DEF CallRecs
<1> HIDE DEF r
<1>5. call' \in [Threads -> CallRecs] /\ call'[h] = r
      /\ \A g \in Threads : g # h => call'[g] = call[g]
  BY <1>1, <1>3, <1>4, SetCall
<1>6. run' \in [Threads -> Runs] /\ run'[h] = w
      /\ \A g \in Threads : g # h => run'[g] = run[g]
  BY <1>1, <1>2, <1>3
<1> QED
  BY <1>4, <1>5, <1>6

(* A thread whose turn is left, with the rest it came to.                   *)
LEMMA LeaveOffFit ==
  ASSUME CodexInv, NEW h \in Threads, LeaveOff(h), TurnsKept, UNCHANGED <<cur, lock, queue>>,
         active'[h] = active[h] \/ active'[h] = None,
         \/ settled' = settled
         \/ /\ settled' = settled \cup {h} /\ call[h].pc = "idle"
            /\ active'[h] = None \/ cur = None
  PROVE  ThreadFit(h)'
<1>1. /\ TypeOK /\ ThreadFit(h) /\ active \in [Threads -> Turns \cup {None}]
      /\ call \in [Threads -> CallRecs]
  BY TypeFacts DEF CodexInv
<1>2. /\ call'[h].pc = call[h].pc /\ call'[h].ret = call[h].ret
      /\ call'[h].conn = call[h].conn /\ call'[h].by = call[h].by
      /\ call'[h].turn = call[h].turn /\ call'[h].req = call[h].req
      /\ call'[h].victim = call[h].victim
      /\ run'[h] = IF call[h].pc = "idle" THEN "rest" ELSE "grace"
  BY <1>1, LeaveOffFacts
<1>3. QueueFit(h)' /\ EndFit(h)' /\ (call'[h].by # None => Open(h)')
  BY <1>2, KeptGrows, KeepFit
<1>4. SpawnFit(h)' /\ VictimFit(h)' /\ RunFit(h)'
  BY <1>1, <1>2 DEF ThreadFit, SpawnFit, VictimFit, RunFit
<1>5. CallFit(h)'
  BY <1>1, <1>2, <1>3 DEF ThreadFit, CallFit, Open, TurnsKept, CallRecs
<1>6. ActiveFit(h)'
  BY <1>1 DEF ThreadFit, ActiveFit, TurnsKept
<1>7. RestFit(h)'
  <2>1. active[h] # None => active[h] \in Turns /\ remote[active[h]].conn \in Conns
    BY <1>1 DEF CodexInv, ThreadFit, ActiveFit, TurnsFit
  <2> QED
    BY <1>1, <1>2, <2>1 DEF ThreadFit, RestFit, TurnsKept, Conns, None
<1> QED
  BY <1>3, <1>4, <1>5, <1>6, <1>7 DEF ThreadFit

LEMMA StopInv ==
  ASSUME CodexInv, NEW h \in Threads, Stop(h)
  PROVE  CodexInv'
<1>1. /\ TypeOK /\ LeaveOff(h) /\ Interrupt(h)
      /\ UNCHANGED <<cur, inited, lock, wires, queue, sent, cards>>
  BY DEF CodexInv, Stop
<1>2. /\ TurnsKept /\ remote' \in [Turns -> TurnRecs]
      /\ active' \in [Threads -> Turns \cup {None}]
      /\ active'[h] = active[h] \/ active'[h] = None
      /\ \A g \in Threads : g # h => active'[g] = active[g]
      /\ faults' \in 0..MaxFaults
      /\ \/ settled' = settled
         \/ /\ settled' = settled \cup {h} /\ call[h].pc = "idle"
            /\ active'[h] = None \/ cur = None
  BY <1>1, InterruptFacts
<1>3. /\ call' \in [Threads -> CallRecs] /\ run' \in [Threads -> Runs]
      /\ call'[h].victim = call[h].victim
      /\ \A g \in Threads : g # h => call'[g] = call[g] /\ run'[g] = run[g]
  BY <1>1, LeaveOffFacts
<1>4. stops' \in 0..MaxStops
  BY <1>1, CodexAssumption DEF CodexAssumption, Stop, TypeOK
<1>5. settled' \subseteq Threads /\ \A g \in Threads : g # h /\ g \in settled' => g \in settled
  BY <1>1, <1>2 DEF TypeOK
<1>6. TypeOK'
  BY <1>1, <1>2, <1>3, <1>4, <1>5 DEF TypeOK, CallRecs, Rets, Reqs, Runs, TurnRecs, Sts, wires,
     cards
<1>7. ThreadFit(h)'
  BY <1>1, <1>2, LeaveOffFit
<1>8. OneServer'
  <2>1. \A g \in Threads : call'[g].victim = call[g].victim
    BY <1>3
  <2> QED
    BY <1>1, <2>1 DEF CodexInv, OneServer, Live, wires, cards
<1>9. TurnsFit' /\ CardsFit'
  BY <1>1, <1>2 DEF CodexInv, TurnsFit, CardsFit, CardFit, TurnsKept, wires, cards
<1>10. ASSUME NEW g \in Threads PROVE ThreadFit(g)'
  <2>1. CASE g # h
    BY <1>1, <1>2, <1>3, <1>5, <2>1, KeptGrows, OtherThread DEF CurMoves
  <2> QED
    BY <1>7, <2>1
<1> QED
  BY <1>6, <1>8, <1>9, <1>10 DEF CodexInv

LEMMA DeliveredInv ==
  ASSUME CodexInv, NEW h \in Threads, Delivered(h)
  PROVE  CodexInv'
<1>1. /\ TypeOK /\ LeaveOff(h)
      /\ UNCHANGED <<cur, inited, active, lock, wires, queue, agent, cards, faults, settled,
                     stops>>
  BY DEF CodexInv, Delivered, engine
<1>2. TurnsKept
  BY <1>1 DEF TurnsKept, agent
<1>3. /\ call' \in [Threads -> CallRecs] /\ run' \in [Threads -> Runs]
      /\ call'[h].victim = call[h].victim
      /\ \A g \in Threads : g # h => call'[g] = call[g] /\ run'[g] = run[g]
  BY <1>1, LeaveOffFacts
<1>4. TypeOK'
  BY <1>1, <1>3 DEF TypeOK, CallRecs, Rets, Reqs, Runs, wires, agent, cards
<1>5. ThreadFit(h)'
  BY <1>1, <1>2, LeaveOffFit
<1> QED
  BY <1>1, <1>3, <1>4, <1>5, QuietStep DEF wires, agent, cards

(* An aborted call leaves its request and the connection it took out.       *)
LEMMA AbortInv ==
  ASSUME CodexInv, NEW h \in Threads, Abort(h)
  PROVE  CodexInv'
<1>1. /\ TypeOK /\ ThreadFit(h) /\ call \in [Threads -> CallRecs] /\ queue \in Queues
      /\ run \in [Threads -> Runs] /\ remote \in [Turns -> TurnRecs]
      /\ active \in [Threads -> Turns \cup {None}]
      /\ UNCHANGED <<cur, inited, active, conn, ready, cards, faults, settled, stops>>
  BY TypeFacts DEF CodexInv, Abort, engine
<1>2. /\ remote' \in [Turns -> TurnRecs] /\ sent' \in 0..MaxTurns /\ Grows /\ TurnsFit'
      /\ \A t, c : CardFit(t, c) => CardFit(t, c)'
  <2>1. CASE NewTurn(h)
    BY <1>1, <2>1, NewTurnFacts
  <2>2. CASE UNCHANGED agent
    BY <1>1, <2>2, SameTurns DEF CodexInv, TypeOK, TurnsFit, CardFit, agent
  <2> QED
    BY <2>1, <2>2 DEF Abort, SendLoose, NewTurn
<1>3. NoCall \in CallRecs /\ NoCall.pc = "idle" /\ NoCall.victim = None /\ NoCall.turn = None
      /\ NoCall.by = None /\ NoCall.req = "none"
  BY DEF NoCall, CallRecs, Pcs, Rets, Reqs, None
<1>4. call' \in [Threads -> CallRecs] /\ call'[h] = NoCall
      /\ \A g \in Threads : g # h => call'[g] = call[g]
  BY <1>1, <1>3, SetCall DEF Abort
<1>5. queue' \in Queues /\ queue'[h] = <<>>
      /\ \A g \in Threads : g # h => queue'[g] = queue[g]
  BY <1>1, EmptyQueue DEF Abort
<1>6. run' \in [Threads -> Runs] /\ \A g \in Threads : g # h => run'[g] = run[g]
  BY <1>1 DEF Abort, Runs
<1>7. /\ dropped' = dropped \cup ({call[h].victim} \ {None})
      /\ dropped' \subseteq Conns
      /\ lock' \in Threads \cup {Free} /\ \A g \in Threads : g # h /\ lock = g => lock' = g
  BY <1>1 DEF Abort, TakenOut, TypeOK, CallRecs
<1>8. TypeOK'
  BY <1>1, <1>2, <1>4, <1>5, <1>6, <1>7 DEF TypeOK, CallRecs, Rets, Reqs, Runs, Queues, TurnRecs,
     Sts, cards
<1>9. OneServer'
  <2> SUFFICES ASSUME NEW c \in Conns, Live(c)', c # cur'
               PROVE  answer'.victim = c \/ c \in dropped' \/ \E g \in Threads : call'[g].victim = c
    BY DEF OneServer
  <2>1. Live(c) /\ c # cur
    BY <1>1 DEF Live
  <2>2. \/ answer.victim = c \/ c \in dropped \/ call[h].victim = c
        \/ \E g \in Threads : g # h /\ call[g].victim = c
    BY <2>1 DEF CodexInv, OneServer
  <2>3. c # None
    BY DEF Conns, None
  <2> QED
    BY <1>1, <1>4, <1>7, <2>2, <2>3 DEF cards
<1>10. CardsFit'
  BY <1>1, <1>2 DEF CodexInv, CardsFit, cards
<1>11. ThreadFit(h)'
  <2>1. SpawnFit(h)' /\ VictimFit(h)' /\ QueueFit(h)' /\ CallFit(h)' /\ EndFit(h)' /\ RunFit(h)'
    BY <1>3, <1>4, <1>5 DEF SpawnFit, VictimFit, QueueFit, CallFit, EndFit, RunFit
  <2>2. ActiveFit(h)' /\ RestFit(h)'
    BY <1>1, <1>2, <1>3, <1>4 DEF ThreadFit, ActiveFit, RestFit, Grows
  <2> QED
    BY <2>1, <2>2 DEF ThreadFit
<1>12. ASSUME NEW g \in Threads PROVE ThreadFit(g)'
  <2>1. CASE g # h
    BY <1>1, <1>2, <1>4, <1>5, <1>6, <1>7, <2>1, OtherThread DEF CurMoves
  <2> QED
    BY <1>11, <2>1
<1> QED
  BY <1>2, <1>8, <1>9, <1>10, <1>12 DEF CodexInv

---------------------------------------------------------------------------
(* The app-server and the reader.                                           *)

(* What a step of the app-server leaves of a call.                          *)
SameCall(h) ==
  /\ call'[h].pc = call[h].pc /\ call'[h].ret = call[h].ret
  /\ call'[h].victim = call[h].victim /\ call'[h].conn = call[h].conn
  /\ call'[h].by = call[h].by /\ call'[h].turn = call[h].turn
  /\ call'[h].req = "ended" =>
       \/ call[h].req = "ended"
       \/ call[h].turn # None /\ remote[call[h].turn].st = "over"

LEMMA ServerStep ==
  ASSUME CodexInv, TypeOK', TurnsKept,
         UNCHANGED <<cur, active, lock, run, settled, dropped, sent, asks, answer, answered>>,
         \A d \in Conns : /\ conn'[d] = "live" => conn[d] = "live"
                          /\ conn[d] # "unborn" => conn'[d] # "unborn",
         \A h \in Threads : SameCall(h) /\ QueueFit(h)'
  PROVE  CodexInv'
<1>1. OneServer'
  <2>1. \A d \in Conns : Live(d)' => Live(d)
    BY DEF Live
  <2> QED
    BY <2>1 DEF CodexInv, OneServer, SameCall
<1>2. TurnsFit' /\ CardsFit'
  BY DEF CodexInv, TurnsFit, CardsFit, CardFit, TurnsKept
<1>3. ASSUME NEW h \in Threads PROVE ThreadFit(h)'
  <2>1. /\ ThreadFit(h) /\ SameCall(h) /\ QueueFit(h)'
        /\ active[h] \in Turns \cup {None} /\ call[h] \in CallRecs
    BY TypeFacts DEF CodexInv
  <2>2. SpawnFit(h)' /\ VictimFit(h)'
    BY <2>1 DEF ThreadFit, SpawnFit, VictimFit, SameCall
  <2>3. CallFit(h)' /\ EndFit(h)'
    BY <2>1 DEF ThreadFit, CallFit, EndFit, Open, SameCall, TurnsKept, CallRecs
  <2>4. ActiveFit(h)' /\ RestFit(h)' /\ RunFit(h)'
    BY <2>1 DEF ThreadFit, ActiveFit, RestFit, RunFit, SameCall, TurnsKept
  <2> QED
    BY <2>1, <2>2, <2>3, <2>4 DEF ThreadFit
<1> QED
  BY <1>1, <1>2, <1>3 DEF CodexInv

(* Offering an item to a queue keeps what is there, and its bound.          *)
LEMMA OfferFacts ==
  ASSUME NEW q \in Seq(ItemType), Len(q) <= Capacity + 1, NEW item \in ItemType,
         NEW wanted \in BOOLEAN
  PROVE  /\ Offer(q, item, wanted) \in Seq(ItemType)
         /\ Len(Offer(q, item, wanted)) <= Capacity + 1
         /\ \A i \in 1..Len(Offer(q, item, wanted)) :
              \/ i \in 1..Len(q) /\ Offer(q, item, wanted)[i] = q[i]
              \/ Offer(q, item, wanted)[i] = Lagged
              \/ wanted /\ Offer(q, item, wanted)[i] = item
<1>1. Lagged \in ItemType
  BY DEF Lagged, ItemType
<1>2. \/ Offer(q, item, wanted) = q
      \/ Len(q) <= Capacity /\ Offer(q, item, wanted) = Append(q, Lagged)
      \/ Len(q) <= Capacity /\ wanted /\ Offer(q, item, wanted) = Append(q, item)
  BY CodexAssumption DEF Offer, CodexAssumption
<1>3. ASSUME NEW m \in ItemType, Len(q) <= Capacity
      PROVE  /\ Append(q, m) \in Seq(ItemType) /\ Len(Append(q, m)) <= Capacity + 1
             /\ \A i \in 1..Len(Append(q, m)) :
                  (i \in 1..Len(q) /\ Append(q, m)[i] = q[i]) \/ Append(q, m)[i] = m
  BY <1>3, CodexAssumption DEF CodexAssumption
<1>4. q \in Seq(ItemType) /\ \A i \in 1..Len(q) : i \in 1..Len(q) /\ q[i] = q[i]
  OBVIOUS
<1> HIDE DEF Offer
<1> QED
  BY <1>1, <1>2, <1>3, <1>4

(* Publishing reaches the calls that listen, with what is true of them.     *)
LEMMA PublishFits ==
  ASSUME CodexInv, NEW c, NEW item \in ItemType, NEW to, Publish(c, item, to), TurnsKept,
         UNCHANGED call,
         \A h \in Threads : h \in to /\ Subscribed(h, c) => ItemFit(h, item)'
  PROVE  /\ queue' \in Queues
         /\ \A h \in Threads : QueueFit(h)'
<1>1. queue \in Queues
  BY TypeFacts DEF CodexInv
<1>2. ASSUME NEW h \in Threads
      PROVE  queue'[h] \in Seq(ItemType) /\ Len(queue'[h]) <= Capacity + 1 /\ QueueFit(h)'
  <2>1. QueueFit(h) /\ queue[h] \in Seq(ItemType) /\ Len(queue[h]) <= Capacity + 1
    BY <1>1 DEF CodexInv, ThreadFit, Queues
  <2>2. \A m : ItemFit(h, m) => ItemFit(h, m)'
    BY DEF ItemFit, TurnsKept
  <2>3. CASE Subscribed(h, c)
    <3> DEFINE w == h \in to
               q == Offer(queue[h], item, w)
    <3>1. queue'[h] = q /\ w \in BOOLEAN
      BY <2>3 DEF Publish
    <3>2. /\ q \in Seq(ItemType) /\ Len(q) <= Capacity + 1
          /\ \A i \in 1..Len(q) : \/ i \in 1..Len(queue[h]) /\ q[i] = queue[h][i]
                                  \/ q[i] = Lagged
                                  \/ w /\ q[i] = item
      BY <2>1, <3>1, OfferFacts
    <3>3. w => ItemFit(h, item)'
      BY <2>3
    <3>4. \A m : m = Lagged => ItemFit(h, m)'
      BY DEF ItemFit, Lagged
    <3> HIDE DEF q, w
    <3>5. ASSUME NEW i \in 1..Len(queue'[h])
          PROVE  \E m : queue'[h][i] = m /\ ItemFit(h, m)'
      <4>1. i \in 1..Len(q) /\ queue'[h][i] = q[i]
        BY <3>1, <3>5
      <4>2. CASE i \in 1..Len(queue[h]) /\ q[i] = queue[h][i]
        BY <2>1, <2>2, <4>1, <4>2 DEF QueueFit
      <4>3. CASE q[i] = Lagged
        BY <3>4, <4>1, <4>3
      <4>4. CASE w /\ q[i] = item
        BY <3>3, <4>1, <4>4
      <4> QED
        BY <3>2, <4>1, <4>2, <4>3, <4>4
    <3>6. Open(h)'
      BY <2>3 DEF Subscribed, Listening, Open
    <3> QED
      BY <3>1, <3>2, <3>5, <3>6 DEF QueueFit, ItemFit
  <2>4. CASE ~Subscribed(h, c)
    <3>1. queue'[h] = queue[h]
      BY <2>4 DEF Publish
    <3> QED
      BY <2>1, <2>2, <3>1 DEF QueueFit, ItemFit, Open
  <2> QED
    BY <2>3, <2>4
<1>3. queue' = [h \in Threads |-> queue'[h]]
  BY DEF Publish
<1> QED
  BY <1>2, <1>3 DEF Queues

LEMMA SameCalls ==
  ASSUME UNCHANGED call
  PROVE  \A h \in Threads : SameCall(h)
BY DEF SameCall

(* The app-server writes something about one of its turns.                  *)
LEMMA NotifyStep ==
  ASSUME CodexInv, NEW k \in Turns, NEW kind \in {"started", "completed", "ask", "auth"},
         Notify(k, kind), TurnsKept, remote[k].st # "unsent",
         remote' \in [Turns -> TurnRecs], Fault \/ UNCHANGED faults,
         kind = "completed" => remote'[k].st = "over",
         kind = "ask" => remote'[k].asked,
         UNCHANGED <<engine, lock, wires, call, sent, cards, halts>>
  PROVE  CodexInv'
<1> DEFINE item == [kind |-> kind, turn |-> k]
<1>1. TypeOK
  BY DEF CodexInv
<1>2. item \in ItemType /\ item.turn = k /\ item.kind = kind
  BY DEF ItemType
<1>3. Publish(remote[k].conn, item, {remote[k].thread})
  BY DEF Notify
<1> HIDE DEF item
<1>4. ASSUME NEW h \in Threads, h \in {remote[k].thread}, Subscribed(h, remote[k].conn)
      PROVE  ItemFit(h, item)'
  BY <1>2, <1>4 DEF ItemFit, Subscribed, TurnsKept
<1>5. /\ queue' \in Queues
      /\ \A h \in Threads : QueueFit(h)'
  BY <1>2, <1>3, <1>4, PublishFits
<1>6. faults' \in 0..MaxFaults
  BY <1>1, FaultCount
<1>7. TypeOK'
  BY <1>1, <1>5, <1>6 DEF TypeOK, TurnRecs, Sts, Queues, engine, wires, cards, halts
<1> QED
  BY <1>5, <1>7, SameCalls, ServerStep DEF engine, wires, cards, halts

LEMMA ServerStartsInv ==
  ASSUME CodexInv, NEW k \in Turns, ServerStarts(k)
  PROVE  CodexInv'
<1>1. remote \in [Turns -> TurnRecs]
  BY TypeFacts DEF CodexInv
<1>2. remote' \in [Turns -> TurnRecs] /\ TurnsKept
  BY <1>1, SetSt DEF ServerStarts, Sts
<1> QED
  BY <1>2, NotifyStep DEF ServerStarts

LEMMA ServerCompletesInv ==
  ASSUME CodexInv, NEW k \in Turns, ServerCompletes(k)
  PROVE  CodexInv'
<1>1. remote \in [Turns -> TurnRecs]
  BY TypeFacts DEF CodexInv
<1>2. remote' \in [Turns -> TurnRecs] /\ TurnsKept /\ remote'[k].st = "over"
  BY <1>1, SetSt DEF ServerCompletes, Sts
<1> QED
  BY <1>2, NotifyStep DEF ServerCompletes

LEMMA ServerAsksInv ==
  ASSUME CodexInv, NEW k \in Turns, ServerAsks(k)
  PROVE  CodexInv'
<1>1. remote \in [Turns -> TurnRecs]
  BY TypeFacts DEF CodexInv
<1>2. remote' = [remote EXCEPT ![k].asked = TRUE] /\ remote[k].st = "running"
  BY DEF ServerAsks
<1>3. [remote[k] EXCEPT !.asked = TRUE] \in TurnRecs
  BY <1>1 DEF TurnRecs
<1>4. /\ remote'[k] = [remote[k] EXCEPT !.asked = TRUE]
      /\ \A j \in Turns : j # k => remote'[j] = remote[j]
      /\ remote' \in [Turns -> TurnRecs]
  BY <1>1, <1>2, <1>3
<1>5. /\ remote'[k].asked /\ remote'[k].st = remote[k].st
      /\ remote'[k].thread = remote[k].thread /\ remote'[k].conn = remote[k].conn
  BY <1>1, <1>4 DEF TurnRecs
<1>6. TurnsKept
  BY <1>2, <1>4, <1>5 DEF TurnsKept
<1> QED
  BY <1>2, <1>4, <1>5, <1>6, NotifyStep DEF ServerAsks

LEMMA ServerErrsInv ==
  ASSUME CodexInv, NEW k \in Turns, ServerErrs(k)
  PROVE  CodexInv'
<1>1. remote' \in [Turns -> TurnRecs] /\ TurnsKept
  BY TypeFacts DEF CodexInv, ServerErrs, agent, TurnsKept
<1> QED
  BY <1>1, NotifyStep DEF ServerErrs, agent

(* The response to a request reaches the call that waits for it.            *)
LEMMA AnsweredFacts ==
  ASSUME TypeOK, NEW k \in Turns, NEW res \in {"ok", "ended", "err"}, Answered(k, res),
         res = "ended" => remote[k].st = "over"
  PROVE  call' \in [Threads -> CallRecs] /\ \A h \in Threads : SameCall(h)
<1>1. call \in [Threads -> CallRecs]
  BY TypeFacts
<1>2. ASSUME NEW h \in Threads PROVE call'[h] \in CallRecs /\ SameCall(h)
  <2>1. CASE Waits(h, k)
    <3>1. call'[h] = [call[h] EXCEPT !.req = res] /\ call[h].turn = k
      BY <2>1 DEF Answered, Waits
    <3>2. res \in Reqs /\ k # None
      BY DEF Reqs, Turns, None
    <3> QED
      BY <1>1, <3>1, <3>2 DEF CallRecs, SameCall
  <2>2. CASE ~Waits(h, k)
    <3>1. call'[h] = call[h]
      BY <2>2 DEF Answered
    <3> QED
      BY <1>1, <3>1 DEF SameCall
  <2> QED
    BY <2>1, <2>2
<1>3. call' = [h \in Threads |-> call'[h]]
  BY DEF Answered
<1> QED
  BY <1>2, <1>3

(* A queue fits on when its thread and its turns do.                        *)
LEMMA SameQueue ==
  ASSUME CodexInv, NEW h \in Threads, TurnsKept, SameCall(h), queue'[h] = queue[h]
  PROVE  QueueFit(h)'
BY KeptGrows, KeepFit DEF SameCall

LEMMA ServerRefusesInv ==
  ASSUME CodexInv, NEW k \in Turns, ServerRefuses(k)
  PROVE  CodexInv'
<1>1. TypeOK /\ remote \in [Turns -> TurnRecs]
  BY TypeFacts DEF CodexInv
<1>2. remote' \in [Turns -> TurnRecs] /\ TurnsKept
  BY <1>1, SetSt DEF ServerRefuses, Sts
<1>3. call' \in [Threads -> CallRecs] /\ \A h \in Threads : SameCall(h)
  BY <1>1, AnsweredFacts DEF ServerRefuses
<1>4. faults' \in 0..MaxFaults
  BY <1>1, CodexAssumption DEF CodexAssumption, ServerRefuses, Fault, TypeOK
<1>5. TypeOK'
  BY <1>1, <1>2, <1>3, <1>4 DEF ServerRefuses, TypeOK, CallRecs, Rets, Reqs, Runs, Queues,
     TurnRecs, Sts, engine,
     wires, cards, halts
<1>6. \A h \in Threads : QueueFit(h)'
  BY <1>2, <1>3, SameQueue DEF ServerRefuses
<1> QED
  BY <1>2, <1>3, <1>5, <1>6, ServerStep DEF ServerRefuses, engine, wires, cards, halts

LEMMA ServerRespondsInv ==
  ASSUME CodexInv, NEW k \in Turns, ServerResponds(k)
  PROVE  CodexInv'
<1>1. TypeOK /\ remote \in [Turns -> TurnRecs] /\ UNCHANGED remote
  BY TypeFacts DEF CodexInv, ServerResponds, agent
<1>2. TurnsKept
  BY <1>1 DEF TurnsKept
<1>3. PICK res \in {"ok", "ended"} : Answered(k, res) /\ (res = "ended" => remote[k].st = "over")
  BY DEF ServerResponds
<1>4. call' \in [Threads -> CallRecs] /\ \A h \in Threads : SameCall(h)
  BY <1>1, <1>3, AnsweredFacts
<1>5. TypeOK'
  BY <1>1, <1>4 DEF ServerResponds, TypeOK, CallRecs, Rets, Reqs, engine, wires, agent, cards,
     halts
<1>6. \A h \in Threads : QueueFit(h)'
  BY <1>2, <1>4, SameQueue DEF ServerResponds
<1> QED
  BY <1>2, <1>4, <1>5, <1>6, ServerStep DEF ServerResponds, engine, wires, agent, cards, halts

(* A connection that breaks or loses its login, with or without telling.    *)
LEMMA BreakInv ==
  ASSUME CodexInv, NEW c \in Conns,
         ServerDies(c) \/ LoginLost(c) \/ ParseError(c) \/ Eof(c)
  PROVE  CodexInv'
<1>1. TypeOK /\ conn \in [Conns -> {"unborn", "live", "exited", "closed"}]
  BY DEF CodexInv, TypeOK
<1>2. /\ UNCHANGED <<engine, lock, ready, dropped, call, agent, cards, halts>>
      /\ Fault \/ UNCHANGED faults
      /\ Publish(c, Broken, Threads) \/ Publish(c, NoLogin, Threads) \/ UNCHANGED queue
      /\ \/ conn' = conn
         \/ conn[c] # "unborn" /\ conn' = [conn EXCEPT ![c] = "exited"]
         \/ conn[c] # "unborn" /\ conn' = [conn EXCEPT ![c] = "closed"]
  BY DEF ServerDies, LoginLost, ParseError, Eof, wires
<1>3. /\ conn' \in [Conns -> {"unborn", "live", "exited", "closed"}]
      /\ \A d \in Conns : /\ conn'[d] = "live" => conn[d] = "live"
                          /\ conn[d] # "unborn" => conn'[d] # "unborn"
  BY <1>1, <1>2
<1>4. TurnsKept
  BY <1>2 DEF TurnsKept, agent
<1>5. /\ Broken \in ItemType /\ \A h \in Threads : ItemFit(h, Broken)'
      /\ NoLogin \in ItemType /\ \A h \in Threads : ItemFit(h, NoLogin)'
  BY DEF Broken, NoLogin, ItemType, ItemFit
<1>6. queue' \in Queues /\ \A h \in Threads : QueueFit(h)'
  <2>1. CASE Publish(c, Broken, Threads)
    BY <1>2, <1>4, <1>5, <2>1, PublishFits
  <2>2. CASE Publish(c, NoLogin, Threads)
    BY <1>2, <1>4, <1>5, <2>2, PublishFits
  <2>3. CASE UNCHANGED queue
    BY <1>1, <1>2, <1>4, <2>3, SameCalls, SameQueue, TypeFacts
  <2> QED
    BY <1>2, <2>1, <2>2, <2>3
<1>7. faults' \in 0..MaxFaults
  BY <1>1, <1>2, FaultCount
<1>8. TypeOK'
  BY <1>1, <1>2, <1>3, <1>6, <1>7 DEF TypeOK, Queues, engine, agent, cards, halts
<1> QED
  BY <1>2, <1>3, <1>4, <1>6, <1>8, SameCalls, ServerStep DEF engine, agent, cards, halts

(* A connection that was dropped is killed at last.                         *)
LEMMA ReleasedInv ==
  ASSUME CodexInv, NEW c \in Conns, Released(c)
  PROVE  CodexInv'
<1>1. /\ TypeOK /\ conn \in [Conns -> {"unborn", "live", "exited", "closed"}]
      /\ conn' = Killed(c) /\ dropped' = dropped \ {c}
      /\ UNCHANGED <<engine, lock, ready, call, queue, agent, cards, faults, halts>>
  BY DEF CodexInv, TypeOK, Released
<1>2. /\ conn' \in [Conns -> {"unborn", "live", "exited", "closed"}]
      /\ \A d \in Conns : /\ conn'[d] = "live" => conn[d] = "live" /\ d # c
                          /\ conn[d] # "unborn" => conn'[d] # "unborn"
  BY <1>1 DEF Killed
<1>3. TypeOK'
  BY <1>1, <1>2 DEF TypeOK, engine, agent, cards, halts
<1>4. OneServer'
  <2> SUFFICES ASSUME NEW d \in Conns, Live(d)', d # cur'
               PROVE  answer'.victim = d \/ d \in dropped' \/ \E g \in Threads : call'[g].victim = d
    BY DEF OneServer
  <2>1. Live(d) /\ d # c /\ d # cur
    BY <1>1, <1>2 DEF Live, engine
  <2> QED
    BY <1>1, <2>1 DEF CodexInv, OneServer, cards
<1>5. TurnsFit' /\ CardsFit'
  BY <1>1, <1>2 DEF CodexInv, TurnsFit, CardsFit, CardFit, agent, cards
<1>6. \A g \in Threads : ThreadFit(g)'
  BY <1>1, OtherThread, SameTurns DEF CurMoves, engine, agent, halts
<1> QED
  BY <1>3, <1>4, <1>5, <1>6 DEF CodexInv

LEMMA WireInv ==
  ASSUME CodexInv, NEW c \in Conns, Wire(c)
  PROVE  CodexInv'
BY BreakInv, ReleasedInv DEF Wire

---------------------------------------------------------------------------
(* The answer to an approval.                                               *)

LEMMA CardStep ==
  ASSUME CodexInv, TypeOK', CardsFit', answer'.victim = answer.victim \/ answer.victim = None,
         UNCHANGED <<engine, lock, wires, call, queue, agent, halts, faults>>
  PROVE  CodexInv'
<1>1. OneServer'
  BY DEF CodexInv, OneServer, Live, engine, wires, None, Conns
<1>2. TurnsFit'
  BY DEF CodexInv, TurnsFit, agent, wires
<1>3. \A g \in Threads : ThreadFit(g)'
  BY OtherThread, SameTurns DEF CurMoves, engine, agent, halts
<1> QED
  BY <1>1, <1>2, <1>3 DEF CodexInv

LEMMA AnswerLookInv ==
  ASSUME CodexInv, NEW a \in asks, AnswerLook(a)
  PROVE  CodexInv'
<1>1. TypeOK /\ CardsFit /\ cur \in Conns \cup {None}
      /\ a \in [turn : Turns \cup {None}, conn : Conns \cup {None}]
  BY DEF CodexInv, TypeOK
<1>2. CardFit(a.turn, a.conn) /\ answer.victim = None
  BY <1>1 DEF CardsFit, AnswerLook
<1>3. /\ answer'.victim = None /\ answer'.pc \in {"idle", "alive"}
      /\ answer'.pc = "alive" => answer'.turn = a.turn /\ answer'.asker = a.conn
      /\ answer' \in [pc : {"idle", "alive", "shut"}, turn : Turns \cup {None},
                      asker : Conns \cup {None}, conn : Conns \cup {None},
                      victim : Conns \cup {None}]
  BY <1>1 DEF AnswerLook, NoAnswer, None
<1>4. TypeOK'
  BY <1>1, <1>3 DEF AnswerLook, TypeOK, engine, wires, agent, halts
<1>5. CardsFit'
  BY <1>1, <1>2, <1>3 DEF AnswerLook, CardsFit, CardFit, agent
<1> QED
  BY <1>2, <1>4, <1>5, CardStep DEF AnswerLook

LEMMA AnswerSendInv ==
  ASSUME CodexInv, AnswerSend
  PROVE  CodexInv'
<1> DEFINE b == [turn |-> answer.turn, conn |-> answer.conn]
<1>1. TypeOK /\ CardsFit
  BY DEF CodexInv
<1>2. answer.victim = None /\ CardFit(answer.turn, answer.asker)
  BY <1>1 DEF CardsFit, AnswerSend
<1>3. /\ answer' = NoAnswer /\ answer'.victim = None /\ answer'.pc = "idle"
      /\ answer' \in [pc : {"idle", "alive", "shut"}, turn : Turns \cup {None},
                      asker : Conns \cup {None}, conn : Conns \cup {None},
                      victim : Conns \cup {None}]
  BY DEF AnswerSend, NoAnswer, None
<1>4. b \in [turn : Turns \cup {None}, conn : Conns \cup {None}]
      /\ (answer.asker = answer.conn => CardFit(b.turn, b.conn))
  BY <1>1, <1>2 DEF TypeOK
<1>5. answered' = IF answer.asker = answer.conn THEN answered \cup {b} ELSE answered
  BY DEF AnswerSend
<1> HIDE DEF b
<1>6. TypeOK'
  BY <1>1, <1>3, <1>4, <1>5 DEF AnswerSend, TypeOK, engine, wires, agent, halts
<1>7. CardsFit'
  BY <1>1, <1>3, <1>4, <1>5 DEF AnswerSend, CardsFit, CardFit, agent
<1> QED
  BY <1>2, <1>6, <1>7, CardStep DEF AnswerSend

LEMMA AnswerDeadInv ==
  ASSUME CodexInv, AnswerDead
  PROVE  CodexInv'
<1>1. TypeOK /\ CardsFit /\ cur \in Conns \cup {None}
  BY DEF CodexInv, TypeOK
<1>2. answer.victim = None
  BY <1>1 DEF CardsFit, AnswerDead
<1>3. /\ answer'.pc = "shut" /\ answer'.victim = cur
      /\ answer' \in [pc : {"idle", "alive", "shut"}, turn : Turns \cup {None},
                      asker : Conns \cup {None}, conn : Conns \cup {None},
                      victim : Conns \cup {None}]
  BY <1>1 DEF AnswerDead, TypeOK
<1>4. TypeOK'
  BY <1>1, <1>3 DEF Forget, AnswerDead, TypeOK, wires, agent, halts
<1>5. CardsFit'
  BY <1>1, <1>3 DEF AnswerDead, CardsFit, CardFit, agent
<1>6. OneServer'
  BY <1>2, <1>3 DEF CodexInv, OneServer, Live, AnswerDead, Forget, wires, None, Conns
<1>7. TurnsFit'
  BY DEF CodexInv, TurnsFit, AnswerDead, agent, wires
<1>8. ASSUME NEW g \in Threads PROVE ThreadFit(g)'
  <2>1. active'[g] = None /\ cur' = None
    BY DEF AnswerDead, Forget
  <2> QED
    BY <2>1, OtherThread, SameTurns DEF CurMoves, AnswerDead, agent, halts
<1> QED
  BY <1>4, <1>5, <1>6, <1>7, <1>8 DEF CodexInv

LEMMA AnswerShutInv ==
  ASSUME CodexInv, AnswerShut
  PROVE  CodexInv'
<1>1. TypeOK /\ CardsFit /\ answer.victim \in Conns \cup {None}
  BY DEF CodexInv, TypeOK
<1>2. /\ answer' = NoAnswer /\ answer'.victim = None /\ answer'.pc = "idle"
      /\ answer' \in [pc : {"idle", "alive", "shut"}, turn : Turns \cup {None},
                      asker : Conns \cup {None}, conn : Conns \cup {None},
                      victim : Conns \cup {None}]
  BY DEF AnswerShut, NoAnswer, None
<1>3. TypeOK'
  <2>1. conn' \in [Conns -> {"unborn", "live", "exited", "closed"}]
    BY <1>1 DEF AnswerShut, Killed, TypeOK
  <2> QED
    BY <1>1, <1>2, <2>1 DEF AnswerShut, TypeOK, engine, agent, halts
<1>4. CardsFit'
  BY <1>1, <1>2 DEF AnswerShut, CardsFit, CardFit, agent
<1>5. \A g \in Threads : ThreadFit(g)'
  BY OtherThread, SameTurns DEF CurMoves, AnswerShut, engine, agent, halts
<1> QED
  BY <1>1, <1>3, <1>4, <1>5, KillStep DEF AnswerShut, engine, agent, halts

---------------------------------------------------------------------------
LEMMA NextInv == CodexInv /\ [Next]_vars => CodexInv'
<1> SUFFICES ASSUME CodexInv, [Next]_vars PROVE CodexInv'
  OBVIOUS
<1>1. ASSUME NEW h \in Threads, Send(h) \/ Ensure(h) PROVE CodexInv'
  BY <1>1, SendInv, LookInv, IsAliveInv, LockInv, SpawnInv, SpawnFailsInv, InitializedInv,
     InitializeFailsInv, ShutdownInv DEF Ensure
<1>2. ASSUME NEW h \in Threads, Start(h) \/ Stop(h) \/ EndTurn(h) PROVE CodexInv'
  BY <1>2, SubscribeInv, SendStartInv, StartTimesOutInv, StopInv, DeliveredInv, AbortInv
  DEF Start, EndTurn
<1>3. ASSUME NEW h \in Threads, Receive(h) PROVE CodexInv'
  BY <1>3, TakeResponseInv, TakeResultInv, StartRefusedInv, RecvStartedInv, RecvCompletedInv,
     RecvAuthInv, RecvAskInv, RecvBreakInv, ReadTurnsInv, FinishInv DEF Receive
<1>4. ASSUME NEW k \in Turns, Server(k) PROVE CodexInv'
  BY <1>4, ServerStartsInv, ServerRefusesInv, ServerRespondsInv, ServerAsksInv,
     ServerCompletesInv, ServerErrsInv DEF Server
<1>5. ASSUME Answer PROVE CodexInv'
  BY <1>5, AnswerLookInv, AnswerSendInv, AnswerDeadInv, AnswerShutInv DEF Answer
<1>6. CASE UNCHANGED vars
  <2>1. TypeOK' /\ CardsFit'
    BY <1>6 DEF CodexInv, TypeOK, CardsFit, CardFit, vars
  <2> QED
    BY <1>6, <2>1, CardStep DEF vars, engine, wires, agent, halts
<1> QED
  BY <1>1, <1>2, <1>3, <1>4, <1>5, <1>6, WireInv DEF Next

LEMMA AlwaysInv == Spec => []CodexInv
<1> QED
  BY InitInv, NextInv, PTL DEF Spec

(* Every variable keeps its kind of value: the state of the engine, the     *)
(* connections, the calls and the queues of the turns.                      *)
THEOREM CodexTypes == Spec => []TypeOK
<1>1. CodexInv => TypeOK
  BY DEF CodexInv
<1> QED
  BY AlwaysInv, <1>1, PTL

(* ensure_ready_transport and invalidate_transport never leave an           *)
(* app-server running that nobody uses or is about to kill.                 *)
THEOREM SingleServer == Spec => []OneServer
<1>1. CodexInv => OneServer
  BY DEF CodexInv
<1> QED
  BY AlwaysInv, <1>1, PTL

(* However many threads share the connection, send_message takes for the    *)
(* end of its turn only the end of a turn of its own thread.                *)
THEOREM EndsOwn == Spec => []EndsByOwnThread
<1>1. CodexInv => EndsByOwnThread
  BY DEF CodexInv, ThreadFit, EndFit, EndsByOwnThread
<1> QED
  BY AlwaysInv, <1>1, PTL

(* respond_to_approval writes an answer only to the app-server that asked,  *)
(* however often the connection was replaced since.                         *)
THEOREM AnswersReach == Spec => []AnswerReachesAsker
<1>1. CodexInv => AnswerReachesAsker
  BY DEF CodexInv, CardsFit, CardFit, AnswerReachesAsker
<1> QED
  BY AlwaysInv, <1>1, PTL

(* A call that finished, or that had returned when a stop interrupted its   *)
(* turn, leaves no active turn on the current connection, whatever order    *)
(* the response, the completion, the stop and the failures came in.         *)
THEOREM RestClean == Spec => []RestHasNoTurn
<1>1. CodexInv => RestHasNoTurn
  BY DEF CodexInv, TypeOK, ThreadFit, RestFit, RestHasNoTurn
<1> QED
  BY AlwaysInv, <1>1, PTL

---------------------------------------------------------------------------
(* The engine implements AppServers.                                        *)

(* Every task that kills has a victim of its own, and so has the abort of a *)
(* call; none of them is in use.                                            *)
VictimsApart ==
  /\ cur # None => conn[cur] # "unborn"
  /\ answer.victim # None => answer.victim # cur /\ conn[answer.victim] # "unborn"
  /\ \A h \in Threads : call[h].victim # None =>
       /\ call[h].victim # cur /\ conn[call[h].victim] # "unborn"
       /\ call[h].victim # answer.victim
       /\ \A g \in Threads : call[g].victim = call[h].victim => g = h
  /\ \A c \in dropped :
       /\ c # cur /\ conn[c] # "unborn" /\ c # answer.victim
       /\ \A h \in Threads : call[h].victim # c

ServersStep == Servers!Next \/ UNCHANGED <<Process, cur, Doomed>>

(* What the lemmas show of a step.                                          *)
KeepsServers == VictimsApart' /\ ServersStep

SameVictims ==
  /\ answer'.victim = answer.victim
  /\ dropped' = dropped
  /\ \A h \in Threads : call'[h].victim = call[h].victim

LEMMA DoomedSame ==
  ASSUME SameVictims
  PROVE  Doomed' = Doomed
<1>1. {call'[h].victim : h \in Threads} = {call[h].victim : h \in Threads}
  BY DEF SameVictims
<1> QED
  BY <1>1 DEF Doomed, SameVictims

LEMMA NothingToServers ==
  ASSUME VictimsApart, SameVictims, UNCHANGED <<cur, conn>>
  PROVE  KeepsServers
<1>1. UNCHANGED <<Process, cur, Doomed>>
  BY DoomedSame DEF Process
<1>2. VictimsApart'
  BY DEF VictimsApart, SameVictims
<1> QED
  BY <1>1, <1>2 DEF KeepsServers, ServersStep

(* The current connection is taken out, by a call or by an answer.          *)
LEMMA RetireStep ==
  ASSUME UNCHANGED conn, cur' = None, Doomed' = Doomed \cup ({cur} \ {None})
  PROVE  ServersStep
<1>1. Process' = Process
  BY DEF Process
<1>2. CASE cur = None
  <2>1. Doomed' = Doomed
    BY <1>2
  <2> QED
    BY <1>1, <1>2, <2>1 DEF ServersStep
<1>3. CASE cur # None
  <2>1. Doomed' = Doomed \cup {cur}
    BY <1>3
  <2> QED
    BY <1>1, <1>3, <2>1 DEF ServersStep, Servers!Next, Servers!Retire
<1> QED
  BY <1>2, <1>3

LEMMA CallTakesOut ==
  ASSUME VictimsApart, NEW h \in Threads, UNCHANGED <<conn, dropped>>, cur' = None,
         call[h].victim = None, call'[h].victim = cur,
         \A g \in Threads : g # h => call'[g].victim = call[g].victim,
         answer'.victim = answer.victim
  PROVE  KeepsServers
<1>1. VictimsApart'
  BY DEF VictimsApart
<1>2. Doomed' = Doomed \cup ({cur} \ {None})
  <2>1. \A c : c \in {call'[g].victim : g \in Threads} \ {None} <=>
                 c \in ({call[g].victim : g \in Threads} \ {None}) \cup ({cur} \ {None})
    OBVIOUS
  <2> QED
    BY <2>1 DEF Doomed
<1> QED
  BY <1>1, <1>2, RetireStep DEF KeepsServers

LEMMA AnswerTakesOut ==
  ASSUME VictimsApart, UNCHANGED <<conn, call, dropped>>, cur' = None,
         answer.victim = None, answer'.victim = cur
  PROVE  KeepsServers
<1>1. VictimsApart'
  BY DEF VictimsApart
<1>2. Doomed' = Doomed \cup ({cur} \ {None})
  BY DEF Doomed
<1> QED
  BY <1>1, <1>2, RetireStep DEF KeepsServers

(* A victim is killed.                                                      *)
LEMMA KilledProcess ==
  ASSUME conn \in [Conns -> {"unborn", "live", "exited", "closed"}],
         NEW c \in Conns, conn[c] # "unborn", conn' = Killed(c)
  PROVE  Process' = [Process EXCEPT ![c] = "dead"]
<1>1. \A d \in Conns : conn'[d] = IF d = c /\ conn[c] = "live" THEN "exited" ELSE conn[d]
  BY DEF Killed
<1> QED
  BY <1>1 DEF Process

LEMMA KillsVictim ==
  ASSUME conn \in [Conns -> {"unborn", "live", "exited", "closed"}],
         NEW c \in Conns, c \in Doomed, conn[c] # "unborn", conn' = Killed(c),
         cur' = cur, Doomed' = Doomed \ {c}
  PROVE  ServersStep
<1>1. Process' = [Process EXCEPT ![c] = "dead"]
  BY KilledProcess
<1> QED
  BY <1>1 DEF ServersStep, Servers!Next, Servers!Kill

LEMMA KilledKeepsBorn ==
  ASSUME conn \in [Conns -> {"unborn", "live", "exited", "closed"}],
         NEW c \in Conns \cup {None},
         conn' = IF c = None THEN conn ELSE Killed(c)
  PROVE  \A d \in Conns : conn[d] # "unborn" => conn'[d] # "unborn"
BY DEF Killed

LEMMA CallKills ==
  ASSUME CodexInv, VictimsApart, NEW h \in Threads, Shutdown(h)
  PROVE  KeepsServers
<1> DEFINE c == call[h].victim
<1>1. /\ conn \in [Conns -> {"unborn", "live", "exited", "closed"}]
      /\ call \in [Threads -> CallRecs] /\ TypeOK
      /\ c \in Conns \cup {None}
  <2>1. TypeOK /\ call \in [Threads -> CallRecs]
    BY TypeFacts DEF CodexInv
  <2>2. c \in Conns \cup {None}
    BY <2>1 DEF CallRecs
  <2> QED
    BY <2>1, <2>2 DEF TypeOK
<1>2. /\ cur' = cur /\ answer' = answer /\ dropped' = dropped
      /\ conn' = IF c = None THEN conn ELSE Killed(c)
  BY DEF Shutdown, TakenOut, engine, cards
<1>3. /\ call'[h].victim = None
      /\ \A g \in Threads : g # h => call'[g].victim = call[g].victim
  <2>1. CASE call[h].ret = "idle"
    <3>1. Return(h, call[h].done) /\ call[h].done \in BOOLEAN
      BY <1>1, <2>1 DEF Shutdown, CallRecs
    <3> QED
      BY <1>1, <3>1, ReturnFacts DEF Returned
  <2>2. CASE call[h].ret # "idle"
    BY <1>1, <2>2 DEF Shutdown, CallRecs
  <2> QED
    BY <2>1, <2>2
<1>4. \A d \in Conns : conn[d] # "unborn" => conn'[d] # "unborn"
  BY <1>1, <1>2, KilledKeepsBorn
<1>5. \A g \in Threads : call[g].victim \in Conns \cup {None}
  BY <1>1 DEF CallRecs
<1>6. cur \in Conns \cup {None} /\ answer.victim \in Conns \cup {None} /\ dropped \subseteq Conns
  BY <1>1 DEF TypeOK
<1> HIDE DEF c
<1>7. VictimsApart'
  <2>1. /\ cur' # None => conn'[cur'] # "unborn"
        /\ answer'.victim # None => answer'.victim # cur' /\ conn'[answer'.victim] # "unborn"
    BY <1>2, <1>4, <1>6 DEF VictimsApart
  <2>2. ASSUME NEW g \in Threads, call'[g].victim # None
        PROVE  /\ call'[g].victim # cur' /\ conn'[call'[g].victim] # "unborn"
               /\ call'[g].victim # answer'.victim
               /\ \A f \in Threads : call'[f].victim = call'[g].victim => f = g
    <3>1. g # h /\ call'[g].victim = call[g].victim
      BY <1>3, <2>2
    <3>2. \A f \in Threads : call'[f].victim = call[g].victim => f = g
      BY <1>3, <2>2, <3>1 DEF VictimsApart
    <3> QED
      BY <1>2, <1>4, <1>5, <2>2, <3>1, <3>2 DEF VictimsApart
  <2>3. ASSUME NEW d \in dropped'
        PROVE  /\ d # cur' /\ conn'[d] # "unborn" /\ d # answer'.victim
               /\ \A g \in Threads : call'[g].victim # d
    <3>1. d \in dropped /\ d \in Conns /\ d # None
      BY <1>2, <1>6 DEF Conns, None
    <3> QED
      BY <1>2, <1>3, <1>4, <3>1 DEF VictimsApart
  <2> QED
    BY <2>1, <2>2, <2>3 DEF VictimsApart
<1>8. CASE c = None
  <2>1. SameVictims
    BY <1>2, <1>3, <1>8 DEF SameVictims, c
  <2> QED
    BY <1>2, <1>8, <2>1, NothingToServers
<1>9. CASE c # None
  <2>1. conn[c] # "unborn" /\ c # answer.victim
        /\ c \notin dropped /\ \A g \in Threads : call[g].victim = c => g = h
    BY <1>9 DEF VictimsApart, c
  <2>2. c \in Doomed
    BY <1>9 DEF Doomed, c
  <2>3. Doomed' = Doomed \ {c}
    <3>1. \A d : d \in {call'[g].victim : g \in Threads} \ {None} <=>
                   d \in ({call[g].victim : g \in Threads} \ {None}) \ {c}
      BY <1>3, <2>1 DEF c
    <3> QED
      BY <1>2, <2>1, <3>1 DEF Doomed
  <2> QED
    BY <1>1, <1>2, <1>7, <1>9, <2>1, <2>2, <2>3, KillsVictim DEF KeepsServers
<1> QED
  BY <1>8, <1>9

LEMMA AnswerKills ==
  ASSUME CodexInv, VictimsApart, AnswerShut
  PROVE  KeepsServers
<1> DEFINE c == answer.victim
<1>1. /\ conn \in [Conns -> {"unborn", "live", "exited", "closed"}]
      /\ c \in Conns \cup {None} /\ cur \in Conns \cup {None} /\ None \notin Conns
      /\ dropped \subseteq Conns
      /\ \A g \in Threads : call[g].victim \in Conns \cup {None}
  BY DEF CodexInv, TypeOK, None, Conns
<1>2. /\ UNCHANGED <<cur, call, dropped>> /\ answer'.victim = None
      /\ conn' = IF c = None THEN conn ELSE Killed(c)
  BY DEF AnswerShut, engine, NoAnswer
<1>3. \A d \in Conns : conn[d] # "unborn" => conn'[d] # "unborn"
  BY <1>1, <1>2, KilledKeepsBorn
<1> HIDE DEF c
<1>4. VictimsApart'
  BY <1>1, <1>2, <1>3 DEF VictimsApart
<1>5. CASE c = None
  BY <1>2, <1>5, NothingToServers DEF SameVictims, c
<1>6. CASE c # None
  <2>1. conn[c] # "unborn" /\ c \notin dropped /\ \A g \in Threads : call[g].victim # c
    BY <1>6 DEF VictimsApart, c
  <2>2. c \in Doomed /\ Doomed' = Doomed \ {c}
    BY <1>2, <1>6, <2>1 DEF Doomed, c
  <2> QED
    BY <1>1, <1>2, <1>4, <1>6, <2>1, <2>2, KillsVictim DEF KeepsServers
<1> QED
  BY <1>5, <1>6

LEMMA OpensNext ==
  ASSUME CodexInv, VictimsApart, NEW h \in Threads, Spawn(h)
  PROVE  KeepsServers
<1>1. TypeOK /\ ThreadFit(h) /\ call \in [Threads -> CallRecs]
  BY TypeFacts DEF CodexInv
<1>2. PICK c \in Unborn : /\ conn' = [conn EXCEPT ![c] = "live"]
                          /\ cur' = c
                          /\ call' = [call EXCEPT ![h].pc = "init", ![h].conn = c]
  BY DEF Spawn
<1>3. c \in Conns /\ conn[c] = "unborn" /\ cur = None
  BY <1>1, <1>2 DEF Unborn, Spawn, ThreadFit, SpawnFit
<1>4. SameVictims
  BY <1>1, <1>2 DEF SameVictims, CallRecs, Spawn, cards
<1>5. conn'[c] = "live" /\ \A d \in Conns : d # c => conn'[d] = conn[d]
  BY <1>1, <1>2, <1>3 DEF TypeOK
<1>6. \A h1 \in Threads : call[h1].victim \in Conns \cup {None}
  BY <1>1 DEF CallRecs
<1>7. answer.victim \in Conns \cup {None} /\ dropped \subseteq Conns
  BY <1>1 DEF TypeOK
<1>8. VictimsApart'
  <2>1. cur' # None => conn'[cur'] # "unborn"
    BY <1>2, <1>5
  <2>2. \A v \in Conns \cup {None} : v # None /\ conn[v] # "unborn" => v # c /\ conn'[v] # "unborn"
    BY <1>3, <1>5
  <2>3. answer'.victim # None => answer'.victim # cur' /\ conn'[answer'.victim] # "unborn"
    BY <1>2, <1>4, <1>7, <2>2 DEF VictimsApart, SameVictims
  <2>4. ASSUME NEW g \in Threads, call'[g].victim # None
        PROVE  /\ call'[g].victim # cur' /\ conn'[call'[g].victim] # "unborn"
               /\ call'[g].victim # answer'.victim
               /\ \A f \in Threads : call'[f].victim = call'[g].victim => f = g
    <3>1. call'[g].victim = call[g].victim /\ call[g].victim # None
      BY <1>4, <2>4 DEF SameVictims
    <3>2. /\ conn[call[g].victim] # "unborn" /\ call[g].victim # answer.victim
          /\ \A f \in Threads : call[f].victim = call[g].victim => f = g
      BY <3>1 DEF VictimsApart
    <3> QED
      BY <1>2, <1>4, <1>6, <2>2, <3>1, <3>2 DEF SameVictims
  <2>5. ASSUME NEW d \in dropped'
        PROVE  /\ d # cur' /\ conn'[d] # "unborn" /\ d # answer'.victim
               /\ \A g \in Threads : call'[g].victim # d
    <3>1. d \in dropped /\ d \in Conns /\ conn[d] # "unborn"
      BY <1>4, <1>7 DEF VictimsApart, SameVictims
    <3> QED
      BY <1>2, <1>3, <1>4, <1>5, <3>1 DEF VictimsApart, SameVictims
  <2> QED
    BY <2>1, <2>3, <2>4, <2>5 DEF VictimsApart
<1>9. Process[c] = "unborn" /\ Process' = [Process EXCEPT ![c] = "live"]
  BY <1>3, <1>5 DEF Process
<1>10. Doomed' = Doomed
  BY <1>4, DoomedSame
<1> QED
  BY <1>2, <1>3, <1>8, <1>9, <1>10
  DEF KeepsServers, ServersStep, Servers!Next, Servers!Open

(* The tasks that find the connection broken take it out.                   *)
BreaksOff(h) ==
  \/ IsAlive(h) /\ ~Live(call[h].conn)
  \/ InitializeFails(h)
  \/ (StartRefused(h) \/ RecvAuth(h)) /\ \E ret \in {"idle", "loop"} : Invalidate(h, ret)
  \/ RecvBreak(h)

LEMMA BreakTakesOut ==
  ASSUME CodexInv, VictimsApart, NEW h \in Threads, BreaksOff(h)
  PROVE  KeepsServers
<1>1. ThreadFit(h) /\ call \in [Threads -> CallRecs]
  BY TypeFacts DEF CodexInv
<1>2. call[h].victim = None
  BY <1>1 DEF BreaksOff, IsAlive, InitializeFails, StartRefused, RecvAuth, RecvBreak, Receives,
     Looping, ThreadFit, VictimFit
<1>3. /\ cur' = None /\ UNCHANGED <<conn, answer, dropped>>
      /\ \A g \in Threads : g # h => call'[g] = call[g]
      /\ call'[h].victim = cur
  <2>1. CASE IsAlive(h) /\ ~Live(call[h].conn)
    <3>1. Invalidate(h, Absent(h))
      BY <2>1 DEF IsAlive
    <3> QED
      BY <1>1, <2>1, <3>1 DEF IsAlive, Invalidate, Forget, CallRecs, wires, cards
  <2>2. CASE InitializeFails(h)
    BY <1>1, <2>2 DEF InitializeFails, Forget, CallRecs, wires, cards
  <2>3. CASE (StartRefused(h) \/ RecvAuth(h)) /\ \E ret \in {"idle", "loop"} : Invalidate(h, ret)
    BY <1>1, <2>3 DEF StartRefused, RecvAuth, Invalidate, Forget, CallRecs, wires, cards
  <2>4. CASE RecvBreak(h)
    BY <1>1, <2>4 DEF RecvBreak, Forget, NoCall, wires, cards
  <2> QED
    BY <2>1, <2>2, <2>3, <2>4 DEF BreaksOff
<1> QED
  BY <1>2, <1>3, CallTakesOut

(* The end of a turn may take the connection out.                           *)
LEMMA EndTakesOut ==
  ASSUME CodexInv, VictimsApart, NEW h \in Threads, TakeResult(h) \/ RecvCompleted(h)
  PROVE  KeepsServers
<1>1. /\ ThreadFit(h) /\ call \in [Threads -> CallRecs]
      /\ UNCHANGED <<conn, answer, dropped>>
  BY TypeFacts DEF CodexInv, TakeResult, RecvCompleted, wires, cards
<1>2. PICK k, last : Complete(h, k, last)
  BY DEF TakeResult, RecvCompleted
<1>3. /\ Completed(h, k, last).victim = call[h].victim
      /\ \A g \in Threads : g # h => call'[g] = call[g]
  BY <1>1, <1>2 DEF Complete, Completed, CallRecs
<1>4. CASE /\ call' = [call EXCEPT ![h] = Completed(h, k, last)]
           /\ UNCHANGED <<cur, inited, faults>>
  <2>1. \A g \in Threads : call'[g].victim = call[g].victim
    BY <1>1, <1>3, <1>4
  <2> QED
    BY <1>1, <1>4, <2>1, NothingToServers DEF SameVictims
<1>5. CASE /\ Forget
           /\ call' = [call EXCEPT ![h] = [Completed(h, k, last) EXCEPT
                          !.pc = "shut", !.victim = cur, !.ret = "loop"]]
  <2>1. call[h].victim = None
    BY <1>1 DEF TakeResult, RecvCompleted, Receives, Looping, ThreadFit, VictimFit
  <2>2. call'[h].victim = cur
    BY <1>1, <1>5 DEF Completed, CallRecs
  <2> QED
    BY <1>1, <1>3, <1>5, <2>1, <2>2, CallTakesOut DEF Forget
<1> QED
  BY <1>2, <1>4, <1>5 DEF Complete

(* A call that returns had no victim.                                       *)
ReturnsNow(h) ==
  \/ SpawnFails(h) \/ ReadTurns(h) \/ Finish(h)
  \/ StartRefused(h) /\ Return(h, call[h].done) /\ UNCHANGED <<engine, faults>>

LEMMA ReturnsToServers ==
  ASSUME CodexInv, VictimsApart, NEW h \in Threads, ReturnsNow(h)
  PROVE  KeepsServers
<1>1. TypeOK /\ call[h].done \in BOOLEAN
  BY TypeFacts DEF CodexInv, CallRecs
<1>2. call[h].victim = None
  BY DEF CodexInv, ThreadFit, VictimFit, ReturnsNow, SpawnFails, ReadTurns, Finish, StartRefused,
         Looping
<1>3. PICK told \in BOOLEAN : Return(h, told)
  <2>1. CASE ReadTurns(h)
    <3>1. PICK found \in {TRUE, FALSE} : Return(h, call[h].done \/ found)
      BY <2>1 DEF ReadTurns
    <3>2. (call[h].done \/ found) \in BOOLEAN
      OBVIOUS
    <3> QED
      BY <3>1, <3>2
  <2>2. CASE ~ReadTurns(h)
    BY <1>1, <2>2 DEF ReturnsNow, SpawnFails, Finish
  <2> QED
    BY <2>1, <2>2
<1>4. Returned(h)
  BY <1>1, <1>3, ReturnFacts
<1>5. UNCHANGED <<cur, conn, answer, dropped>>
  BY DEF ReturnsNow, SpawnFails, ReadTurns, Finish, StartRefused, engine, wires, cards
<1> QED
  BY <1>2, <1>4, <1>5, NothingToServers DEF SameVictims, Returned

(* An aborted call leaves its victim to the last reference.                 *)
LEMMA AbortToServers ==
  ASSUME CodexInv, VictimsApart, NEW h \in Threads, Abort(h)
  PROVE  KeepsServers
<1> DEFINE c == call[h].victim
<1>1. /\ call \in [Threads -> CallRecs] /\ TypeOK /\ c \in Conns \cup {None}
  BY TypeFacts DEF CodexInv, CallRecs
<1>2. /\ UNCHANGED <<cur, conn, answer>> /\ dropped' = dropped \cup ({c} \ {None})
      /\ call'[h].victim = None /\ \A g \in Threads : g # h => call'[g] = call[g]
  BY <1>1 DEF Abort, TakenOut, engine, cards, NoCall
<1>3. None \notin dropped
  BY <1>1 DEF TypeOK, Conns, None
<1> HIDE DEF c
<1>4. VictimsApart'
  <2>1. c # None =>
          /\ c # cur /\ conn[c] # "unborn" /\ c # answer.victim
          /\ \A g \in Threads : call[g].victim = c => g = h
    BY DEF VictimsApart, c
  <2>2. \A d \in dropped' : d \in dropped \/ (d = c /\ c # None)
    BY <1>2
  <2>3. \A d \in dropped' :
          /\ d # cur' /\ conn'[d] # "unborn" /\ d # answer'.victim
          /\ \A g \in Threads : call'[g].victim # d
    BY <1>2, <1>3, <2>1, <2>2 DEF VictimsApart
  <2> QED
    BY <1>2, <2>3 DEF VictimsApart
<1>5. Doomed' = Doomed
  <2>1. \A d : d \in {call'[g].victim : g \in Threads} \ {None} <=>
                 \E g \in Threads : g # h /\ call[g].victim = d /\ d # None
    BY <1>2
  <2>2. \A d : d \in {call[g].victim : g \in Threads} \ {None} <=>
                 \/ \E g \in Threads : g # h /\ call[g].victim = d /\ d # None
                 \/ d = c /\ c # None
    BY DEF c
  <2> QED
    BY <1>2, <2>1, <2>2 DEF Doomed
<1>6. Process' = Process
  BY <1>2 DEF Process
<1> QED
  BY <1>2, <1>4, <1>5, <1>6 DEF KeepsServers, ServersStep

(* The steps that leave every victim where it is.                           *)
LEMMA CallMovesOn ==
  ASSUME CodexInv, VictimsApart, NEW h \in Threads,
         \/ Send(h) \/ Look(h) \/ Lock(h) \/ Initialized(h)
         \/ IsAlive(h) /\ Live(call[h].conn)
         \/ Start(h) \/ TakeResponse(h) \/ RecvStarted(h) \/ RecvAsk(h)
  PROVE  KeepsServers
<1>1. call \in [Threads -> CallRecs] /\ ThreadFit(h)
  BY TypeFacts DEF CodexInv
<1>2. UNCHANGED <<cur, conn, answer, dropped>>
  BY DEF Send, Look, Lock, Initialized, IsAlive, Start, Subscribe, SendStart, StartTimesOut,
         TakeResponse, RecvStarted, RecvAsk, engine, wires, cards
<1>3. \A g \in Threads : call'[g].victim = call[g].victim
  <2>1. CASE Send(h)
    <3>1. call[h].victim = None
      BY <1>1, <2>1 DEF Send, ThreadFit, VictimFit, RunFit
    <3> QED
      BY <1>1, <2>1, <3>1 DEF Send, NoCall
  <2>2. CASE Look(h) \/ Lock(h) \/ Initialized(h) \/ (IsAlive(h) /\ Live(call[h].conn))
    BY <1>1, <2>2 DEF Look, Lock, Initialized, IsAlive, Goto, CallRecs
  <2>3. CASE Start(h)
    <3>1. CASE Subscribe(h)
      BY <1>1, <3>1 DEF Subscribe, CallRecs
    <3>2. CASE SendStart(h)
      BY <1>1, <3>2 DEF SendStart, CallRecs
    <3>3. CASE StartTimesOut(h)
      BY <1>1, <3>3 DEF StartTimesOut, CallRecs
    <3> QED
      BY <2>3, <3>1, <3>2, <3>3 DEF Start
  <2>4. CASE TakeResponse(h) \/ RecvStarted(h) \/ RecvAsk(h)
    BY <1>1, <2>4 DEF TakeResponse, RecvStarted, RecvAsk, CallRecs
  <2> QED
    BY <2>1, <2>2, <2>3, <2>4
<1> QED
  BY <1>2, <1>3, NothingToServers DEF SameVictims

LEMMA TurnMovesOn ==
  ASSUME CodexInv, VictimsApart, NEW h \in Threads, Stop(h) \/ Delivered(h)
  PROVE  KeepsServers
<1>1. TypeOK /\ LeaveOff(h) /\ UNCHANGED <<cur, conn, answer, dropped>>
  BY DEF CodexInv, Stop, Delivered, engine, wires, cards
<1>2. \A g \in Threads : call'[g].victim = call[g].victim
  BY <1>1, LeaveOffFacts
<1> QED
  BY <1>1, <1>2, NothingToServers DEF SameVictims

LEMMA CallEndsAway ==
  ASSUME CodexInv, VictimsApart, NEW h \in Threads, RecvAuth(h), ~Belongs(h)
  PROVE  KeepsServers
BY NothingToServers DEF SameVictims, RecvAuth, engine, wires, cards

LEMMA AgentMovesOn ==
  ASSUME CodexInv, VictimsApart, NEW k \in Turns, Server(k)
  PROVE  KeepsServers
<1>1. call \in [Threads -> CallRecs]
  BY TypeFacts DEF CodexInv
<1>2. UNCHANGED <<cur, conn, answer, dropped>>
  BY DEF Server, ServerStarts, ServerRefuses, ServerResponds, ServerAsks, ServerCompletes,
         ServerErrs, engine, wires, cards
<1>3. call' = call \/ \E res \in {"ok", "ended", "err"} : Answered(k, res)
  BY DEF Server, ServerStarts, ServerRefuses, ServerResponds, ServerAsks, ServerCompletes,
         ServerErrs
<1>4. \A g \in Threads : call'[g].victim = call[g].victim
  <2>1. ASSUME NEW res \in {"ok", "ended", "err"}, Answered(k, res), NEW g \in Threads
        PROVE  call'[g].victim = call[g].victim
    BY <1>1, <2>1 DEF Answered, CallRecs
  <2> QED
    BY <1>3, <2>1
<1> QED
  BY <1>2, <1>4, NothingToServers DEF SameVictims

LEMMA WireMovesOn ==
  ASSUME CodexInv, VictimsApart, NEW c \in Conns, Wire(c)
  PROVE  KeepsServers
<1>1. /\ conn \in [Conns -> {"unborn", "live", "exited", "closed"}]
      /\ cur \in Conns \cup {None} /\ answer.victim \in Conns \cup {None}
      /\ call \in [Threads -> CallRecs]
  BY TypeFacts DEF CodexInv, TypeOK
<1>2. \A g \in Threads : call[g].victim \in Conns \cup {None}
  BY <1>1 DEF CallRecs
<1>3. UNCHANGED <<cur, call, answer>> /\ dropped \subseteq Conns
  BY DEF CodexInv, TypeOK, Wire, ServerDies, LoginLost, ParseError, Eof, Released, engine, cards
<1>5. CASE ServerDies(c)
  <2>1. conn[c] = "live" /\ conn' = [conn EXCEPT ![c] = "exited"]
    BY <1>5 DEF ServerDies
  <2>2. Process[c] = "live" /\ Process' = [Process EXCEPT ![c] = "dead"]
    BY <1>1, <2>1 DEF Process
  <2>3. VictimsApart' /\ dropped' = dropped
    BY <1>1, <1>2, <1>3, <1>5, <2>1 DEF VictimsApart, ServerDies
  <2> QED
    BY <1>3, <2>2, <2>3, DoomedSame
    DEF KeepsServers, ServersStep, SameVictims, Servers!Next, Servers!Die
<1>6. CASE ParseError(c) \/ LoginLost(c)
  BY <1>3, <1>6, NothingToServers DEF SameVictims, ParseError, LoginLost, wires
<1>7. CASE Eof(c)
  <2>1. conn[c] = "exited" /\ conn' = [conn EXCEPT ![c] = "closed"]
    BY <1>7 DEF Eof
  <2>2. Process' = Process
    BY <1>1, <2>1 DEF Process
  <2>3. VictimsApart' /\ dropped' = dropped
    BY <1>1, <1>2, <1>3, <1>7, <2>1 DEF VictimsApart, Eof
  <2> QED
    BY <1>3, <2>2, <2>3, DoomedSame DEF KeepsServers, ServersStep, SameVictims
<1>8. CASE Released(c)
  <2>1. c \in dropped /\ conn' = Killed(c) /\ dropped' = dropped \ {c}
    BY <1>8 DEF Released
  <2>2. /\ conn[c] # "unborn" /\ c # answer.victim
        /\ \A g \in Threads : call[g].victim # c
    BY <2>1 DEF VictimsApart
  <2>3. c # None /\ c \in Doomed
    BY <2>1 DEF Doomed, Conns, None
  <2>4. Doomed' = Doomed \ {c}
    BY <1>3, <2>1, <2>2 DEF Doomed
  <2>5. \A d \in Conns : conn[d] # "unborn" => conn'[d] # "unborn"
    BY <1>1, <2>1 DEF Killed
  <2>6. VictimsApart'
    BY <1>1, <1>2, <1>3, <2>1, <2>5 DEF VictimsApart
  <2> QED
    BY <1>1, <1>3, <2>1, <2>2, <2>3, <2>4, <2>6, KillsVictim DEF KeepsServers
<1> QED
  BY <1>5, <1>6, <1>7, <1>8 DEF Wire

LEMMA AnswerMovesOn ==
  ASSUME CodexInv, VictimsApart, Answer
  PROVE  KeepsServers
<1>1. CASE (\E a \in asks : AnswerLook(a)) \/ AnswerSend
  <2>1. UNCHANGED <<cur, conn, call, dropped>>
    BY <1>1 DEF AnswerLook, AnswerSend, engine, wires
  <2>2. answer.victim = None /\ answer'.victim = None
    <3>1. answer.pc # "shut" /\ answer'.victim = None
      <4>1. CASE \E a \in asks : AnswerLook(a)
        BY <4>1 DEF AnswerLook, NoAnswer
      <4>2. CASE AnswerSend
        BY <4>2 DEF AnswerSend, NoAnswer
      <4> QED
        BY <1>1, <4>1, <4>2
    <3> QED
      BY <3>1 DEF CodexInv, CardsFit
  <2> QED
    BY <2>1, <2>2, NothingToServers DEF SameVictims
<1>2. CASE AnswerDead
  <2>1. answer.victim = None /\ cur' = None /\ UNCHANGED <<conn, call, dropped>>
    BY <1>2 DEF CodexInv, CardsFit, AnswerDead, Forget, wires
  <2>2. answer'.victim = cur
    BY <1>2 DEF CodexInv, TypeOK, AnswerDead
  <2> QED
    BY <2>1, <2>2, AnswerTakesOut
<1>3. CASE AnswerShut
  BY <1>3, AnswerKills
<1> QED
  BY <1>1, <1>2, <1>3 DEF Answer

LEMMA ServersNext == CodexInv /\ VictimsApart /\ [Next]_vars => KeepsServers
<1> SUFFICES ASSUME CodexInv, VictimsApart, [Next]_vars PROVE KeepsServers
  OBVIOUS
<1>1. ASSUME NEW h \in Threads, Send(h) \/ Ensure(h) PROVE KeepsServers
  BY <1>1, CallMovesOn, BreakTakesOut, ReturnsToServers, OpensNext, CallKills
  DEF Ensure, BreaksOff, ReturnsNow
<1>2. ASSUME NEW h \in Threads, Start(h) \/ Stop(h) \/ EndTurn(h) PROVE KeepsServers
  BY <1>2, CallMovesOn, TurnMovesOn, AbortToServers DEF EndTurn
<1>3. ASSUME NEW h \in Threads, Receive(h) PROVE KeepsServers
  <2>1. CASE StartRefused(h)
    <3>1. \/ Return(h, call[h].done) /\ UNCHANGED <<engine, faults>>
          \/ Invalidate(h, "idle")
      BY <2>1 DEF StartRefused
    <3> QED
      BY <2>1, <3>1, ReturnsToServers, BreakTakesOut DEF ReturnsNow, BreaksOff
  <2>2. CASE RecvAuth(h)
    <3>1. CASE Belongs(h)
      <4>1. Invalidate(h, "loop")
        BY <2>2, <3>1 DEF RecvAuth
      <4> QED
        BY <2>2, <4>1, BreakTakesOut DEF BreaksOff
    <3>2. CASE ~Belongs(h)
      BY <2>2, <3>2, CallEndsAway
    <3> QED
      BY <3>1, <3>2
  <2>3. CASE ~StartRefused(h) /\ ~RecvAuth(h)
    BY <1>3, <2>3, CallMovesOn, BreakTakesOut, EndTakesOut, ReturnsToServers
    DEF Receive, BreaksOff, ReturnsNow
  <2> QED
    BY <2>1, <2>2, <2>3
<1>4. ASSUME NEW k \in Turns, Server(k) PROVE KeepsServers
  BY <1>4, AgentMovesOn
<1>5. ASSUME NEW c \in Conns, Wire(c) PROVE KeepsServers
  BY <1>5, WireMovesOn
<1>6. CASE Answer
  BY <1>6, AnswerMovesOn
<1>7. CASE UNCHANGED vars
  BY <1>7, NothingToServers DEF vars, SameVictims
<1> QED
  BY <1>1, <1>2, <1>3, <1>4, <1>5, <1>6, <1>7 DEF Next

LEMMA ServersInit == Init => VictimsApart /\ Servers!Init
<1> SUFFICES ASSUME Init PROVE VictimsApart /\ Servers!Init
  OBVIOUS
<1>1. VictimsApart /\ Doomed = {}
  BY DEF Init, VictimsApart, Doomed, NoCall, NoAnswer
<1>2. Process = [c \in Conns |-> "unborn"]
  BY DEF Init, Process
<1> QED
  BY <1>1, <1>2 DEF Servers!Init, Init

(* The engine keeps the promise of AppServers, for any number of threads,   *)
(* connections and failures: what invalidate_transport takes out of the     *)
(* state is killed, and no connection that is in use.                       *)
THEOREM ImplementsAppServers == Spec => ServersSpec
<1>1. Init => VictimsApart /\ Servers!Init
  BY ServersInit
<1>2. CodexInv /\ VictimsApart /\ [Next]_vars
        => VictimsApart' /\ [Servers!Next]_<<Process, cur, Doomed>>
  BY ServersNext DEF KeepsServers, ServersStep
<1> QED
  BY <1>1, <1>2, AlwaysInv, PTL DEF Spec, ServersSpec, Servers!Spec

=============================================================================

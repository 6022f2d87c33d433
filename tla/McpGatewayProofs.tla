-------------------------- MODULE McpGatewayProofs --------------------------
(* Proofs about McpGateway.  Leases are unique and revocations reach their *)
(* calls whatever overlaps; that a call runs in its caller's context is    *)
(* proved for turns of an instance that do not overlap.                    *)
EXTENDS McpGateway, TLAPS

(* A service holds a token that was issued, and a lease of its own.        *)
LeaseInv ==
  /\ LeasePerInstance
  /\ \A i \in Instances :
       /\ lease[i] <= issued
       /\ Registered(lease[i]) => clients[lease[i]].inst = i
  /\ \A k \in Tokens : clients[k].held => k <= issued

(* The turns of an instance follow each other.                             *)
TurnsApart ==
  \A t, u \in Turns : Open(t) /\ Open(u) /\ InstanceOf[t] = InstanceOf[u] => t = u

(* A context on a lease is that of an open turn of the lease's instance.   *)
ContextIsOpen ==
  \A k \in Tokens : clients[k].ctx # NoTurn =>
    /\ clients[k].held
    /\ Open(clients[k].ctx)
    /\ InstanceOf[clients[k].ctx] = clients[k].inst

(* A request copied its own turn's context, or none.                       *)
CopiesOwn ==
  \A r \in Requests :
    /\ reqs[r].pc = "body" => reqs[r].ctx \in {reqs[r].by, NoTurn}
    /\ reqs[r].pc = "running" => reqs[r].ctx = reqs[r].by

ContextInv == TurnsApart /\ ContextIsOpen /\ CopiesOwn

(* A token belongs to one instance, that of the turns that use it.         *)
TokensApart ==
  \A r \in Requests : reqs[r].pc # "none" =>
    /\ reqs[r].by # NoTurn
    /\ reqs[r].token <= issued
    /\ clients[reqs[r].token].held =>
         clients[reqs[r].token].inst = InstanceOf[reqs[r].by]
    /\ \A q \in Requests : reqs[q].pc # "none" /\ reqs[q].token = reqs[r].token =>
         InstanceOf[reqs[q].by] = InstanceOf[reqs[r].by]

(* The table of calls holds running ones, one under a key: those that run  *)
(* and that no other displaced, save those cancelled.                      *)
TableIsRunning ==
  /\ \A e \in active : reqs[e.req].pc = "running" /\ e = Entry(e.req)
  /\ \A r \in Requests : reqs[r].pc = "running" /\ ~reqs[r].lost =>
       /\ r \in cancelled \/ Entry(r) \in active
       /\ \A e \in active : SameKey(e, r) => e.req = r

(* A call whose lease went is cancelled, or about to be.                   *)
PurgeIsUnderWay ==
  \A r \in Requests :
    /\ reqs[r].pc = "running" /\ ~reqs[r].late /\ ~reqs[r].lost
    /\ ~clients[reqs[r].token].held
    => \/ r \in cancelled
       \/ operation \in {"startDrain", "stopDrain"}
       \/ \E i \in Instances : regs[i].pc = "purge" /\ reqs[r].token \in regs[i].old

RevokeInv == TokensApart /\ TableIsRunning /\ PurgeIsUnderWay

---------------------------------------------------------------------------
(* Types.                                                                  *)

LEMMA TypeInit == Init => TypeOK
BY GatewayAssumption DEF GatewayAssumption, Init, TypeOK, Tokens, States, NoToken, NoClient,
   Clients, Idle, NoReq, Reqs, Entries, ClearingPhases, Filled

(* Updates of one field of a record.                                       *)
LEMMA CtxUpdate ==
  ASSUME NEW c \in Clients, NEW x \in Turns \cup {NoTurn}
  PROVE  [c EXCEPT !.ctx = x] \in Clients
BY DEF Clients

LEMMA ReqUpdate ==
  ASSUME NEW q \in Reqs, NEW b \in BOOLEAN
  PROVE  [q EXCEPT !.pc = "running", !.late = b] \in Reqs
BY DEF Reqs

LEMMA LifeUpdate ==
  ASSUME NEW l \in [state : States, gen : Nat], NEW st \in States
  PROVE  /\ [l EXCEPT !.state = st] \in [state : States, gen : Nat]
         /\ [state |-> st, gen |-> l.gen + 1] \in [state : States, gen : Nat]
<1>1. l.gen + 1 \in Nat
  BY DEF States
<1> QED
  BY <1>1

Registrations == [pc : {"idle", "insert", "purge"}, gen : Nat, old : SUBSET Tokens]

LEMMA RegUpdate ==
  ASSUME NEW g \in Registrations, NEW ks \in SUBSET Tokens
  PROVE  [g EXCEPT !.pc = "purge", !.old = ks] \in Registrations
BY DEF Registrations

(* A call that enters or leaves the table marks others, and nothing else.  *)
LEMMA CallIsOneRow ==
  ASSUME reqs \in [Requests -> Reqs], NEW r \in Requests, NEW row \in Reqs
  PROVE  /\ WithCall(r, row) \in [Requests -> Reqs]
         /\ WithCall(r, row)[r] = row
         /\ \A q \in Requests : q # r =>
              WithCall(r, row)[q] = [reqs[q] EXCEPT !.lost = @ \/ Displaced(q, r)]
<1>1. ASSUME NEW q \in Requests
      PROVE  [reqs[q] EXCEPT !.lost = @ \/ Displaced(q, r)] \in Reqs
  <2>1. reqs[q] \in Reqs /\ (reqs[q].lost \/ Displaced(q, r)) \in BOOLEAN
    OBVIOUS
  <2> QED
    BY <2>1 DEF Reqs
<1> QED
  BY <1>1 DEF WithCall

(* The rest of a request stays while another call enters or leaves.        *)
KeepsRequest(q) ==
  /\ reqs'[q].pc = reqs[q].pc /\ reqs'[q].by = reqs[q].by
  /\ reqs'[q].token = reqs[q].token /\ reqs'[q].ctx = reqs[q].ctx
  /\ reqs'[q].id = reqs[q].id /\ reqs'[q].late = reqs[q].late

LEMMA OthersKeep ==
  ASSUME TypeOK, NEW r \in Requests, NEW row \in Reqs, reqs' = WithCall(r, row)
  PROVE  \A q \in Requests : q # r =>
           /\ KeepsRequest(q)
           /\ reqs'[q].lost <=> reqs[q].lost \/ Displaced(q, r)
<1>1. ASSUME NEW q \in Requests, q # r
      PROVE  /\ KeepsRequest(q)
             /\ reqs'[q].lost <=> reqs[q].lost \/ Displaced(q, r)
  <2>1. reqs \in [Requests -> Reqs] /\ reqs[q] \in Reqs
    BY DEF TypeOK
  <2>2. reqs'[q] = [reqs[q] EXCEPT !.lost = @ \/ Displaced(q, r)]
    BY <1>1, <2>1, CallIsOneRow
  <2> QED
    BY <2>1, <2>2 DEF Reqs, KeepsRequest
<1> QED
  BY <1>1

LEMMA DoneRow ==
  ASSUME NEW q \in Reqs
  PROVE  /\ Done(q) \in Reqs /\ Done(q).pc = "done" /\ Done(q).ctx = NoTurn
         /\ Done(q).by = q.by /\ Done(q).token = q.token /\ Done(q).id = q.id
BY DEF Done, Reqs

(* What the three steps of a call do to the requests.                      *)
LEMMA CallKeepsCaller ==
  ASSUME TypeOK, NEW r \in Requests, CallRefused(r) \/ CallBegin(r) \/ CallEnd(r)
  PROVE  /\ reqs' \in [Requests -> Reqs]
         /\ reqs[r].pc # "none" /\ reqs'[r].pc # "none"
         /\ reqs'[r].by = reqs[r].by /\ reqs'[r].token = reqs[r].token
         /\ reqs'[r].id = reqs[r].id
         /\ CallBegin(r) => /\ reqs'[r].pc = "running" /\ reqs'[r].ctx = reqs[r].ctx
                            /\ reqs'[r].late = ~clients[reqs[r].token].held
         /\ CallRefused(r) \/ CallEnd(r) => reqs'[r].pc = "done" /\ reqs'[r].ctx = NoTurn
         /\ \A q \in Requests : q # r =>
              /\ KeepsRequest(q)
              /\ reqs[q].lost => reqs'[q].lost
              /\ CallBegin(r) \/ CallEnd(r) => (Displaced(q, r) => reqs'[q].lost)
<1>1. reqs \in [Requests -> Reqs] /\ reqs[r] \in Reqs
  BY DEF TypeOK
<1>2. CASE CallRefused(r)
  <2>1. reqs[r].pc = "body" /\ reqs' = [reqs EXCEPT ![r] = Done(reqs[r])]
    BY <1>1, <1>2 DEF CallRefused
  <2>2. reqs' \in [Requests -> Reqs] /\ reqs'[r] = Done(reqs[r])
    BY <1>1, <2>1, DoneRow
  <2>3. \A q \in Requests : q # r => reqs'[q] = reqs[q]
    BY <1>1, <2>1
  <2>4. ~CallBegin(r) /\ ~CallEnd(r)
    BY <2>1, <2>2, <1>1, <1>2, DoneRow DEF CallRefused, CallBegin, CallEnd
  <2> QED
    BY <1>1, <2>1, <2>2, <2>3, <2>4, DoneRow DEF KeepsRequest
<1>3. CASE CallEnd(r)
  <2>1. reqs[r].pc = "running" /\ reqs' = WithCall(r, Done(reqs[r]))
    BY <1>3 DEF CallEnd
  <2>2. reqs' \in [Requests -> Reqs] /\ reqs'[r] = Done(reqs[r])
    BY <1>1, <2>1, DoneRow, CallIsOneRow
  <2>3. \A q \in Requests : q # r =>
          KeepsRequest(q) /\ (reqs'[q].lost <=> reqs[q].lost \/ Displaced(q, r))
    BY <1>1, <2>1, DoneRow, OthersKeep
  <2>4. ~CallBegin(r)
    BY <2>1 DEF CallBegin
  <2> QED
    BY <1>1, <2>1, <2>2, <2>3, <2>4, DoneRow
<1>4. CASE CallBegin(r)
  <2> DEFINE b == ~clients[reqs[r].token].held
             row == [reqs[r] EXCEPT !.pc = "running", !.late = b]
  <2>1. reqs[r].pc = "body" /\ reqs' = WithCall(r, row)
    BY <1>4 DEF CallBegin
  <2>2. /\ row \in Reqs /\ row.pc = "running" /\ row.by = reqs[r].by /\ row.token = reqs[r].token
        /\ row.id = reqs[r].id /\ row.ctx = reqs[r].ctx /\ row.late = b
    <3>1. b \in BOOLEAN
      OBVIOUS
    <3> HIDE DEF b
    <3>2. row \in Reqs
      BY <1>1, <3>1, ReqUpdate
    <3> QED
      BY <1>1, <3>2 DEF Reqs
  <2> HIDE DEF row, b
  <2>3. reqs' \in [Requests -> Reqs] /\ reqs'[r] = row
    BY <1>1, <2>1, <2>2, CallIsOneRow
  <2>4. \A q \in Requests : q # r =>
          KeepsRequest(q) /\ (reqs'[q].lost <=> reqs[q].lost \/ Displaced(q, r))
    BY <2>1, <2>2, OthersKeep
  <2>5. ~CallRefused(r) /\ ~CallEnd(r)
    BY <1>4, <2>1 DEF CallBegin, CallRefused, CallEnd
  <2> QED
    BY <1>1, <2>1, <2>2, <2>3, <2>4, <2>5 DEF b
<1> QED
  BY <1>2, <1>3, <1>4

LEMMA TypeLifecycle ==
  ASSUME TypeOK, Lifecycle
  PROVE  TypeOK'
<1> USE GatewayAssumption DEF GatewayAssumption, TypeOK, Tokens, States, ClearingPhases
<1>1. CASE StartBegin
  BY <1>1 DEF StartBegin
<1>2. CASE ShutdownBegin
  BY <1>2 DEF ShutdownBegin
<1>3. CASE ClearClients
  BY <1>3 DEF ClearClients, NoClients, NoClient, Clients
<1>4. CASE DrainCalls
  <2>1. cancelled' \subseteq Requests
    BY <1>4 DEF DrainCalls, Entries
  <2>2. life' \in [state : States, gen : Nat]
    BY <1>4 DEF DrainCalls
  <2>3. operation' \in {"bind", "free"} /\ active' = {}
    BY <1>4 DEF DrainCalls
  <2> QED
    BY <1>4, <2>1, <2>2, <2>3 DEF DrainCalls
<1>5. CASE Bind
  <2>1. life' \in [state : States, gen : Nat]
    <3>1. life \in [state : States, gen : Nat] /\ "Running" \in States /\ "Failed" \in States
      OBVIOUS
    <3> HIDE DEF States
    <3> QED
      BY <1>5, <3>1, LifeUpdate DEF Bind
  <2> QED
    BY <1>5, <2>1 DEF Bind
<1>6. CASE AcceptFails
  BY <1>6 DEF AcceptFails
<1> QED
  BY <1>1, <1>2, <1>3, <1>4, <1>5, <1>6 DEF Lifecycle

LEMMA TypeLeases ==
  ASSUME TypeOK, Leases
  PROVE  TypeOK'
<1> USE GatewayAssumption DEF GatewayAssumption, TypeOK, Tokens, NoToken
<1> PICK i \in Instances : RegisterRead(i) \/ RegisterInsert(i) \/ RevokeRemove(i) \/ Purge(i)
  BY DEF Leases
<1>1. CASE RegisterRead(i)
  BY <1>1 DEF RegisterRead
<1>2. CASE RegisterInsert(i)
  <2>1. clients' \in [Tokens -> Clients]
    BY <1>2 DEF RegisterInsert, Clients, NoClient
  <2>2. regs' \in [Instances -> [pc : {"idle", "insert", "purge"}, gen : Nat,
                                 old : SUBSET Tokens]]
    <3>1. LeasesOf(i) \in SUBSET Tokens
      BY DEF LeasesOf
    <3>2. [regs[i] EXCEPT !.pc = "purge", !.old = LeasesOf(i)] \in Registrations
      BY <3>1, RegUpdate DEF Registrations
    <3> QED
      BY <1>2, <3>2 DEF RegisterInsert, Idle, Registrations
  <2>3. \A k \in Tokens : clients'[k].held => clients'[k].inst \in Instances
    BY <1>2 DEF RegisterInsert, NoClient
  <2>4. issued' \in 0..MaxTokens /\ lease' \in [Instances -> Tokens \cup {NoToken}]
    BY <1>2 DEF RegisterInsert
  <2> QED
    BY <1>2, <2>1, <2>2, <2>3, <2>4 DEF RegisterInsert
<1>3. CASE RevokeRemove(i)
  <2>1. lease[i] \in Tokens
    BY <1>3 DEF RevokeRemove
  <2>2. clients' \in [Tokens -> Clients]
    BY <1>3, <2>1 DEF RevokeRemove, Clients, NoClient
  <2>3. regs' \in [Instances -> [pc : {"idle", "insert", "purge"}, gen : Nat,
                                 old : SUBSET Tokens]]
    BY <1>3, <2>1 DEF RevokeRemove, Idle
  <2>4. \A k \in Tokens : clients'[k].held => clients'[k].inst \in Instances
    BY <1>3, <2>1 DEF RevokeRemove, NoClient
  <2> QED
    BY <1>3, <2>2, <2>3, <2>4 DEF RevokeRemove
<1>4. CASE Purge(i)
  BY <1>4 DEF Purge, CallsOf, Entries, Idle
<1> QED
  BY <1>1, <1>2, <1>3, <1>4

LEMMA TypeTurns ==
  ASSUME TypeOK, TurnSteps
  PROVE  TypeOK'
<1> USE GatewayAssumption DEF GatewayAssumption, TypeOK, Tokens, NoToken, Registered, LeaseOf, Open
<1> PICK t \in Turns : TurnBegin(t) \/ TurnEnd(t)
  BY DEF TurnSteps
<1>1. CASE TurnBegin(t)
  <2>1. LeaseOf(t) \in Tokens
    BY <1>1 DEF TurnBegin
  <2>2. clients' \in [Tokens -> Clients]
    <3>1. [clients[LeaseOf(t)] EXCEPT !.ctx = t] \in Clients
      BY <2>1, CtxUpdate
    <3> QED
      BY <1>1, <2>1, <3>1 DEF TurnBegin
  <2>3. \A k \in Tokens : clients'[k].held = clients[k].held /\ clients'[k].inst = clients[k].inst
    BY <1>1, <2>1 DEF TurnBegin, Clients
  <2> QED
    BY <1>1, <2>2, <2>3 DEF TurnBegin
<1>2. CASE TurnEnd(t)
  <2>1. clients' \in [Tokens -> Clients]
    <3>1. CASE Registered(LeaseOf(t))
      <4>1. [clients[LeaseOf(t)] EXCEPT !.ctx = NoTurn] \in Clients
        BY <3>1, CtxUpdate
      <4> QED
        BY <1>2, <3>1, <4>1 DEF TurnEnd
    <3>2. CASE ~Registered(LeaseOf(t))
      BY <1>2, <3>2 DEF TurnEnd
    <3> QED
      BY <3>1, <3>2
  <2>2. \A k \in Tokens : clients'[k].held = clients[k].held /\ clients'[k].inst = clients[k].inst
    BY <1>2 DEF TurnEnd, Clients
  <2> QED
    BY <1>2, <2>1, <2>2 DEF TurnEnd
<1> QED
  BY <1>1, <1>2

LEMMA TypeHttp ==
  ASSUME TypeOK, Http
  PROVE  TypeOK'
<1> USE GatewayAssumption DEF GatewayAssumption, TypeOK, Tokens, NoToken, Filled
<1> PICK r \in Requests :
      \/ \E t \in Turns, k \in Tokens, id \in Ids : Authenticate(r, t, k, id)
      \/ CallRefused(r) \/ CallBegin(r) \/ CallEnd(r)
      \/ \E t \in Turns : CancelNotice(t, r)
  BY DEF Http
<1>1. ASSUME NEW t \in Turns, NEW k \in Tokens, NEW id \in Ids, Authenticate(r, t, k, id)
      PROVE  TypeOK'
  BY <1>1 DEF Authenticate, Reqs, Clients
<1>2. CASE CallRefused(r)
  <2>1. Done(reqs[r]) \in Reqs /\ Filled(Done(reqs[r]))
    BY <1>2, DoneRow DEF CallRefused
  <2> QED
    BY <1>2, <2>1 DEF CallRefused
<1>3. CASE CallBegin(r) \/ CallEnd(r)
  <2>1. reqs[r].token \in Tokens /\ reqs[r].id \in Ids
    BY <1>3 DEF CallBegin, CallEnd
  <2>2. active' \subseteq Entries
    BY <1>3, <2>1 DEF CallBegin, CallEnd, Entries, Entry
  <2>3. /\ reqs' \in [Requests -> Reqs]
        /\ \A q \in Requests : q # r => KeepsRequest(q)
        /\ reqs[r].pc # "none" /\ reqs'[r].by = reqs[r].by /\ reqs'[r].token = reqs[r].token
        /\ reqs'[r].id = reqs[r].id
    BY <1>3, CallKeepsCaller
  <2>4. \A q \in Requests : reqs'[q].pc # "none" => Filled(reqs'[q])
    BY <2>3 DEF KeepsRequest
  <2> QED
    BY <1>3, <2>2, <2>3, <2>4 DEF CallBegin, CallEnd
<1>5. ASSUME NEW t \in Turns, CancelNotice(t, r)
      PROVE  TypeOK'
  BY <1>5 DEF CancelNotice, Entries
<1> QED
  BY <1>1, <1>2, <1>3, <1>5

LEMMA TypeStep == TypeOK /\ [Next]_vars => TypeOK'
<1>1. TypeOK /\ UNCHANGED vars => TypeOK'
  BY DEF TypeOK, vars
<1> QED
  BY <1>1, TypeLifecycle, TypeLeases, TypeTurns, TypeHttp DEF Next

(* The tables keep their types whatever the constants.                     *)
THEOREM GatewayTypes == Spec => []TypeOK
BY TypeInit, TypeStep, PTL DEF Spec

---------------------------------------------------------------------------
(* Leases.                                                                 *)

LEMMA LeaseInit == Init => LeaseInv
BY GatewayAssumption DEF Init, LeaseInv, LeasePerInstance, Registered, Tokens, NoToken, NoClient

(* A turn changes the context of a lease and nothing else of it.           *)
LEMMA TurnKeepsLeases ==
  ASSUME TypeOK, NEW t \in Turns, TurnBegin(t) \/ TurnEnd(t)
  PROVE  \A k \in Tokens :
           /\ clients'[k].held = clients[k].held
           /\ clients'[k].inst = clients[k].inst
           /\ k # LeaseOf(t) => clients'[k].ctx = clients[k].ctx
BY DEF TypeOK, TurnBegin, TurnEnd, Clients, Registered, LeaseOf

LEMMA LeaseStep ==
  ASSUME TypeOK, LeaseInv, [Next]_vars
  PROVE  LeaseInv'
<1> USE GatewayAssumption DEF GatewayAssumption
<1>1. ASSUME UNCHANGED <<clients, lease, issued>>
      PROVE  LeaseInv'
  BY <1>1 DEF LeaseInv, LeasePerInstance, Registered
<1>2. CASE ClearClients
  BY <1>2 DEF ClearClients, NoClients, NoClient, LeaseInv, LeasePerInstance, Registered,
     TypeOK, Tokens, NoToken
<1>3. ASSUME NEW i \in Instances, RegisterInsert(i)
      PROVE  LeaseInv'
  <2> DEFINE n == issued + 1
  <2>1. n \in Tokens /\ issued \in Nat /\ issued' = n /\ lease' = [lease EXCEPT ![i] = n]
    BY <1>3 DEF RegisterInsert, TypeOK, Tokens
  <2>2. clients'[n] = [inst |-> i, gen |-> regs[i].gen, ctx |-> NoTurn, held |-> TRUE]
    BY <1>3, <2>1 DEF RegisterInsert
  <2>3. \A k \in Tokens : k # n /\ clients'[k].held =>
          clients'[k] = clients[k] /\ clients[k].inst # i
    BY <1>3 DEF RegisterInsert, NoClient, LeasesOf
  <2>4. \A j \in Instances : lease[j] \in Nat /\ lease[j] # n
    BY <2>1 DEF LeaseInv, TypeOK, Tokens, NoToken
  <2>5. LeasePerInstance'
    BY <2>1, <2>2, <2>3 DEF LeaseInv, LeasePerInstance, TypeOK
  <2>6. ASSUME NEW j \in Instances
        PROVE  /\ lease'[j] <= issued'
               /\ Registered(lease[j])' => clients'[lease'[j]].inst = j
    <3>1. CASE j = i
      BY <2>1, <2>2, <3>1 DEF TypeOK, Registered
    <3>2. CASE j # i
      BY <2>1, <2>3, <2>4, <3>2 DEF TypeOK, Registered, LeaseInv, NoToken
    <3> QED
      BY <3>1, <3>2
  <2>7. \A k \in Tokens : clients'[k].held => k <= issued'
    BY <2>1, <2>3 DEF LeaseInv, Tokens
  <2> QED
    BY <2>5, <2>6, <2>7 DEF LeaseInv
<1>4. ASSUME NEW i \in Instances, RevokeRemove(i)
      PROVE  LeaseInv'
  <2>1. lease[i] \in Tokens /\ lease' = [lease EXCEPT ![i] = NoToken] /\ issued' = issued
    BY <1>4 DEF RevokeRemove, TypeOK
  <2>2. \A k \in Tokens : clients'[k] = IF k = lease[i] THEN NoClient ELSE clients[k]
    BY <1>4 DEF RevokeRemove, TypeOK
  <2>3. \A k \in Tokens : clients'[k].held => k # lease[i] /\ clients'[k] = clients[k]
    BY <2>2 DEF NoClient
  <2>4. ASSUME NEW k \in Tokens, clients'[k].held
        PROVE  lease'[clients'[k].inst] = k
    <3>1. lease[clients[k].inst] = k /\ k # lease[i] /\ clients'[k] = clients[k]
      BY <2>3, <2>4 DEF LeaseInv, LeasePerInstance
    <3>2. clients[k].inst \in Instances /\ clients[k].inst # i
      BY <2>3, <2>4, <3>1 DEF TypeOK
    <3> QED
      BY <2>1, <3>1, <3>2 DEF TypeOK
  <2>5. \A j \in Instances : lease'[j] <= issued' /\ (lease'[j] = lease[j] \/ lease'[j] = NoToken)
    BY <2>1 DEF LeaseInv, TypeOK, NoToken, Tokens
  <2>6. \A j \in Instances : Registered(lease[j])' => clients'[lease'[j]].inst = j
    BY <2>3, <2>5 DEF LeaseInv, TypeOK, Registered
  <2> QED
    BY <2>1, <2>3, <2>4, <2>5, <2>6 DEF LeaseInv, LeasePerInstance
<1>5. ASSUME NEW t \in Turns, TurnBegin(t) \/ TurnEnd(t)
      PROVE  LeaseInv'
  <2>1. lease' = lease /\ issued' = issued
    BY <1>5 DEF TurnBegin, TurnEnd
  <2>2. \A k \in Tokens : clients'[k].held = clients[k].held /\ clients'[k].inst = clients[k].inst
    BY <1>5, TurnKeepsLeases
  <2>3. LeasePerInstance'
    BY <2>1, <2>2 DEF LeaseInv, LeasePerInstance
  <2>4. \A i \in Instances : Registered(lease[i])' => clients'[lease'[i]].inst = i
    <3>1. \A i \in Instances : lease[i] # NoToken => lease[i] \in Tokens
      BY DEF TypeOK
    <3> QED
      BY <2>1, <2>2, <3>1 DEF LeaseInv, Registered
  <2> QED
    BY <2>1, <2>2, <2>3, <2>4 DEF LeaseInv
<1> QED
  BY <1>1, <1>2, <1>3, <1>4, <1>5
  DEF Next, vars, Lifecycle, Leases, TurnSteps, Http, StartBegin, ShutdownBegin, DrainCalls,
      Bind, AcceptFails, RegisterRead, Purge, Authenticate, CallRefused, CallBegin, CallEnd,
      CancelNotice

(* One lease per instance, whatever registrations, revocations and         *)
(* restarts overlap.                                                       *)
THEOREM OneLease == Spec => []LeasePerInstance
<1>1. Spec => [](TypeOK /\ LeaseInv)
  BY TypeInit, TypeStep, LeaseInit, LeaseStep, PTL DEF Spec
<1>2. LeaseInv => LeasePerInstance
  BY DEF LeaseInv
<1> QED
  BY <1>1, <1>2, PTL

---------------------------------------------------------------------------
(* Contexts, for turns of an instance that follow each other.              *)

LEMMA ContextInit == Init => ContextInv
BY GatewayAssumption DEF GatewayAssumption, Init, ContextInv, TurnsApart, ContextIsOpen,
   CopiesOwn, Open, NoClient, NoReq

LEMMA TurnsApartStep ==
  ASSUME TypeOK, TurnsApart, ~Overlap, NEW t \in Turns, TurnBegin(t) \/ TurnEnd(t)
  PROVE  TurnsApart'
<1>1. \A u \in Turns : u # t => (Open(u)' <=> Open(u))
  BY DEF TurnBegin, TurnEnd, Open, TypeOK
<1>2. CASE TurnBegin(t)
  BY <1>1, <1>2 DEF TurnBegin, TurnsApart
<1>3. CASE TurnEnd(t)
  <2>1. Open(t)
    BY <1>3 DEF TurnEnd
  <2> QED
    BY <1>1, <2>1 DEF TurnsApart
<1> QED
  BY <1>2, <1>3

LEMMA ContextIsOpenStep ==
  ASSUME TypeOK, LeaseInv, ContextIsOpen, NEW t \in Turns, TurnBegin(t) \/ TurnEnd(t)
  PROVE  ContextIsOpen'
<1> DEFINE n == LeaseOf(t)
<1>1. InstanceOf[t] \in Instances
  BY GatewayAssumption DEF GatewayAssumption
<1>2. \A u \in Turns : u # t => (turns'[u] \in {"on"} <=> Open(u))
  BY DEF TurnBegin, TurnEnd, Open, TypeOK
<1>3. CASE TurnBegin(t)
  <2>1. n \in Tokens /\ clients[n].held /\ clients[n].inst = InstanceOf[t]
    BY <1>1, <1>3 DEF TurnBegin, Registered, LeaseOf, LeaseInv, TypeOK
  <2>2. clients'[n].ctx = t /\ turns'[t] \in {"on"}
    BY <1>3, <2>1 DEF TurnBegin, TypeOK, Clients, Open
  <2>3. \A k \in Tokens : clients[k].ctx = t => Open(t)
    BY GatewayAssumption DEF GatewayAssumption, ContextIsOpen
  <2>4. ~Open(t)
    BY <1>3 DEF TurnBegin, Open
  <2>5. ASSUME NEW k \in Tokens, k # n, clients'[k].ctx # NoTurn
        PROVE  /\ clients'[k].held /\ turns'[clients'[k].ctx] \in {"on"}
               /\ InstanceOf[clients'[k].ctx] = clients'[k].inst
    <3>1. /\ clients'[k].held = clients[k].held /\ clients'[k].inst = clients[k].inst
          /\ clients'[k].ctx = clients[k].ctx
      BY <2>5, TurnKeepsLeases
    <3>2. clients[k].ctx \in Turns \cup {NoTurn}
      BY DEF TypeOK, Clients
    <3> QED
      BY <1>2, <2>3, <2>4, <2>5, <3>1, <3>2 DEF ContextIsOpen
  <2>6. clients'[n].held /\ clients'[n].inst = InstanceOf[t]
    BY <2>1, TurnKeepsLeases
  <2> QED
    BY <2>2, <2>5, <2>6 DEF ContextIsOpen, Open
<1>4. CASE TurnEnd(t)
  <2>1. ASSUME NEW k \in Tokens, clients'[k].ctx # NoTurn
        PROVE  /\ clients'[k].held /\ turns'[clients'[k].ctx] \in {"on"}
               /\ InstanceOf[clients'[k].ctx] = clients'[k].inst
    <3>1. k # n
      <4>1. SUFFICES ASSUME k = n
                     PROVE  FALSE
        OBVIOUS
      <4>2. CASE Registered(n)
        BY <1>4, <2>1, <4>1, <4>2 DEF TurnEnd, TypeOK, Clients
      <4>3. CASE ~Registered(n)
        <5>1. clients'[k] = clients[k] /\ ~clients[k].held
          BY <1>4, <4>1, <4>3 DEF TurnEnd, Registered, Tokens, NoToken
        <5> QED
          BY <2>1, <5>1 DEF ContextIsOpen
      <4> QED
        BY <4>2, <4>3
    <3>2. /\ clients'[k].held = clients[k].held /\ clients'[k].inst = clients[k].inst
          /\ clients'[k].ctx = clients[k].ctx
      BY <3>1, TurnKeepsLeases
    <3>3. /\ clients[k].held /\ Open(clients[k].ctx)
          /\ InstanceOf[clients[k].ctx] = clients[k].inst
      BY <2>1, <3>2 DEF ContextIsOpen
    <3>4. clients[k].ctx # t
      BY <3>1, <3>3 DEF LeaseInv, LeasePerInstance, LeaseOf
    <3>5. clients[k].ctx \in Turns
      BY <2>1, <3>2 DEF TypeOK, Clients
    <3> QED
      BY <1>2, <3>2, <3>3, <3>4, <3>5
  <2> QED
    BY <2>1 DEF ContextIsOpen, Open
<1> QED
  BY <1>3, <1>4

LEMMA CopiesOwnStep ==
  ASSUME TypeOK, TurnsApart, ContextIsOpen, CopiesOwn, Http
  PROVE  CopiesOwn'
<1> PICK r \in Requests :
      \/ \E t \in Turns, k \in Tokens, id \in Ids : Authenticate(r, t, k, id)
      \/ CallRefused(r) \/ CallBegin(r) \/ CallEnd(r)
      \/ \E t \in Turns : CancelNotice(t, r)
  BY DEF Http
<1>1. ASSUME NEW t \in Turns, NEW k \in Tokens, NEW id \in Ids, Authenticate(r, t, k, id)
      PROVE  CopiesOwn'
  <2>1. Open(t) /\ clients[k].inst = InstanceOf[t]
    BY <1>1 DEF Authenticate, Open
  <2>2. clients[k].ctx \in {t, NoTurn}
    <3>1. clients[k].ctx \in Turns \cup {NoTurn}
      BY DEF TypeOK, Clients
    <3> QED
      BY <2>1, <3>1 DEF ContextIsOpen, TurnsApart
  <2>3. /\ reqs'[r].pc = "body" /\ reqs'[r].by = t /\ reqs'[r].ctx = clients[k].ctx
        /\ \A q \in Requests : q # r => reqs'[q] = reqs[q]
    BY <1>1 DEF Authenticate, TypeOK
  <2> QED
    BY <2>2, <2>3 DEF CopiesOwn
<1>2. CASE CallRefused(r) \/ CallEnd(r)
  <2>1. reqs'[r].pc = "done" /\ \A q \in Requests : q # r => KeepsRequest(q)
    BY <1>2, CallKeepsCaller
  <2> QED
    BY <2>1 DEF CopiesOwn, KeepsRequest
<1>3. CASE CallBegin(r)
  <2>1. reqs[r].pc = "body" /\ reqs[r].ctx # NoTurn
    BY <1>3 DEF CallBegin
  <2>2. /\ reqs'[r].ctx = reqs[r].ctx /\ reqs'[r].by = reqs[r].by /\ reqs'[r].pc = "running"
        /\ \A q \in Requests : q # r => KeepsRequest(q)
    BY <1>3, CallKeepsCaller
  <2> QED
    BY <2>1, <2>2 DEF CopiesOwn, KeepsRequest
<1>4. ASSUME NEW t \in Turns, CancelNotice(t, r)
      PROVE  CopiesOwn'
  BY <1>4 DEF CancelNotice, CopiesOwn
<1> QED
  BY <1>1, <1>2, <1>3, <1>4

LEMMA ContextStep ==
  ASSUME TypeOK, LeaseInv, ContextInv, ~Overlap, [Next]_vars
  PROVE  ContextInv'
<1>1. ASSUME UNCHANGED <<clients, turns, reqs>>
      PROVE  ContextInv'
  BY <1>1 DEF ContextInv, TurnsApart, ContextIsOpen, CopiesOwn, Open
<1>2. CASE ClearClients
  BY <1>2 DEF ClearClients, NoClients, NoClient, ContextInv, TurnsApart, ContextIsOpen,
     CopiesOwn, Open
<1>3. ASSUME NEW i \in Instances, RegisterInsert(i) \/ RevokeRemove(i)
      PROVE  ContextInv'
  <2>1. UNCHANGED <<turns, reqs>>
    BY <1>3 DEF RegisterInsert, RevokeRemove
  <2>2. \A k \in Tokens : clients'[k].ctx # NoTurn => clients'[k] = clients[k]
    BY <1>3 DEF RegisterInsert, RevokeRemove, NoClient, TypeOK
  <2> QED
    BY <2>1, <2>2 DEF ContextInv, TurnsApart, ContextIsOpen, CopiesOwn, Open
<1>4. ASSUME NEW t \in Turns, TurnBegin(t) \/ TurnEnd(t)
      PROVE  ContextInv'
  <2>1. reqs' = reqs
    BY <1>4 DEF TurnBegin, TurnEnd
  <2> QED
    BY <1>4, <2>1, TurnsApartStep, ContextIsOpenStep DEF ContextInv, CopiesOwn
<1>5. CASE Http
  <2>1. UNCHANGED <<clients, turns>>
    BY <1>5 DEF Http, Authenticate, CallRefused, CallBegin, CallEnd, CancelNotice
  <2> QED
    BY <1>5, <2>1, CopiesOwnStep DEF ContextInv, TurnsApart, ContextIsOpen, Open
<1> QED
  BY <1>1, <1>2, <1>3, <1>4, <1>5
  DEF Next, vars, Lifecycle, Leases, TurnSteps, StartBegin, ShutdownBegin, DrainCalls,
      Bind, AcceptFails, RegisterRead, Purge

(* When the turns of an instance follow each other, a tool runs in the     *)
(* context of the turn that called it, though its lease was replaced or    *)
(* its turn ended between the authentication and the dispatch.             *)
THEOREM CallersContext ==
  ASSUME ~Overlap
  PROVE  Spec => []ContextIsCallers
<1>1. Init => TypeOK /\ LeaseInv /\ ContextInv
  BY TypeInit, LeaseInit, ContextInit
<1>2. TypeOK /\ LeaseInv /\ ContextInv /\ [Next]_vars => (TypeOK /\ LeaseInv /\ ContextInv)'
  BY TypeStep, LeaseStep, ContextStep
<1>3. ContextInv => ContextIsCallers
  BY DEF ContextInv, CopiesOwn, ContextIsCallers
<1> QED
  BY <1>1, <1>2, <1>3, PTL DEF Spec

---------------------------------------------------------------------------
(* Contexts and CLIs, whatever overlaps.                                   *)

(* A request copied a context of its caller's CLI, or none.                *)
CopiesOfCli ==
  \A r \in Requests : reqs[r].ctx # NoTurn =>
    InstanceOf[reqs[r].ctx] = InstanceOf[reqs[r].by]

CliInv == ContextIsOpen /\ CopiesOfCli

LEMMA CopiesOfCliStep ==
  ASSUME TypeOK, ContextIsOpen, CopiesOfCli, Http
  PROVE  CopiesOfCli'
<1> PICK r \in Requests :
      \/ \E t \in Turns, k \in Tokens, id \in Ids : Authenticate(r, t, k, id)
      \/ CallRefused(r) \/ CallBegin(r) \/ CallEnd(r)
      \/ \E t \in Turns : CancelNotice(t, r)
  BY DEF Http
<1>1. ASSUME NEW t \in Turns, NEW k \in Tokens, NEW id \in Ids, Authenticate(r, t, k, id)
      PROVE  CopiesOfCli'
  <2>1. clients[k].ctx # NoTurn => InstanceOf[clients[k].ctx] = InstanceOf[t]
    BY <1>1 DEF Authenticate, ContextIsOpen
  <2>2. /\ reqs'[r].by = t /\ reqs'[r].ctx = clients[k].ctx
        /\ \A q \in Requests : q # r => reqs'[q] = reqs[q]
    BY <1>1 DEF Authenticate, TypeOK
  <2> QED
    BY <2>1, <2>2 DEF CopiesOfCli
<1>2. CASE CallRefused(r) \/ CallBegin(r) \/ CallEnd(r)
  <2>1. /\ \A q \in Requests : q # r => KeepsRequest(q)
        /\ reqs'[r].ctx \in {reqs[r].ctx, NoTurn} /\ reqs'[r].by = reqs[r].by
    BY <1>2, CallKeepsCaller
  <2> QED
    BY <2>1 DEF CopiesOfCli, KeepsRequest
<1>3. ASSUME NEW t \in Turns, CancelNotice(t, r)
      PROVE  CopiesOfCli'
  BY <1>3 DEF CancelNotice, CopiesOfCli
<1> QED
  BY <1>1, <1>2, <1>3

LEMMA CliStep ==
  ASSUME TypeOK, LeaseInv, CliInv, [Next]_vars
  PROVE  CliInv'
<1>1. ASSUME UNCHANGED <<clients, turns, reqs>>
      PROVE  CliInv'
  BY <1>1 DEF CliInv, ContextIsOpen, CopiesOfCli, Open
<1>2. ASSUME UNCHANGED <<turns, reqs>>,
             \A k \in Tokens : clients'[k].ctx # NoTurn => clients'[k] = clients[k]
      PROVE  CliInv'
  BY <1>2 DEF CliInv, ContextIsOpen, CopiesOfCli, Open
<1>3. CASE ClearClients
  BY <1>2, <1>3 DEF ClearClients, NoClients, NoClient
<1>4. ASSUME NEW i \in Instances, RegisterInsert(i) \/ RevokeRemove(i)
      PROVE  CliInv'
  <2>1. UNCHANGED <<turns, reqs>>
    BY <1>4 DEF RegisterInsert, RevokeRemove
  <2>2. \A k \in Tokens : clients'[k].ctx # NoTurn => clients'[k] = clients[k]
    BY <1>4 DEF RegisterInsert, RevokeRemove, NoClient, TypeOK
  <2> QED
    BY <1>2, <2>1, <2>2
<1>5. ASSUME NEW t \in Turns, TurnBegin(t) \/ TurnEnd(t)
      PROVE  CliInv'
  <2>1. reqs' = reqs
    BY <1>5 DEF TurnBegin, TurnEnd
  <2> QED
    BY <1>5, <2>1, ContextIsOpenStep DEF CliInv, CopiesOfCli
<1>6. CASE Http
  <2>1. UNCHANGED <<clients, turns>>
    BY <1>6 DEF Http, Authenticate, CallRefused, CallBegin, CallEnd, CancelNotice
  <2> QED
    BY <1>6, <2>1, CopiesOfCliStep DEF CliInv, ContextIsOpen, Open
<1> QED
  BY <1>1, <1>3, <1>4, <1>5, <1>6
  DEF Next, vars, Lifecycle, Leases, TurnSteps, StartBegin, ShutdownBegin, DrainCalls,
      Bind, AcceptFails, RegisterRead, Purge

(* A context never leaves its CLI, and never outlives its turn on a lease, *)
(* overlapping turns, registrations and restarts included.                 *)
THEOREM ContextOfOneCli == Spec => []ContextStaysWithCli
<1>1. Init => TypeOK /\ LeaseInv /\ CliInv
  BY TypeInit, LeaseInit, ContextInit DEF ContextInv, CliInv, CopiesOfCli, Init, NoReq
<1>2. TypeOK /\ LeaseInv /\ CliInv /\ [Next]_vars => (TypeOK /\ LeaseInv /\ CliInv)'
  BY TypeStep, LeaseStep, CliStep
<1>3. CliInv => ContextStaysWithCli
  BY DEF CliInv, ContextIsOpen, CopiesOfCli, ContextStaysWithCli
<1> QED
  BY <1>1, <1>2, <1>3, PTL DEF Spec

---------------------------------------------------------------------------
(* Revocation, whatever overlaps.                                          *)

LEMMA RevokeInit == Init => RevokeInv
BY DEF Init, RevokeInv, TokensApart, TableIsRunning, PurgeIsUnderWay, NoReq

(* What a new request looks like.                                          *)
LEMMA NewRequest ==
  ASSUME TypeOK, LeaseInv, NEW r \in Requests, NEW t \in Turns,
         NEW k \in Tokens, NEW id \in Ids, Authenticate(r, t, k, id)
  PROVE  /\ reqs[r].pc = "none" /\ reqs'[r].pc = "body"
         /\ reqs'[r].by = t /\ reqs'[r].token = k /\ reqs'[r].id = id
         /\ clients[k].held /\ clients[k].inst = InstanceOf[t] /\ k <= issued
         /\ \A q \in Requests : q # r => reqs'[q] = reqs[q]
BY DEF Authenticate, Registered, LeaseInv, TypeOK

LEMMA TokensApartStep ==
  ASSUME TypeOK, LeaseInv, TokensApart, [Next]_vars
  PROVE  TokensApart'
<1> USE GatewayAssumption DEF GatewayAssumption
<1>1. ASSUME UNCHANGED <<clients, issued, reqs>>
      PROVE  TokensApart'
  BY <1>1 DEF TokensApart
<1>2. CASE ClearClients
  BY <1>2 DEF ClearClients, NoClients, NoClient, TokensApart, TypeOK, Filled
<1>3. ASSUME NEW i \in Instances, RegisterInsert(i)
      PROVE  TokensApart'
  <2>1. issued \in Nat /\ issued' = issued + 1 /\ reqs' = reqs
    BY <1>3 DEF RegisterInsert, TypeOK
  <2>2. \A k \in Tokens : k # issued + 1 /\ clients'[k].held => clients'[k] = clients[k]
    BY <1>3 DEF RegisterInsert, NoClient
  <2>3. \A r \in Requests : reqs[r].pc # "none" => reqs[r].token \in Tokens /\ reqs[r].token # issued + 1
    BY <2>1 DEF TokensApart, TypeOK, Filled, Tokens
  <2> QED
    BY <2>1, <2>2, <2>3 DEF TokensApart, Tokens
<1>4. ASSUME NEW i \in Instances, RevokeRemove(i)
      PROVE  TokensApart'
  <2>1. issued' = issued /\ reqs' = reqs
    BY <1>4 DEF RevokeRemove
  <2>2. \A k \in Tokens : clients'[k].held => clients'[k] = clients[k]
    BY <1>4 DEF RevokeRemove, NoClient, TypeOK
  <2>3. \A r \in Requests : reqs[r].pc # "none" => reqs[r].token \in Tokens
    BY DEF TypeOK, Filled
  <2> QED
    BY <2>1, <2>2, <2>3 DEF TokensApart
<1>5. ASSUME NEW t \in Turns, TurnBegin(t) \/ TurnEnd(t)
      PROVE  TokensApart'
  <2>1. issued' = issued /\ reqs' = reqs
    BY <1>5 DEF TurnBegin, TurnEnd
  <2>2. \A r \in Requests : reqs[r].pc # "none" => reqs[r].token \in Tokens
    BY DEF TypeOK, Filled
  <2> QED
    BY <1>5, <2>1, <2>2, TurnKeepsLeases DEF TokensApart
<1>6. ASSUME NEW r \in Requests, CallRefused(r) \/ CallBegin(r) \/ CallEnd(r)
      PROVE  TokensApart'
  <2>1. UNCHANGED <<clients, issued>>
    BY <1>6 DEF CallRefused, CallBegin, CallEnd
  <2> QED
    BY <1>6, <2>1, CallKeepsCaller DEF TokensApart, KeepsRequest
<1>7. ASSUME NEW r \in Requests, NEW t \in Turns, NEW k \in Tokens, NEW id \in Ids,
             Authenticate(r, t, k, id)
      PROVE  TokensApart'
  <2>1. UNCHANGED <<clients, issued>>
    BY <1>7 DEF Authenticate
  <2>2. t # NoTurn
    OBVIOUS
  <2> QED
    BY <1>7, <2>1, <2>2, NewRequest DEF TokensApart
<1> QED
  BY <1>1, <1>2, <1>3, <1>4, <1>5, <1>6, <1>7
  DEF Next, vars, Lifecycle, Leases, TurnSteps, Http, StartBegin, ShutdownBegin, DrainCalls,
      Bind, AcceptFails, RegisterRead, Purge, CancelNotice

LEMMA TableIsRunningStep ==
  ASSUME TypeOK, TableIsRunning, [Next]_vars
  PROVE  TableIsRunning'
<1> USE DEF TableIsRunning
<1>1. ASSUME UNCHANGED <<active, reqs>>, cancelled \subseteq cancelled'
      PROVE  TableIsRunning'
  BY <1>1 DEF Entry, SameKey
<1>2. CASE DrainCalls
  <2>1. active' = {} /\ reqs' = reqs /\ cancelled' = cancelled \cup {e.req : e \in active}
    BY <1>2 DEF DrainCalls
  <2>2. \A r \in Requests : Entry(r).req = r
    BY DEF Entry
  <2> QED
    BY <2>1, <2>2
<1>3. ASSUME NEW r \in Requests, NEW t \in Turns, NEW k \in Tokens, NEW id \in Ids,
             Authenticate(r, t, k, id)
      PROVE  TableIsRunning'
  <2>1. /\ UNCHANGED <<active, cancelled>> /\ reqs[r].pc = "none" /\ reqs'[r].pc = "body"
        /\ \A q \in Requests : q # r => reqs'[q] = reqs[q]
    BY <1>3 DEF Authenticate, TypeOK
  <2>2. \A e \in active : e.req \in Requests
    BY DEF TypeOK, Entries
  <2> QED
    BY <2>1, <2>2 DEF Entry, SameKey
<1>4. ASSUME NEW r \in Requests, CallRefused(r)
      PROVE  TableIsRunning'
  <2>1. UNCHANGED <<active, cancelled>> /\ reqs[r].pc = "body"
    BY <1>4 DEF CallRefused
  <2>2. /\ reqs'[r].pc = "done"
        /\ \A q \in Requests : q # r => KeepsRequest(q) /\ (reqs[q].lost => reqs'[q].lost)
    BY <1>4, CallKeepsCaller
  <2>3. \A e \in active : e.req \in Requests
    BY DEF TypeOK, Entries
  <2> QED
    BY <2>1, <2>2, <2>3 DEF Entry, SameKey, KeepsRequest
<1>5. ASSUME NEW r \in Requests, CallBegin(r) \/ CallEnd(r)
      PROVE  TableIsRunning'
  <2>1. /\ active' = {e \in active : ~SameKey(e, r)} \cup (IF CallBegin(r) THEN {Entry(r)} ELSE {})
        /\ cancelled' = cancelled
    <3>1. CASE CallBegin(r)
      BY <3>1 DEF CallBegin
    <3>2. CASE CallEnd(r)
      <4>1. reqs[r].pc = "running"
        BY <3>2 DEF CallEnd
      <4>2. ~CallBegin(r)
        BY <4>1 DEF CallBegin
      <4> QED
        BY <3>2, <4>2 DEF CallEnd
    <3> QED
      BY <1>5, <3>1, <3>2
  <2>2. /\ CallBegin(r) => reqs'[r].pc = "running"
        /\ ~CallBegin(r) => reqs'[r].pc = "done"
    BY <1>5, CallKeepsCaller
  <2>3. \A q \in Requests : q # r => KeepsRequest(q)
    BY <1>5, CallKeepsCaller
  <2>4. \A q \in Requests : q # r /\ ~reqs'[q].lost => ~reqs[q].lost /\ ~Displaced(q, r)
    BY <1>5, CallKeepsCaller
  <2>5. /\ reqs'[r].token = reqs[r].token /\ reqs'[r].id = reqs[r].id
    BY <1>5, CallKeepsCaller
  <2>6. /\ \A q \in Requests : Entry(q)' = Entry(q)
        /\ \A q \in Requests : Entry(q).req = q /\ Entry(q).token = reqs[q].token /\ Entry(q).id = reqs[q].id
        /\ \A q \in Requests : \A e : SameKey(e, q)' <=> SameKey(e, q)
    BY <2>3, <2>5 DEF Entry, KeepsRequest, SameKey
  <2>7. /\ \A e \in active : e.req \in Requests /\ reqs[e.req].pc = "running" /\ e = Entry(e.req)
        /\ \A e \in active' : e \in active \/ (e = Entry(r) /\ CallBegin(r))
    BY <2>1 DEF TypeOK, Entries
  <2>8. \A e \in active' : reqs'[e.req].pc = "running" /\ e = Entry(e.req) /\ e.req \in Requests
    <3>1. ASSUME NEW e \in active', e.req # r
          PROVE  reqs'[e.req].pc = "running" /\ e = Entry(e.req) /\ e.req \in Requests
      BY <2>3, <2>6, <2>7, <3>1 DEF KeepsRequest
    <3>2. ASSUME NEW e \in active', e.req = r
          PROVE  reqs'[e.req].pc = "running" /\ e = Entry(e.req) /\ e.req \in Requests
      <4>1. CASE e = Entry(r) /\ CallBegin(r)
        BY <2>2, <2>6, <4>1
      <4>2. CASE e \in active
        <5>1. e = Entry(r) /\ SameKey(e, r)
          BY <2>7, <3>2, <4>2 DEF SameKey, Entry
        <5>2. CallBegin(r)
          BY <2>1, <3>2, <5>1
        <5> QED
          BY <2>2, <3>2, <5>1, <5>2
      <4> QED
        BY <2>7, <4>1, <4>2
    <3> QED
      BY <3>1, <3>2
  <2>9. ASSUME NEW q \in Requests, reqs'[q].pc = "running", ~reqs'[q].lost
        PROVE  /\ q \in cancelled' \/ Entry(q) \in active'
               /\ \A e \in active' : SameKey(e, q) => e.req = q
    <3>1. CASE q = r
      <4>1. CallBegin(r)
        BY <2>2, <2>9, <3>1
      <4> QED
        BY <2>1, <2>6, <3>1, <4>1
    <3>2. CASE q # r
      <4>1. reqs[q].pc = "running" /\ ~reqs[q].lost /\ ~Displaced(q, r)
        BY <2>3, <2>4, <2>9, <3>2 DEF KeepsRequest
      <4>2. ~SameKey(Entry(q), r) /\ ~SameKey(Entry(r), q)
        BY <3>2, <4>1 DEF Displaced, SameKey, Entry
      <4> QED
        BY <2>1, <2>7, <4>1, <4>2
    <3> QED
      BY <3>1, <3>2
  <2> QED
    BY <2>6, <2>8, <2>9
<1> QED
  BY <1>1, <1>2, <1>3, <1>4, <1>5
  DEF Next, vars, Lifecycle, Leases, TurnSteps, Http, StartBegin, ShutdownBegin, ClearClients,
      Bind, AcceptFails, RegisterRead, RegisterInsert, RevokeRemove, Purge,
      TurnBegin, TurnEnd, CancelNotice

LEMMA PurgeIsUnderWayStep ==
  ASSUME TypeOK, LeaseInv, TableIsRunning, PurgeIsUnderWay, [Next]_vars
  PROVE  PurgeIsUnderWay'
<1> USE DEF PurgeIsUnderWay
<1>0. /\ \A r \in Requests : reqs[r].pc # "none" => reqs[r].token \in Tokens
      /\ \A r \in Requests : reqs[r].pc = "running" /\ ~reqs[r].lost =>
           r \in cancelled \/ Entry(r) \in active
      /\ \A r \in Requests : Entry(r).req = r /\ Entry(r).token = reqs[r].token
  BY DEF TypeOK, Filled, TableIsRunning, Entry
<1>1. ASSUME UNCHANGED <<clients, reqs, operation, regs>>, cancelled \subseteq cancelled'
      PROVE  PurgeIsUnderWay'
  BY <1>1
<1>2. CASE StartBegin \/ ShutdownBegin \/ Bind
  <2>1. UNCHANGED <<clients, reqs, cancelled, regs>> /\ operation \notin {"startDrain", "stopDrain"}
    BY <1>2 DEF StartBegin, ShutdownBegin, Bind
  <2> QED
    BY <2>1
<1>3. CASE ClearClients
  BY <1>3 DEF ClearClients
<1>4. CASE DrainCalls
  <2>1. reqs' = reqs /\ cancelled' = cancelled \cup {e.req : e \in active}
    BY <1>4 DEF DrainCalls
  <2> QED
    BY <1>0, <2>1
<1>5. ASSUME NEW i \in Instances, RegisterRead(i)
      PROVE  PurgeIsUnderWay'
  BY <1>5 DEF RegisterRead, TypeOK
<1>6. ASSUME NEW i \in Instances, RegisterInsert(i)
      PROVE  PurgeIsUnderWay'
  <2>1. UNCHANGED <<reqs, operation, cancelled>> /\ regs[i].pc = "insert"
    BY <1>6 DEF RegisterInsert
  <2>2. \A k \in Tokens : ~clients'[k].held => ~clients[k].held \/ k \in LeasesOf(i)
    BY <1>6 DEF RegisterInsert
  <2>3. LeasesOf(i) # {} => regs'[i].pc = "purge" /\ regs'[i].old = LeasesOf(i)
    BY <1>6 DEF RegisterInsert, TypeOK
  <2>4. \A j \in Instances : j # i => regs'[j] = regs[j]
    BY <1>6 DEF RegisterInsert, TypeOK
  <2> QED
    BY <1>0, <2>1, <2>2, <2>3, <2>4
<1>7. ASSUME NEW i \in Instances, RevokeRemove(i)
      PROVE  PurgeIsUnderWay'
  <2>1. UNCHANGED <<reqs, operation, cancelled>> /\ regs[i].pc = "idle" /\ lease[i] \in Tokens
    BY <1>7 DEF RevokeRemove, TypeOK
  <2>2. \A k \in Tokens : ~clients'[k].held => ~clients[k].held \/ k = lease[i]
    BY <1>7 DEF RevokeRemove, TypeOK
  <2>3. clients[lease[i]].held => regs'[i].pc = "purge" /\ regs'[i].old = {lease[i]}
    BY <1>7 DEF RevokeRemove, TypeOK
  <2>4. \A j \in Instances : j # i => regs'[j] = regs[j]
    BY <1>7 DEF RevokeRemove, TypeOK
  <2> QED
    BY <1>0, <2>1, <2>2, <2>3, <2>4
<1>8. ASSUME NEW i \in Instances, Purge(i)
      PROVE  PurgeIsUnderWay'
  <2>1. /\ UNCHANGED <<clients, reqs, operation>>
        /\ cancelled' = cancelled \cup CallsOf(regs[i].old)
        /\ \A j \in Instances : j # i => regs'[j] = regs[j]
    BY <1>8 DEF Purge, TypeOK
  <2>2. \A r \in Requests : Entry(r) \in active /\ reqs[r].token \in regs[i].old => r \in cancelled'
    BY <1>0, <2>1 DEF CallsOf
  <2> QED
    BY <1>0, <2>1, <2>2
<1>9. ASSUME NEW t \in Turns, TurnBegin(t) \/ TurnEnd(t)
      PROVE  PurgeIsUnderWay'
  <2>1. UNCHANGED <<reqs, operation, cancelled, regs>>
    BY <1>9 DEF TurnBegin, TurnEnd
  <2> QED
    BY <1>0, <1>9, <2>1, TurnKeepsLeases
<1>10. ASSUME NEW r \in Requests, NEW t \in Turns, NEW k \in Tokens, NEW id \in Ids,
              Authenticate(r, t, k, id)
       PROVE  PurgeIsUnderWay'
  BY <1>10 DEF Authenticate, TypeOK
<1>11. ASSUME NEW r \in Requests, CallRefused(r) \/ CallBegin(r) \/ CallEnd(r)
       PROVE  PurgeIsUnderWay'
  <2>1. UNCHANGED <<clients, operation, cancelled, regs>>
    BY <1>11 DEF CallRefused, CallBegin, CallEnd
  <2>2. /\ reqs'[r].token = reqs[r].token
        /\ reqs'[r].pc = "done" \/ (~reqs'[r].late => clients[reqs[r].token].held)
    BY <1>11, CallKeepsCaller
  <2>3. \A q \in Requests : q # r => KeepsRequest(q) /\ (reqs[q].lost => reqs'[q].lost)
    BY <1>11, CallKeepsCaller
  <2>4. ~(/\ reqs'[r].pc = "running" /\ ~reqs'[r].late
          /\ ~clients'[reqs'[r].token].held)
    BY <2>1, <2>2
  <2> QED
    BY <2>1, <2>3, <2>4 DEF KeepsRequest
<1> QED
  BY <1>1, <1>2, <1>3, <1>4, <1>5, <1>6, <1>7, <1>8, <1>9, <1>10, <1>11
  DEF Next, vars, Lifecycle, Leases, TurnSteps, Http, AcceptFails, CancelNotice

(* Revoking a lease - by its service, by a registration or by a restart -  *)
(* cancels every call that was entered under it, whatever overlaps, unless *)
(* a call under the same key took its entry.                               *)
THEOREM RevocationReaches == Spec => []RevokeReachesCalls
<1>1. Init => TypeOK /\ LeaseInv /\ RevokeInv
  BY TypeInit, LeaseInit, RevokeInit
<1>2. TypeOK /\ LeaseInv /\ RevokeInv /\ [Next]_vars => (TypeOK /\ LeaseInv /\ RevokeInv)'
  BY TypeStep, LeaseStep, TokensApartStep, TableIsRunningStep,
     PurgeIsUnderWayStep DEF RevokeInv
<1>3. TypeOK /\ RevokeInv => RevokeReachesCalls
  BY DEF RevokeInv, PurgeIsUnderWay, RevokeReachesCalls, Clearing, ClearingPhases
<1> QED
  BY <1>1, <1>2, <1>3, PTL DEF Spec

---------------------------------------------------------------------------
(* Cancellations.                                                          *)

(* A request nobody made has no author.                                    *)
AuthorsMade == \A r \in Requests : reqs[r].pc = "none" => reqs[r].by = NoTurn

LEMMA AuthorsMadeStep ==
  ASSUME TypeOK, AuthorsMade, [Next]_vars
  PROVE  AuthorsMade'
<1>1. reqs \in [Requests -> Reqs]
  BY DEF TypeOK
<1>2. CASE reqs' = reqs
  BY <1>2 DEF AuthorsMade
<1>3. ASSUME NEW r \in Requests, NEW q, reqs' = [reqs EXCEPT ![r] = q], q.pc # "none"
      PROVE  AuthorsMade'
  BY <1>1, <1>3 DEF AuthorsMade
<1>4. ASSUME NEW r \in Requests, NEW t \in Turns, NEW k \in Tokens, NEW id \in Ids,
             Authenticate(r, t, k, id)
      PROVE  AuthorsMade'
  <2> DEFINE q == [pc |-> "body", by |-> t, token |-> k, ctx |-> clients[k].ctx,
                   id |-> id, late |-> FALSE, lost |-> FALSE]
  <2>1. reqs' = [reqs EXCEPT ![r] = q] /\ q.pc # "none"
    BY <1>4 DEF Authenticate
  <2> QED
    BY <1>3, <2>1
<1>5. ASSUME NEW r \in Requests, CallRefused(r) \/ CallBegin(r) \/ CallEnd(r)
      PROVE  AuthorsMade'
  BY <1>5, CallKeepsCaller DEF AuthorsMade, KeepsRequest
<1> QED
  BY <1>2, <1>4, <1>5
  DEF Next, vars, Lifecycle, Leases, TurnSteps, Http, StartBegin, ShutdownBegin, ClearClients,
      DrainCalls, Bind, AcceptFails, RegisterRead, RegisterInsert, RevokeRemove, Purge,
      TurnBegin, TurnEnd, CancelNotice

(* Whatever overlaps, notifications/cancelled reaches the running call it  *)
(* names, and no other, unless a call under the same key took its entry;   *)
(* and what it reaches is a call of the same CLI under the same lease.     *)
THEOREM NoticeHitsOwn == Spec => CancelHitsOwn
<1> DEFINE Inv == TypeOK /\ LeaseInv /\ RevokeInv /\ AuthorsMade
<1>1. Init => Inv
  BY TypeInit, LeaseInit, RevokeInit DEF Init, NoReq, AuthorsMade
<1>2. Inv /\ [Next]_vars => Inv'
  BY TypeStep, LeaseStep, TokensApartStep, TableIsRunningStep,
     PurgeIsUnderWayStep, AuthorsMadeStep DEF RevokeInv
<1>3. ASSUME Inv, NEW t \in Turns, NEW q \in Requests, CancelNotice(t, q)
      PROVE  /\ reqs[q].pc = "running" /\ ~reqs[q].lost
                  => q \in cancelled' /\ cancelled' \subseteq cancelled \cup {q}
             /\ \A r \in cancelled' \ cancelled :
                  /\ reqs[r].pc = "running" /\ reqs[r].token = reqs[q].token
                  /\ InstanceOf[reqs[r].by] = InstanceOf[t]
  <2>1. /\ cancelled' = cancelled \cup {e.req : e \in {a \in active : SameKey(a, q)}}
        /\ reqs[q].by = t
    BY <1>3 DEF CancelNotice
  <2>2. ASSUME reqs[q].pc = "running", ~reqs[q].lost
        PROVE  q \in cancelled' /\ cancelled' \subseteq cancelled \cup {q}
    <3>1. /\ q \in cancelled \/ Entry(q) \in active
          /\ \A e \in active : SameKey(e, q) => e.req = q
      BY <1>3, <2>2 DEF RevokeInv, TableIsRunning
    <3>2. SameKey(Entry(q), q) /\ Entry(q).req = q
      BY DEF SameKey, Entry
    <3> QED
      BY <2>1, <3>1, <3>2
  <2>3. ASSUME NEW r \in cancelled' \ cancelled
        PROVE  /\ reqs[r].pc = "running" /\ reqs[r].token = reqs[q].token
               /\ InstanceOf[reqs[r].by] = InstanceOf[t]
    <3>1. PICK e \in active : SameKey(e, q) /\ e.req = r
      BY <2>1, <2>3
    <3>2. r \in Requests /\ reqs[r].pc = "running" /\ e = Entry(r)
      BY <1>3, <3>1 DEF RevokeInv, TableIsRunning, TypeOK, Entries
    <3>3. reqs[r].token = reqs[q].token
      BY <3>1, <3>2 DEF SameKey, Entry
    <3>4. reqs[q].pc # "none"
      BY <1>3, <2>1, GatewayAssumption DEF GatewayAssumption, AuthorsMade
    <3> QED
      BY <1>3, <2>1, <3>2, <3>3, <3>4 DEF RevokeInv, TokensApart
  <2> QED
    BY <2>2, <2>3
<1> DEFINE Step == \A t \in Turns, q \in Requests :
    CancelNotice(t, q) =>
      /\ reqs[q].pc = "running" /\ ~reqs[q].lost
           => q \in cancelled' /\ cancelled' \subseteq cancelled \cup {q}
      /\ \A r \in cancelled' \ cancelled :
           /\ reqs[r].pc = "running" /\ reqs[r].token = reqs[q].token
           /\ InstanceOf[reqs[r].by] = InstanceOf[t]
<1>4. Inv => [Step]_vars
  BY <1>3
<1> QED
  BY <1>1, <1>2, <1>4, PTL DEF Spec, CancelHitsOwn
=============================================================================

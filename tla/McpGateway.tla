---------------------------- MODULE McpGateway ----------------------------
(* The MCP Gateway of src-tauri/src/mcp_gateway.rs: the HTTP service an    *)
(* agent calls AuraCoder's own tools through.  A CLI service holds a lease *)
(* (a token); a chat turn puts its trusted context on the lease of its CLI *)
(* while it runs; a request is authenticated first and dispatched after    *)
(* its body was read, with the lease it saw at authentication.             *)
(*                                                                         *)
(* Every lock of the code is held for one statement, so each statement is  *)
(* an action.  Ports, session header texts and tool results are left out.  *)
EXTENDS Naturals, FiniteSets

CONSTANTS
  Instances,    \* the "engine + instance id" a lease is issued for
  Turns,        \* chat turns
  InstanceOf,   \* the instance whose CLI runs a turn
  Requests,     \* HTTP requests an agent may send
  Ids,          \* JSON-RPC request ids
  MaxTokens,    \* bound: leases issued
  MaxStarts,    \* bound: starts of the service
  Overlap,      \* turns of one instance may run at the same time
  NoTurn        \* no trusted context

ASSUME GatewayAssumption ==
  /\ InstanceOf \in [Turns -> Instances]
  /\ MaxTokens \in Nat /\ MaxStarts \in Nat
  /\ Overlap \in BOOLEAN
  /\ NoTurn \notin Turns

Tokens   == 1..MaxTokens
States   == {"Stopped", "Starting", "Running", "Stopping", "Failed"}
NoToken  == 0
NoClient == [inst |-> "none", gen |-> 0, ctx |-> NoTurn, held |-> FALSE]
Clients  == [inst : Instances \cup {"none"}, gen : Nat,
             ctx : Turns \cup {NoTurn}, held : BOOLEAN]
Idle     == [pc |-> "idle", gen |-> 0, old |-> {}]
NoReq    == [pc |-> "none", by |-> NoTurn, token |-> NoToken, ctx |-> NoTurn,
             id |-> 0, late |-> FALSE, lost |-> FALSE]

VARIABLES
  life,       \* GatewayLifecycle: state and generation
  operation,  \* where the holder of the operation lock stands
  issued,     \* tokens issued so far
  clients,    \* the lease table
  active,     \* active_calls: key <<token, id>>, and the request it stands for
  cancelled,  \* requests whose cancellation token is cancelled
  regs,       \* a registration or revocation under way, per instance
  lease,      \* the token each CLI service holds
  turns,      \* idle, on, over
  reqs        \* requests and the lease they saw

vars == <<life, operation, issued, clients, active, cancelled,
          regs, lease, turns, reqs>>

Init ==
  /\ life = [state |-> "Stopped", gen |-> 0]
  /\ operation = "free"
  /\ issued = 0
  /\ clients = [k \in Tokens |-> NoClient]
  /\ active = {}
  /\ cancelled = {}
  /\ regs = [i \in Instances |-> Idle]
  /\ lease = [i \in Instances |-> NoToken]
  /\ turns = [t \in Turns |-> "idle"]
  /\ reqs = [r \in Requests |-> NoReq]

---------------------------------------------------------------------------
(* Lifecycle: start and shutdown hold the operation lock throughout.       *)

NoClients == [k \in Tokens |-> NoClient]

(* start: a service that runs or starts is left alone; otherwise the old   *)
(* task is ended before the tables are cleared.                            *)
StartBegin ==
  /\ operation = "free"
  /\ life.state \notin {"Running", "Starting"}
  /\ life.gen < MaxStarts
  /\ life' = [life EXCEPT !.state = "Starting"]
  /\ operation' = "startClear"
  /\ UNCHANGED <<issued, clients, active, cancelled, regs, lease, turns, reqs>>

(* shutdown: a stopped service only has its tables cleared.                *)
ShutdownBegin ==
  /\ operation = "free"
  /\ life.state \in {"Running", "Failed", "Stopped"}
  /\ life' = IF life.state = "Stopped" THEN life ELSE [life EXCEPT !.state = "Stopping"]
  /\ operation' = "stopClear"
  /\ UNCHANGED <<issued, clients, active, cancelled, regs, lease, turns, reqs>>

(* Leases go first (MCP sessions, which only ever refuse a request, are    *)
(* left out) ...                                                           *)
ClearClients ==
  /\ operation \in {"startClear", "stopClear"}
  /\ clients' = NoClients
  /\ operation' = IF operation = "startClear" THEN "startDrain" ELSE "stopDrain"
  /\ UNCHANGED <<life, issued, active, cancelled, regs, lease, turns, reqs>>

(* ... then every registered call is cancelled.                            *)
DrainCalls ==
  /\ operation \in {"startDrain", "stopDrain"}
  /\ cancelled' = cancelled \cup {e.req : e \in active}
  /\ active' = {}
  /\ operation' = IF operation = "startDrain" THEN "bind" ELSE "free"
  /\ life' = IF operation = "stopDrain" THEN [life EXCEPT !.state = "Stopped"] ELSE life
  /\ UNCHANGED <<issued, clients, regs, lease, turns, reqs>>

(* The listener is bound, or the port cannot be had.                       *)
Bind ==
  /\ operation = "bind"
  /\ operation' = "free"
  /\ \/ life' = [state |-> "Running", gen |-> life.gen + 1]
     \/ life' = [life EXCEPT !.state = "Failed"]
  /\ UNCHANGED <<issued, clients, active, cancelled, regs, lease, turns, reqs>>

(* run_server: accept fails; connections already open go on being served.  *)
AcceptFails ==
  /\ life.state = "Running"
  /\ life' = [life EXCEPT !.state = "Failed"]
  /\ UNCHANGED <<operation, issued, clients, active, cancelled,
                 regs, lease, turns, reqs>>

---------------------------------------------------------------------------
(* Leases.  The lifecycle of an instance registers and revokes under its   *)
(* own mutation lock: one of them at a time per instance.                  *)

(* Bug: the lease an instance already holds is not looked for.             *)
LeasesOfNone(i) == {}

LeasesOf(i) == {k \in Tokens : clients[k].held /\ clients[k].inst = i}

(* register: the generation is read under the lifecycle lock ...           *)
RegisterRead(i) ==
  /\ regs[i].pc = "idle"
  /\ life.state = "Running"
  /\ issued < MaxTokens
  /\ regs' = [regs EXCEPT ![i] = [pc |-> "insert", gen |-> life.gen, old |-> {}]]
  /\ UNCHANGED <<life, operation, issued, clients, active, cancelled,
                 lease, turns, reqs>>

(* ... and the lease replaces those of the instance in one statement.      *)
RegisterInsert(i) ==
  /\ regs[i].pc = "insert"
  /\ issued < MaxTokens
  /\ issued' = issued + 1
  /\ clients' = [k \in Tokens |->
       IF k = issued + 1 THEN [inst |-> i, gen |-> regs[i].gen, ctx |-> NoTurn, held |-> TRUE]
       ELSE IF k \in LeasesOf(i) THEN NoClient ELSE clients[k]]
  /\ lease' = [lease EXCEPT ![i] = issued + 1]
  /\ regs' = [regs EXCEPT ![i] =
       IF LeasesOf(i) = {} THEN Idle ELSE [@ EXCEPT !.pc = "purge", !.old = LeasesOf(i)]]
  /\ UNCHANGED <<life, operation, active, cancelled, turns, reqs>>

(* revoke_client: the lease leaves the table ...                           *)
RevokeRemove(i) ==
  /\ regs[i].pc = "idle"
  /\ lease[i] # NoToken
  /\ clients' = [clients EXCEPT ![lease[i]] = NoClient]
  /\ regs' = [regs EXCEPT ![i] =
       IF clients[lease[i]].held THEN [pc |-> "purge", gen |-> 0, old |-> {lease[i]}]
       ELSE Idle]
  /\ lease' = [lease EXCEPT ![i] = NoToken]
  /\ UNCHANGED <<life, operation, issued, active, cancelled, turns, reqs>>

(* Bug: a lease goes without the calls made under it.                      *)
CallsOfNone(tokens) == {}

CallsOf(tokens) == {e.req : e \in {a \in active : a.token \in tokens}}

(* ... and its sessions and calls after it (register purges the same way). *)
Purge(i) ==
  /\ regs[i].pc = "purge"
  /\ cancelled' = cancelled \cup CallsOf(regs[i].old)
  /\ regs' = [regs EXCEPT ![i] = Idle]
  /\ UNCHANGED <<life, operation, issued, clients, active, lease, turns, reqs>>

---------------------------------------------------------------------------
(* Trusted contexts: run_turn registers before the message is sent and     *)
(* clears when the turn is over, on whatever lease the CLI then holds.     *)

(* Bug: the context goes on the lease issued last, whoever holds it.       *)
LeaseIssuedLast(t) == issued

LeaseOf(t) == lease[InstanceOf[t]]
Registered(k) == k # NoToken /\ clients[k].held
Open(t) == turns[t] = "on"

TurnBegin(t) ==
  /\ turns[t] = "idle"
  /\ Registered(LeaseOf(t))
  /\ Overlap \/ \A u \in Turns : InstanceOf[u] = InstanceOf[t] => ~Open(u)
  /\ clients' = [clients EXCEPT ![LeaseOf(t)].ctx = t]
  /\ turns' = [turns EXCEPT ![t] = "on"]
  /\ UNCHANGED <<life, operation, issued, active, cancelled, regs, lease, reqs>>

(* run_turn clears once, when the task of the engine is closed.            *)
TurnEnd(t) ==
  /\ Open(t)
  /\ clients' = IF Registered(LeaseOf(t))
                  THEN [clients EXCEPT ![LeaseOf(t)].ctx = NoTurn] ELSE clients
  /\ turns' = [turns EXCEPT ![t] = "over"]
  /\ UNCHANGED <<life, operation, issued, active, cancelled, regs, lease, reqs>>

---------------------------------------------------------------------------
(* Requests.  Each MCP session numbers its own requests, and nothing bounds *)
(* the sessions of a CLI: two requests under one lease may have one id.     *)

(* handle_request up to the body: the token is in the table, the service   *)
(* runs and the lease is of this generation; the record is copied.         *)
Authenticate(r, t, k, id) ==
  /\ reqs[r].pc = "none"
  /\ turns[t] = "on"
  /\ Registered(k)
  /\ clients[k].inst = InstanceOf[t]
  /\ life.state = "Running" /\ clients[k].gen = life.gen
  /\ reqs' = [reqs EXCEPT ![r] = [pc |-> "body", by |-> t, token |-> k,
       ctx |-> clients[k].ctx, id |-> id, late |-> FALSE, lost |-> FALSE]]
  /\ UNCHANGED <<life, operation, issued, clients, active, cancelled,
                 regs, lease, turns>>

(* Bug: a request that is over forgets who made it.                        *)
DoneForgets(q) == [NoReq EXCEPT !.pc = "done"]

Done(q) == [q EXCEPT !.pc = "done", !.ctx = NoTurn, !.late = FALSE, !.lost = FALSE]

(* call_cli_tool without a context: refused.                               *)
CallRefused(r) ==
  /\ reqs[r].pc = "body"
  /\ reqs[r].ctx = NoTurn
  /\ reqs' = [reqs EXCEPT ![r] = Done(@)]
  /\ UNCHANGED <<life, operation, issued, clients, active, cancelled,
                 regs, lease, turns>>

(* Bug: calls are told apart by the request id alone.                      *)
SameIdOnly(e, r) == e.id = reqs[r].id

SameKey(e, r) == e.token = reqs[r].token /\ e.id = reqs[r].id

(* What becomes of the calls that run when r enters or leaves the table:   *)
(* one with the same key has no entry of its own any more.                 *)
Displaced(q, r) == q # r /\ reqs[q].pc = "running" /\ SameKey(reqs[q], r)

WithCall(r, row) ==
  [q \in Requests |-> IF q = r THEN row
                     ELSE [reqs[q] EXCEPT !.lost = @ \/ Displaced(q, r)]]

Entry(r) == [token |-> reqs[r].token, id |-> reqs[r].id, req |-> r]

(* Bug: the context is read again when the call is dispatched.             *)
CallBeginRereads(r) ==
  /\ reqs[r].pc = "body"
  /\ reqs[r].ctx # NoTurn /\ clients[reqs[r].token].ctx # NoTurn
  /\ active' = {e \in active : ~SameKey(e, r)} \cup {Entry(r)}
  /\ reqs' = WithCall(r, [reqs[r] EXCEPT !.pc = "running",
                                        !.ctx = clients[reqs[r].token].ctx])
  /\ UNCHANGED <<life, operation, issued, clients, cancelled, regs, lease, turns>>

(* call_cli_tool: the call is entered under its key, in place of the call  *)
(* that stands there, and given to the CLI.  late marks a lease that left  *)
(* the table since the request was accepted.                               *)
CallBegin(r) ==
  /\ reqs[r].pc = "body"
  /\ reqs[r].ctx # NoTurn
  /\ active' = {e \in active : ~SameKey(e, r)} \cup {Entry(r)}
  /\ reqs' = WithCall(r, [reqs[r] EXCEPT !.pc = "running",
                                        !.late = ~clients[reqs[r].token].held])
  /\ UNCHANGED <<life, operation, issued, clients, cancelled, regs, lease, turns>>

(* The CLI answers: the key is removed, whichever call stands under it.    *)
CallEnd(r) ==
  /\ reqs[r].pc = "running"
  /\ active' = {e \in active : ~SameKey(e, r)}
  /\ reqs' = WithCall(r, Done(reqs[r]))
  /\ UNCHANGED <<life, operation, issued, clients, cancelled, regs, lease, turns>>

(* notifications/cancelled by the turn t for its request r: whatever call  *)
(* stands under the key is cancelled.                                      *)
CancelNotice(t, r) ==
  /\ turns[t] = "on" /\ reqs[r].by = t
  /\ Registered(reqs[r].token)
  /\ life.state = "Running" /\ clients[reqs[r].token].gen = life.gen
  /\ cancelled' = cancelled \cup {e.req : e \in {a \in active : SameKey(a, r)}}
  /\ UNCHANGED <<life, operation, issued, clients, active, regs, lease, turns, reqs>>

---------------------------------------------------------------------------
Lifecycle == StartBegin \/ ShutdownBegin \/ ClearClients \/ DrainCalls \/ Bind \/ AcceptFails
Leases    == \E i \in Instances :
               RegisterRead(i) \/ RegisterInsert(i) \/ RevokeRemove(i) \/ Purge(i)
TurnSteps == \E t \in Turns : TurnBegin(t) \/ TurnEnd(t)
Http      == \E r \in Requests :
               \/ \E t \in Turns, k \in Tokens, id \in Ids :
                    Authenticate(r, t, k, id)
               \/ CallRefused(r) \/ CallBegin(r) \/ CallEnd(r)
               \/ \E t \in Turns : CancelNotice(t, r)

Next == Lifecycle \/ Leases \/ TurnSteps \/ Http
Spec == Init /\ [][Next]_vars

---------------------------------------------------------------------------
ClearingPhases == {"startClear", "startDrain", "stopClear", "stopDrain"}

Entries == [token : Tokens, id : Ids, req : Requests]
Reqs    == [pc : {"none", "body", "running", "done"}, by : Turns \cup {NoTurn},
            token : Tokens \cup {NoToken}, ctx : Turns \cup {NoTurn},
            id : Ids \cup {0}, late : BOOLEAN, lost : BOOLEAN]

Filled(q) == q.by \in Turns /\ q.token \in Tokens /\ q.id \in Ids

(* Types of the tables and of the records on their way.                    *)
TypeOK ==
  /\ life \in [state : States, gen : Nat]
  /\ operation \in {"free", "bind"} \cup ClearingPhases
  /\ issued \in 0..MaxTokens
  /\ clients \in [Tokens -> Clients]
  /\ active \subseteq Entries
  /\ cancelled \subseteq Requests
  /\ regs \in [Instances -> [pc : {"idle", "insert", "purge"}, gen : Nat,
                             old : SUBSET Tokens]]
  /\ lease \in [Instances -> Tokens \cup {NoToken}]
  /\ turns \in [Turns -> {"idle", "on", "over"}]
  /\ reqs \in [Requests -> Reqs]
  /\ \A k \in Tokens : clients[k].held => clients[k].inst \in Instances
  /\ \A r \in Requests : reqs[r].pc # "none" => Filled(reqs[r])

(* An instance has at most one lease, and it is the one its service holds, *)
(* whatever registrations, revocations and restarts overlap (register,     *)
(* revoke_client, start and shutdown each touch the table on their own).   *)
LeasePerInstance ==
  \A k \in Tokens : clients[k].held => lease[clients[k].inst] = k

(* A tool runs on behalf of the turn whose agent asked for it: the context *)
(* copied at authentication is the caller's, though the lease may have     *)
(* been replaced, or its turn have ended, before the call is dispatched.   *)
ContextIsCallers ==
  \A r \in Requests : reqs[r].pc = "running" => reqs[r].ctx = reqs[r].by

(* Even when turns of an instance overlap, a context never leaves its CLI: *)
(* one that stands on a lease is that of a turn still open on the CLI that *)
(* holds it (clear_turn_context finds the lease again, though the service  *)
(* was registered anew since), and a request that copied one, however long *)
(* ago, was made by an agent of the same CLI.                              *)
ContextStaysWithCli ==
  /\ \A k \in Tokens : clients[k].ctx # NoTurn =>
       /\ Open(clients[k].ctx)
       /\ InstanceOf[clients[k].ctx] = clients[k].inst
  /\ \A r \in Requests : reqs[r].ctx # NoTurn =>
       InstanceOf[reqs[r].ctx] = InstanceOf[reqs[r].by]

Clearing == operation \in ClearingPhases

(* Revoking a lease reaches every call that runs under it: once the purge  *)
(* is over, a call entered before the lease left the table is cancelled.   *)
(* Only a call whose entry another call under the same key took over, or   *)
(* took away with its own, escapes.                                        *)
RevokeReachesCalls ==
  \A r \in Requests :
    /\ reqs[r].pc = "running" /\ ~reqs[r].late /\ ~reqs[r].lost
    /\ ~clients[reqs[r].token].held
    /\ ~Clearing
    /\ \A i \in Instances : reqs[r].token \notin regs[i].old
    => r \in cancelled

(* A notice of the turn t for its request q reaches q while it runs, and   *)
(* no other call, unless another call took over the entry of q; and a call *)
(* it hits by that key is one of the same CLI under the same lease         *)
(* (active_calls is keyed by token and id, not by session).                *)
CancelHitsOwn == [][
  \A t \in Turns, q \in Requests :
    CancelNotice(t, q) =>
      /\ reqs[q].pc = "running" /\ ~reqs[q].lost
           => q \in cancelled' /\ cancelled' \subseteq cancelled \cup {q}
      /\ \A r \in cancelled' \ cancelled :
           /\ reqs[r].pc = "running" /\ reqs[r].token = reqs[q].token
           /\ InstanceOf[reqs[r].by] = InstanceOf[t]]_vars
=============================================================================

---------------------------- MODULE SshServices ----------------------------
(* The remote service of one (SSH connection, CLI) pair, as kept by         *)
(* src-tauri/src/ssh/cli_service_lifecycle.rs (who serves, with which MCP   *)
(* lease), ssh/cli_tunnel_registry.rs (the forward and the remote process)  *)
(* and cli_service_health.rs (the loop that compares the two).              *)
(*                                                                          *)
(* The mutation lock is held from a Begin action to the matching End; ports,*)
(* secrets and the text of the remote commands are left out.  The remote    *)
(* process outlives the application: a Crash keeps it.                      *)
EXTENDS Naturals, FiniteSets

CONSTANTS
  Callers,     \* tasks that act on the service: commands, refreshes, exit
  Health,      \* the health-check task
  MaxTokens,   \* bound: leases issued
  MaxTunnels,  \* bound: forwards opened
  MaxFaults,   \* bound: SSH commands and registrations that fail
  MayDie,      \* the remote process may die by itself
  MayCrash     \* the application may crash

ASSUME SshAssumption ==
  /\ Health \notin Callers
  /\ "noone" \notin Callers \cup {Health}
  /\ MaxTokens \in Nat /\ MaxTunnels \in Nat /\ MaxFaults \in Nat
  /\ MayDie \in BOOLEAN /\ MayCrash \in BOOLEAN

Actors  == Callers \cup {Health}
Tokens  == 1..MaxTokens
Tunnels == 1..MaxTunnels
None    == 0
NoOne   == "noone"
Jobs    == {"register", "ensure", "restart", "unregister", "exit"}
Pcs     == {"idle", "opening", "set", "starting", "waiting", "failed",
            "term", "stopping", "revoke", "unreg", "unstopping", "unrevoke",
            "closing", "drain", "list", "probe", "reprobe", "orphans", "orphanProbe"}

NoService == [reg |-> FALSE, token |-> None, tunnel |-> None, ready |-> FALSE]
NoProcess == [alive |-> FALSE, token |-> None, tunnel |-> None]
AtRest    == [pc |-> "idle", job |-> "none", token |-> None, tunnel |-> None]

VARIABLES
  enabled, \* the connection is enabled and not deleted, in the database
  lock,    \* holder of mutation_lock
  svc,     \* the entry of the service map
  tun,     \* the forward in the tunnel registry
  life,    \* service_state of each forward
  proc,    \* the remote process: the lease and the forward it was started with
  leases,  \* leases of this instance the gateway accepts
  act,     \* where each task stands
  issued,  \* tokens issued
  opened,  \* forwards opened
  faults   \* failures so far

vars == <<enabled, lock, svc, tun, life, proc, leases, act, issued, opened, faults>>

Init ==
  /\ enabled = TRUE
  /\ lock = NoOne
  /\ svc = NoService
  /\ tun = None
  /\ life = [t \in Tunnels |-> "Stopped"]
  /\ proc = NoProcess
  /\ leases = {}
  /\ act = [a \in Actors |-> AtRest]
  /\ issued = 0
  /\ opened = 0
  /\ faults = 0

Forget(a, pc) ==
  act' = [act EXCEPT ![a].pc = pc, ![a].token = None, ![a].tunnel = None]
Goto(a, pc) == act' = [act EXCEPT ![a].pc = pc]
Finish(a)   == act' = [act EXCEPT ![a] = AtRest]
Fault       == faults < MaxFaults /\ faults' = faults + 1

---------------------------------------------------------------------------
(* register_cli_tunnels: a forward already registered is kept; otherwise    *)
(* one is opened without any lock and added if the place is still free.     *)

(* Bug: the exit names a step no task has.                                  *)
FirstPcTypo(job) == IF job = "exit" THEN "shutdown" ELSE job

FirstPc(job) == CASE job = "register"   -> IF tun = None THEN "opening" ELSE "set"
                  [] job = "ensure"     -> "set"
                  [] job = "unregister" -> "unreg"
                  [] job = "restart"    -> "term"
                  [] job = "exit"       -> IF svc.reg THEN "term" ELSE "drain"

(* A registration follows a look at the connection; disabling or deleting   *)
(* it is saved before its services are unregistered.                        *)
StartJob(a, job) ==
  /\ a \in Callers
  /\ act[a].pc = "idle"
  /\ job = "register" => enabled
  /\ enabled' = (enabled /\ job # "unregister")
  /\ act' = [act EXCEPT ![a] = [AtRest EXCEPT !.pc = FirstPc(job), !.job = job]]
  /\ UNCHANGED <<lock, svc, tun, life, proc, leases, issued, opened, faults>>

(* Enabling or restoring a connection starts its monitor, and no service.   *)
Enable ==
  /\ ~enabled
  /\ enabled' = TRUE
  /\ UNCHANGED <<lock, svc, tun, life, proc, leases, act, issued, opened, faults>>

(* Bug: add replaces the forward that is there.                             *)
OpenTunnelReplaces(a) ==
  /\ act[a].pc = "opening"
  /\ opened < MaxTunnels
  /\ opened' = opened + 1
  /\ tun' = opened + 1
  /\ Goto(a, "set")
  /\ UNCHANGED <<lock, svc, life, proc, leases, issued, faults>>

(* add: put if absent; the loser's forward is closed.                       *)
OpenTunnel(a) ==
  /\ act[a].pc = "opening"
  /\ opened < MaxTunnels
  /\ opened' = opened + 1
  /\ tun' = IF tun = None THEN opened + 1 ELSE tun
  /\ Goto(a, "set")
  /\ UNCHANGED <<lock, svc, life, proc, leases, issued, faults>>

OpenFails(a) ==
  /\ act[a].pc = "opening"
  /\ \/ Fault /\ opened < MaxTunnels
     \/ opened = MaxTunnels /\ UNCHANGED faults
  /\ Finish(a)
  /\ UNCHANGED <<lock, svc, tun, life, proc, leases, issued, opened>>

---------------------------------------------------------------------------
(* set                                                                      *)

(* A Ready service is reused.                                               *)
SetReuses(a) ==
  /\ act[a].pc = "set" /\ lock = NoOne
  /\ svc.reg
  /\ Finish(a)
  /\ UNCHANGED <<lock, svc, tun, life, proc, leases, issued, opened, faults>>

(* No forward, or the gateway issues no lease.                              *)
SetRefused(a) ==
  /\ act[a].pc = "set" /\ lock = NoOne
  /\ ~svc.reg
  /\ \/ (tun = None \/ issued = MaxTokens) /\ UNCHANGED faults
     \/ tun # None /\ issued < MaxTokens /\ Fault
  /\ Finish(a)
  /\ UNCHANGED <<lock, svc, tun, life, proc, leases, issued, opened>>

(* register_client: the new lease replaces those of the same instance.      *)
Lease(a) ==
  /\ act[a].pc = "set" /\ lock = NoOne
  /\ ~svc.reg /\ tun # None
  /\ issued < MaxTokens
  /\ issued' = issued + 1
  /\ leases' = {issued + 1}

(* ensure_remote_cli_service_running: a forward marked Running needs no     *)
(* start, and the service is entered at once ...                            *)
SetOnRunning(a) ==
  /\ Lease(a)
  /\ life[tun] = "Running"
  /\ svc' = [reg |-> TRUE, token |-> issued + 1, tunnel |-> tun, ready |-> TRUE]
  /\ Finish(a)
  /\ UNCHANGED <<lock, tun, life, proc, opened, faults>>

(* ... otherwise the remote process is started with the new lease.          *)
SetStarts(a) ==
  /\ Lease(a)
  /\ life[tun] # "Running"
  /\ lock' = a
  /\ life' = [life EXCEPT ![tun] = "Starting"]
  /\ act' = [act EXCEPT ![a].pc = "starting", ![a].token = issued + 1,
                        ![a].tunnel = tun]
  /\ UNCHANGED <<svc, tun, proc, opened, faults>>

(* The start command kills the process of the pid file before it starts the *)
(* new one.  It may fail without effect, or after it.                       *)
Started(a) == [alive |-> TRUE, token |-> act[a].token, tunnel |-> act[a].tunnel]

StartCommand(a) ==
  /\ act[a].pc = "starting"
  /\ \/ proc' = Started(a) /\ Goto(a, "waiting") /\ UNCHANGED faults
     \/ proc' \in {proc, NoProcess, Started(a)} /\ Goto(a, "failed") /\ Fault
  /\ UNCHANGED <<lock, svc, tun, life, leases, issued, opened>>

(* Bug: the answer of the wait command is not looked at.                    *)
ListensUnread(tunnel) == TRUE

(* The wait command sees the port listen and the service is entered, or it  *)
(* gives up.                                                                *)
Listens(tunnel) == proc.alive /\ proc.tunnel = tunnel

WaitReady(a) ==
  /\ act[a].pc = "waiting"
  /\ Listens(act[a].tunnel)
  /\ life' = [life EXCEPT ![act[a].tunnel] = "Running"]
  /\ svc' = [reg |-> TRUE, token |-> act[a].token,
             tunnel |-> act[a].tunnel, ready |-> TRUE]
  /\ lock' = NoOne
  /\ Finish(a)
  /\ UNCHANGED <<tun, proc, leases, issued, opened, faults>>

WaitFails(a) ==
  /\ act[a].pc = "waiting"
  /\ \/ ~Listens(act[a].tunnel) /\ UNCHANGED faults
     \/ Listens(act[a].tunnel) /\ Fault
  /\ Goto(a, "failed")
  /\ UNCHANGED <<lock, svc, tun, life, proc, leases, issued, opened>>

(* Bug: the failed start keeps its lease.                                   *)
StartFailedKeepsLease(a) ==
  /\ act[a].pc = "failed"
  /\ life' = [life EXCEPT ![act[a].tunnel] = "Stopped"]
  /\ lock' = NoOne
  /\ Finish(a)
  /\ UNCHANGED <<svc, tun, proc, leases, issued, opened, faults>>

(* The failed start leaves the forward Stopped and gives the lease back.    *)
StartFailed(a) ==
  /\ act[a].pc = "failed"
  /\ life' = [life EXCEPT ![act[a].tunnel] = "Stopped"]
  /\ leases' = leases \ {act[a].token}
  /\ lock' = NoOne
  /\ Finish(a)
  /\ UNCHANGED <<svc, tun, proc, issued, opened, faults>>

---------------------------------------------------------------------------
(* terminate, and what its callers do next                                  *)

AfterTerminate(a) == CASE act[a].job = "restart" -> "set"
                       [] act[a].job = "exit"    -> "drain"
                       [] act[a].job = "health"  -> "orphans"

(* The error of terminate aborts a restart; the exit and the health loop    *)
(* only log it.                                                             *)
AfterError(a) == IF act[a].job = "restart" THEN Finish(a) ELSE Goto(a, AfterTerminate(a))

TerminateMissing(a) ==
  /\ act[a].pc = "term" /\ lock = NoOne
  /\ ~svc.reg
  /\ AfterError(a)
  /\ UNCHANGED <<lock, svc, tun, life, proc, leases, issued, opened, faults>>

TerminateBegin(a) ==
  /\ act[a].pc = "term" /\ lock = NoOne
  /\ svc.reg
  /\ svc' = [svc EXCEPT !.ready = FALSE]
  /\ lock' = a
  /\ Goto(a, "stopping")
  /\ UNCHANGED <<tun, life, proc, leases, issued, opened, faults>>

(* The entry leaves the map first; the task keeps its token ...             *)
TakeEntry(a, pc) ==
  /\ svc' = NoService
  /\ act' = [act EXCEPT ![a].pc = pc, ![a].token = svc.token, ![a].tunnel = svc.tunnel]

TerminateEnd(a) ==
  /\ act[a].pc = "stopping"
  /\ proc' = NoProcess
  /\ TakeEntry(a, "revoke")
  /\ UNCHANGED <<lock, tun, life, leases, issued, opened, faults>>

(* ... and its lease goes after it; service_state is not touched.           *)
TerminateRevoke(a) ==
  /\ act[a].pc = "revoke"
  /\ leases' = leases \ {act[a].token}
  /\ lock' = NoOne
  /\ Forget(a, AfterTerminate(a))
  /\ UNCHANGED <<svc, tun, life, proc, issued, opened, faults>>

(* Bug: a failed stop drops the entry as a stop that worked does.           *)
TerminateFailsDrops(a) ==
  /\ act[a].pc = "stopping"
  /\ Fault
  /\ proc' \in {proc, NoProcess}
  /\ svc' = NoService
  /\ leases' = leases \ {svc.token}
  /\ lock' = NoOne
  /\ AfterError(a)
  /\ UNCHANGED <<tun, life, issued, opened>>

(* A failed stop may or may not have killed the process.                    *)
TerminateFails(a) ==
  /\ act[a].pc = "stopping"
  /\ Fault
  /\ proc' \in {proc, NoProcess}
  /\ svc' = [svc EXCEPT !.ready = TRUE]
  /\ lock' = NoOne
  /\ AfterError(a)
  /\ UNCHANGED <<tun, life, leases, issued, opened>>

---------------------------------------------------------------------------
(* unregister_service: whatever the remote stop answers, the entry, its     *)
(* lease and the forward go, one after the other.                           *)

UnregisterBegin(a) ==
  /\ act[a].pc = "unreg" /\ lock = NoOne
  /\ svc' = [svc EXCEPT !.ready = FALSE]
  /\ lock' = a
  /\ act' = [act EXCEPT ![a].pc = "unstopping",
                        ![a].tunnel = IF svc.reg THEN svc.tunnel ELSE tun]
  /\ UNCHANGED <<tun, life, proc, leases, issued, opened, faults>>

UnregisterStop(a) ==
  \/ act[a].tunnel = None /\ UNCHANGED <<proc, faults>>
  \/ act[a].tunnel # None /\ proc' = NoProcess /\ UNCHANGED faults
  \/ act[a].tunnel # None /\ proc' \in {proc, NoProcess} /\ Fault

UnregisterLeave(a) ==
  /\ act[a].pc = "unstopping"
  /\ UnregisterStop(a)
  /\ \/ svc.reg /\ TakeEntry(a, "unrevoke")
     \/ ~svc.reg /\ Forget(a, "closing") /\ UNCHANGED svc
  /\ UNCHANGED <<lock, tun, life, leases, issued, opened>>

UnregisterRevoke(a) ==
  /\ act[a].pc = "unrevoke"
  /\ leases' = leases \ {act[a].token}
  /\ Forget(a, "closing")
  /\ UNCHANGED <<lock, svc, tun, life, proc, issued, opened, faults>>

UnregisterEnd(a) ==
  /\ act[a].pc = "closing"
  /\ tun' = None
  /\ life' = [t \in Tunnels |-> IF t = tun THEN "Stopped" ELSE life[t]]
  /\ lock' = NoOne
  /\ Finish(a)
  /\ UNCHANGED <<svc, proc, leases, issued, opened, faults>>

---------------------------------------------------------------------------
(* reconcile_health                                                         *)

(* The loop lists the connections that are enabled and not deleted, and     *)
(* comes to this one later.                                                 *)
HealthLists ==
  /\ act[Health].pc = "idle"
  /\ enabled
  /\ Goto(Health, "list")
  /\ UNCHANGED <<lock, svc, tun, life, proc, leases, issued, opened, faults>>

(* The entries are copied first ...                                         *)
HealthBegin ==
  /\ act[Health].pc = "list"
  /\ act' = [act EXCEPT ![Health] =
       [pc |-> IF svc.reg THEN "probe" ELSE "orphans", job |-> "health",
        token |-> None, tunnel |-> svc.tunnel]]
  /\ UNCHANGED <<lock, svc, tun, life, proc, leases, issued, opened, faults>>

(* ... a probe looks at the process behind the copied entry; a failing SSH  *)
(* command is a failed probe.                                               *)
Probe(alive) ==
  /\ ~alive \/ Listens(act[Health].tunnel)
  /\ IF ~alive /\ Listens(act[Health].tunnel) THEN Fault ELSE UNCHANGED faults

(* Bug: the second failed probe only logs.                                  *)
HealthProbeLogs(alive) ==
  /\ act[Health].pc \in {"probe", "reprobe", "orphanProbe"}
  /\ Probe(alive)
  /\ act' = [act EXCEPT ![Health] =
       CASE act[Health].pc = "orphanProbe" /\ ~alive -> AtRest
         [] act[Health].pc = "orphanProbe" /\ alive  -> [@ EXCEPT !.pc = "set"]
         [] act[Health].pc = "probe" /\ ~alive       -> [@ EXCEPT !.pc = "reprobe"]
         [] OTHER                                    -> [@ EXCEPT !.pc = "orphans"]]
  /\ UNCHANGED <<lock, svc, tun, life, proc, leases, issued, opened>>

HealthProbe(alive) ==
  /\ act[Health].pc \in {"probe", "reprobe", "orphanProbe"}
  /\ Probe(alive)
  /\ act' = [act EXCEPT ![Health] =
       CASE act[Health].pc = "orphanProbe" /\ ~alive -> AtRest
         [] act[Health].pc = "orphanProbe" /\ alive  -> [@ EXCEPT !.pc = "set"]
         [] act[Health].pc = "probe" /\ ~alive       -> [@ EXCEPT !.pc = "reprobe"]
         [] act[Health].pc = "reprobe" /\ ~alive     -> [@ EXCEPT !.pc = "term"]
         [] OTHER                                    -> [@ EXCEPT !.pc = "orphans"]]
  /\ UNCHANGED <<lock, svc, tun, life, proc, leases, issued, opened>>

(* The second pass looks for a forward with no entry (set checks both       *)
(* again under the lock).                                                   *)
HealthOrphans ==
  /\ act[Health].pc = "orphans"
  /\ act' = [act EXCEPT ![Health] =
       IF tun = None \/ svc.reg THEN AtRest
       ELSE [@ EXCEPT !.pc = "orphanProbe", !.tunnel = tun]]
  /\ UNCHANGED <<lock, svc, tun, life, proc, leases, issued, opened, faults>>

---------------------------------------------------------------------------
(* The application ends                                                     *)

Forgotten ==
  /\ lock' = NoOne
  /\ svc' = NoService
  /\ tun' = None
  /\ life' = [t \in Tunnels |-> "Stopped"]
  /\ leases' = {}
  /\ act' = [a \in Actors |-> AtRest]
  /\ UNCHANGED <<issued, opened>>

(* shutdown of the tunnel registry waits for the service lock of a forward  *)
(* that is being started, and stops the process of one that is not Stopped. *)
ExitDrain(a) ==
  /\ act[a].pc = "drain"
  /\ tun # None => life[tun] # "Starting"
  /\ \/ /\ proc' = IF tun # None /\ life[tun] # "Stopped" THEN NoProcess ELSE proc
        /\ UNCHANGED faults
     \/ /\ tun # None /\ life[tun] # "Stopped"
        /\ Fault /\ UNCHANGED proc
  /\ Forgotten

(* A crash keeps the remote process; a start command under way may still    *)
(* take effect.                                                             *)
Crash ==
  /\ MayCrash
  /\ proc' \in {proc} \cup {Started(a) : a \in {b \in Actors : act[b].pc = "starting"}}
  /\ Forgotten
  /\ UNCHANGED faults

(* The remote process dies.                                                 *)
RemoteDies ==
  /\ MayDie
  /\ proc.alive
  /\ proc' = NoProcess
  /\ UNCHANGED <<lock, svc, tun, life, leases, act, issued, opened, faults>>

---------------------------------------------------------------------------
Task(a) ==
  \/ OpenTunnel(a) \/ OpenFails(a)
  \/ SetReuses(a) \/ SetRefused(a) \/ SetOnRunning(a) \/ SetStarts(a)
  \/ StartCommand(a) \/ WaitReady(a) \/ WaitFails(a) \/ StartFailed(a)
  \/ TerminateMissing(a) \/ TerminateBegin(a) \/ TerminateEnd(a)
  \/ TerminateRevoke(a) \/ TerminateFails(a)
  \/ UnregisterBegin(a) \/ UnregisterLeave(a) \/ UnregisterRevoke(a) \/ UnregisterEnd(a)
  \/ ExitDrain(a)

HealthTask ==
  HealthLists \/ HealthBegin \/ HealthOrphans \/ \E alive \in BOOLEAN : HealthProbe(alive)

Step(a)    == Task(a) /\ UNCHANGED enabled
HealthStep == HealthTask /\ UNCHANGED enabled

Next ==
  \/ \E a \in Callers, job \in Jobs : StartJob(a, job)
  \/ \E a \in Actors : Step(a)
  \/ HealthStep
  \/ Crash /\ UNCHANGED enabled
  \/ RemoteDies /\ UNCHANGED enabled
  \/ Enable

Spec == Init /\ [][Next]_vars

(* Every task goes on; the loop runs for ever; tokio's Mutex serves its     *)
(* waiters in order, so the health loop gets it again and again.            *)
Fairness ==
  /\ \A a \in Callers : WF_vars(Step(a))
  /\ SF_vars(Step(Health))
  /\ WF_vars(HealthStep)

FairSpec == Spec /\ Fairness

---------------------------------------------------------------------------
(* Type invariant: the values the variables may take.                       *)
RecordTypes ==
  /\ lock \in Actors \cup {NoOne}
  /\ svc \in [reg : BOOLEAN, token : 0..MaxTokens, tunnel : 0..MaxTunnels, ready : BOOLEAN]
  /\ tun \in 0..MaxTunnels
  /\ life \in [Tunnels -> {"Stopped", "Starting", "Running"}]
  /\ proc \in [alive : BOOLEAN, token : 0..MaxTokens, tunnel : 0..MaxTunnels]
  /\ leases \subseteq Tokens
  /\ act \in [Actors -> [pc : Pcs, job : Jobs \cup {"none", "health"},
                        token : 0..MaxTokens, tunnel : 0..MaxTunnels]]
  /\ issued \in 0..MaxTokens
  /\ opened \in 0..MaxTunnels
  /\ faults \in 0..MaxFaults

TypeOK == enabled \in BOOLEAN /\ RecordTypes

Starting == {a \in Actors : act[a].pc \in {"starting", "waiting", "failed"}}

Revoking == {a \in Actors : act[a].pc \in {"revoke", "unrevoke"}}

(* The gateway accepts exactly the lease of the registered service, of the  *)
(* one being started or of the one whose entry was just removed: no failed  *)
(* start, failed stop, unregistration or exit leaves a lease behind, and    *)
(* none is revoked under a live service.                                    *)
LeaseIsOwned ==
  leases = (IF svc.reg THEN {svc.token} ELSE {})
             \cup {act[a].token : a \in Starting \cup Revoking}

(* A registered service whose remote process lives is served by the process *)
(* started with its own lease through its own forward: a process of an      *)
(* earlier registration never answers in its place, across restarts, failed *)
(* stops, crashes and exits.                                                *)
ProcessIsServices ==
  svc.reg /\ proc.alive => proc.token = svc.token /\ proc.tunnel = svc.tunnel

(* A registered service uses the forward of the tunnel registry, although   *)
(* forwards are opened without the lock under which services are entered    *)
(* and removed.                                                             *)
TunnelIsRegistered == svc.reg => svc.tunnel = tun

(* set, "启动并登记一个远端 CLI 服务": with no failure, a Ready service has  *)
(* a remote process started for it.  (Not so: see the README.)              *)
RestartServes == svc.reg /\ svc.ready => proc.alive /\ proc.token = svc.token

(* The phases of the service: it starts while the holder of the lock starts *)
(* it, is ready or stopping once it is entered, and ends with its lease.    *)
Phase(phase, r) == [phase |-> phase, token |-> r.token, tunnel |-> r.tunnel]

ServicePhase ==
  IF svc.reg THEN Phase(IF svc.ready THEN "ready" ELSE "stopping", svc)
  ELSE IF lock \in Starting THEN Phase("starting", act[lock])
  ELSE IF lock \in Revoking THEN Phase("stopping", act[lock])
  ELSE Phase("off", NoService)

LiveProcess == IF proc.alive THEN proc.token ELSE None

Contract == INSTANCE RemoteService WITH
  service <- ServicePhase, process <- LiveProcess, accepted <- leases

(* The tasks together keep the contract of RemoteService: services follow   *)
(* one another, each with its own lease and its own process, whatever       *)
(* commands, probes, failures, crashes and exits overlap.                   *)
ServiceSpec == Contract!Spec

(* A service whose remote process died does not stay registered while its   *)
(* connection is enabled: the health loop, or an operation that comes       *)
(* first, removes it.  The loop passes by a connection that is disabled or  *)
(* deleted, and a registration under way when it was may still enter one.   *)
DeadServiceLeaves ==
  \A k \in Tokens :
    svc.reg /\ svc.token = k /\ ~proc.alive ~> ~(svc.reg /\ svc.token = k) \/ ~enabled

=============================================================================

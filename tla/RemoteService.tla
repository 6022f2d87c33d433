---------------------------- MODULE RemoteService ----------------------------
(* What the lifecycle of a remote CLI service promises, however many tasks  *)
(* register, restart, probe and remove it: one service at a time, each with *)
(* a lease of its own, accepted from its issue to the end of the service    *)
(* and never after; and a process that is started once, for that lease,     *)
(* before the service is ready, and is not replaced while it is.            *)
EXTENDS Naturals

CONSTANTS
  Tunnels,   \* forwards a service may run through
  MaxTokens  \* bound: leases issued

VARIABLES
  service,   \* its phase, its lease and its forward
  process,   \* the lease the living remote process was started with, or 0
  accepted,  \* leases the gateway accepts
  issued     \* leases issued

NoProcess == 0
Off       == [phase |-> "off", token |-> 0, tunnel |-> 0]

Init ==
  /\ service = Off
  /\ process = NoProcess
  /\ accepted = {}
  /\ issued = 0

(* A service begins with a new lease, the only one accepted.                *)
Begin(phase) ==
  /\ service.phase = "off"
  /\ issued < MaxTokens
  /\ issued' = issued + 1
  /\ accepted' = {issued + 1}
  /\ \E t \in Tunnels :
       service' = [phase |-> phase, token |-> issued + 1, tunnel |-> t]
  /\ UNCHANGED process

Start == Begin("starting")

(* A forward still marked Running is taken for a service that runs: nobody  *)
(* serves it then, but nobody of an earlier service either.                 *)
Attach == Begin("ready") /\ process = NoProcess

Move(from, to) ==
  /\ service.phase = from
  /\ service' = [service EXCEPT !.phase = to]
  /\ UNCHANGED <<accepted, issued>>

Launch ==
  /\ service.phase = "starting"
  /\ process' = service.token
  /\ UNCHANGED <<service, accepted, issued>>

Serve  == Move("starting", "ready") /\ process = service.token /\ UNCHANGED process
Retire == Move("ready", "stopping") /\ UNCHANGED process
Resume == Move("stopping", "ready") /\ process' \in {process, NoProcess}

(* The process is killed, or dies, in any phase.                            *)
Die ==
  /\ process' = NoProcess
  /\ UNCHANGED <<service, accepted, issued>>

(* The service ends, and its lease with it.  A start command that was under *)
(* way may still have its effect.                                           *)
End ==
  /\ service.phase # "off"
  /\ service' = Off
  /\ accepted' = {}
  /\ \/ process' \in {process, NoProcess}
     \/ service.phase = "starting" /\ process' = service.token
  /\ UNCHANGED issued

Next == Start \/ Attach \/ Launch \/ Serve \/ Retire \/ Resume \/ Die \/ End
Spec == Init /\ [][Next]_<<service, process, accepted, issued>>
==============================================================================

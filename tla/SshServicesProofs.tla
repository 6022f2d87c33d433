------------------------- MODULE SshServicesProofs -------------------------
(* Proofs about SshServices: the invariants the runs check hold for any    *)
(* number of callers, forwards, leases and failures.                       *)
EXTENDS SshServices, TLAPS

ActRecs == [pc : Pcs, job : Jobs \cup {"none", "health"},
            token : 0..MaxTokens, tunnel : 0..MaxTunnels]

(* The steps of a start, those at which a lease is the task's to give back, *)
(* and those that hold the mutation lock.                                  *)
StartPcs   == {"starting", "waiting", "failed"}
OwnPcs     == {"starting", "waiting", "failed", "revoke", "unrevoke"}
HoldingPcs == {"starting", "waiting", "failed", "revoke", "unrevoke",
               "stopping", "unstopping", "closing"}
HealthPcs  == {"probe", "reprobe", "orphanProbe", "orphans"}

(* A task terminates for one of three jobs.                                *)
JobsFit ==
  \A a \in Actors :
    /\ act[a].pc \in {"term", "stopping", "revoke"} => act[a].job \in {"restart", "exit", "health"}
    /\ act[a].pc \in HealthPcs => act[a].job = "health"

(* The lock is held by the one task that is in a critical section.         *)
OneHolder ==
  \A a \in Actors : act[a].pc \in HoldingPcs <=> lock = a

(* A start is under way for the registered forward, with no service.       *)
StartHolds ==
  \A a \in Actors : act[a].pc \in StartPcs =>
    /\ ~svc.reg
    /\ tun # None /\ life[tun] = "Starting"
    /\ act[a].tunnel = tun /\ act[a].token \in Tokens

(* A stop is under way for a registered service that is not Ready, and the *)
(* entry stays away from its removal to the end of the stop.               *)
StopHolds ==
  \A a \in Actors :
    /\ act[a].pc = "stopping" => svc.reg /\ ~svc.ready
    /\ act[a].pc = "unstopping" => ~svc.ready
    /\ act[a].pc \in {"revoke", "unrevoke", "closing"} => ~svc.reg

(* A registered service runs through the forward of the registry.          *)
EntryRuns ==
  svc.reg => /\ svc.tunnel = tun /\ tun # None
             /\ life[tun] = "Running"
             /\ svc.token \in Tokens

(* A forward that is left Running after its service went has no process:   *)
(* this is why the early return of a later start serves nothing foreign.   *)
(* (An unregistration whose stop failed is about to close the forward.)    *)
LeftIsDead ==
  tun # None /\ life[tun] = "Running" /\ ~svc.reg =>
    ~proc.alive \/ \E a \in Actors : act[a].pc \in {"unrevoke", "closing"}

(* The process a start waits for is the one it started.                    *)
WaitedIsOwn ==
  \A a \in Actors : act[a].pc = "waiting" /\ proc.alive =>
    proc.token = act[a].token /\ proc.tunnel = act[a].tunnel

(* Forwards not opened yet are Stopped.                                    *)
Unopened ==
  /\ tun <= opened
  /\ \A t \in Tunnels : t > opened => life[t] = "Stopped"

SshInv ==
  /\ RecordTypes /\ JobsFit /\ OneHolder /\ StartHolds /\ StopHolds /\ EntryRuns
  /\ LeftIsDead /\ WaitedIsOwn /\ Unopened
  /\ LeaseIsOwned /\ ProcessIsServices

---------------------------------------------------------------------------
LEMMA InitInv == Init => SshInv
BY SshAssumption DEF SshAssumption, Init, SshInv, RecordTypes, JobsFit, OneHolder, StartHolds,
   StopHolds, EntryRuns, LeftIsDead, WaitedIsOwn, Unopened, LeaseIsOwned,
   ProcessIsServices, Starting, Revoking, NoService, NoProcess, AtRest, Actors, Tokens, Tunnels,
   None, NoOne, Jobs, Pcs, StartPcs, OwnPcs, HoldingPcs, HealthPcs

(* What a move of one task to another step changes.                        *)
LEMMA MoveAct ==
  ASSUME act \in [Actors -> ActRecs], NEW a \in Actors, NEW pc \in Pcs,
         act' = [act EXCEPT ![a].pc = pc]
  PROVE  /\ act' \in [Actors -> ActRecs]
         /\ act'[a].pc = pc
         /\ act'[a].job = act[a].job
         /\ act'[a].token = act[a].token
         /\ act'[a].tunnel = act[a].tunnel
         /\ \A b \in Actors : b # a => act'[b] = act[b]
BY DEF ActRecs

LEMMA SetAct ==
  ASSUME act \in [Actors -> ActRecs], NEW a \in Actors, NEW r \in ActRecs,
         act' = [act EXCEPT ![a] = r]
  PROVE  /\ act' \in [Actors -> ActRecs]
         /\ act'[a] = r
         /\ \A b \in Actors : b # a => act'[b] = act[b]
OBVIOUS

LEMMA RestRecord == AtRest \in ActRecs /\ AtRest.pc = "idle"
BY SshAssumption DEF SshAssumption, AtRest, ActRecs, Pcs, None

LEMMA HealthRecord ==
  ASSUME NEW pc \in Pcs, NEW t \in 0..MaxTunnels
  PROVE  [pc |-> pc, job |-> "health", token |-> None, tunnel |-> t] \in ActRecs
BY SshAssumption DEF SshAssumption, ActRecs, None

LEMMA JobRecord ==
  ASSUME NEW pc \in Pcs, NEW job \in Jobs, NEW r \in ActRecs
  PROVE  /\ [r EXCEPT !.pc = pc, !.job = job] \in ActRecs
         /\ [r EXCEPT !.pc = pc, !.job = job].pc = pc
         /\ [r EXCEPT !.pc = pc, !.job = job].job = job
BY DEF ActRecs

LEMMA AimRecord ==
  ASSUME NEW pc \in Pcs, NEW t \in 0..MaxTunnels, NEW r \in ActRecs
  PROVE  /\ [r EXCEPT !.pc = pc, !.tunnel = t] \in ActRecs
         /\ [r EXCEPT !.pc = pc, !.tunnel = t].pc = pc
         /\ [r EXCEPT !.pc = pc, !.tunnel = t].job = r.job
BY DEF ActRecs

(* A step that only moves a task outside of the critical sections, and may *)
(* fail, disturbs nothing.                                                 *)
LEMMA QuietMove ==
  ASSUME SshInv, NEW a \in Actors,
         UNCHANGED <<lock, svc, tun, life, proc, leases, issued, opened>>,
         faults' \in 0..MaxFaults,
         act' \in [Actors -> ActRecs],
         act[a].pc \notin HoldingPcs,
         act'[a].pc \notin HoldingPcs,
         act'[a].pc = "term" => act'[a].job \in {"restart", "exit", "health"},
         act'[a].pc \in HealthPcs => act'[a].job = "health",
         \A b \in Actors : b # a => act'[b] = act[b]
  PROVE  SshInv'
<1>1. RecordTypes'
  BY DEF SshInv, RecordTypes, ActRecs
<1>2. JobsFit'
  BY DEF SshInv, JobsFit, HoldingPcs, OwnPcs, StartPcs, HealthPcs
<1>3. OneHolder' /\ StartHolds' /\ StopHolds' /\ WaitedIsOwn'
  BY DEF SshInv, OneHolder, StartHolds, StopHolds, WaitedIsOwn, HoldingPcs, OwnPcs, StartPcs
<1>4. EntryRuns' /\ Unopened' /\ ProcessIsServices'
  BY DEF SshInv, EntryRuns, Unopened, ProcessIsServices
<1>5. LeaseIsOwned'
  <2>1. /\ (Starting \cup Revoking)' = Starting \cup Revoking
        /\ \A b \in Starting \cup Revoking : act'[b] = act[b]
    BY DEF Starting, Revoking, HoldingPcs
  <2> QED
    BY <2>1 DEF SshInv, LeaseIsOwned
<1>6. LeftIsDead'
  BY DEF SshInv, LeftIsDead, HoldingPcs
<1> QED
  BY <1>1, <1>2, <1>3, <1>4, <1>5, <1>6 DEF SshInv

LEMMA FaultType ==
  ASSUME RecordTypes, Fault \/ UNCHANGED faults
  PROVE  faults' \in 0..MaxFaults
BY SshAssumption DEF SshAssumption, RecordTypes, Fault

LEMMA ActType == RecordTypes => act \in [Actors -> ActRecs]
BY DEF RecordTypes, ActRecs

LEMMA StartJobInv ==
  ASSUME SshInv, NEW a \in Actors, NEW job \in Jobs, StartJob(a, job)
  PROVE  SshInv'
<1>1. RecordTypes /\ act \in [Actors -> ActRecs]
  BY ActType DEF SshInv
<1>2. /\ FirstPc(job) \in Pcs \ (HoldingPcs \cup HealthPcs)
      /\ FirstPc(job) = "term" => job \in {"restart", "exit", "health"}
  BY DEF FirstPc, Jobs, Pcs, HoldingPcs, OwnPcs, StartPcs, HealthPcs
<1> DEFINE r == [AtRest EXCEPT !.pc = FirstPc(job), !.job = job]
<1>3. r \in ActRecs /\ r.pc = FirstPc(job) /\ r.job = job
  BY <1>2, RestRecord, JobRecord
<1>4. act' = [act EXCEPT ![a] = r]
  BY DEF StartJob
<1> HIDE DEF r
<1>5. act' \in [Actors -> ActRecs] /\ act'[a] = r /\ \A b \in Actors : b # a => act'[b] = act[b]
  BY <1>1, <1>3, <1>4, SetAct
<1>6. act[a].pc \notin HoldingPcs /\ faults' \in 0..MaxFaults
  BY <1>1 DEF StartJob, HoldingPcs, OwnPcs, StartPcs, RecordTypes
<1> QED
  BY <1>2, <1>3, <1>5, <1>6, QuietMove DEF StartJob

(* The steps of a task that end it, or move it, outside the lock.          *)
LEMMA FinishInv ==
  ASSUME SshInv, NEW a \in Actors, Finish(a), act[a].pc \notin HoldingPcs,
         UNCHANGED <<lock, svc, tun, life, proc, leases, issued, opened>>,
         Fault \/ UNCHANGED faults
  PROVE  SshInv'
<1>1. RecordTypes /\ act \in [Actors -> ActRecs]
  BY ActType DEF SshInv
<1>2. act' \in [Actors -> ActRecs] /\ act'[a] = AtRest
      /\ \A b \in Actors : b # a => act'[b] = act[b]
  BY <1>1, RestRecord, SetAct DEF Finish
<1>3. faults' \in 0..MaxFaults
  BY <1>1, FaultType
<1>4. AtRest.pc \notin HoldingPcs \cup HealthPcs /\ AtRest.pc # "term"
  BY DEF AtRest, HoldingPcs, OwnPcs, StartPcs, HealthPcs
<1> QED
  BY <1>2, <1>3, <1>4, QuietMove

LEMMA RefusedInv ==
  ASSUME SshInv, NEW a \in Actors,
         OpenFails(a) \/ SetReuses(a) \/ SetRefused(a)
  PROVE  SshInv'
<1>1. /\ Finish(a) /\ act[a].pc \notin HoldingPcs
      /\ UNCHANGED <<lock, svc, tun, life, proc, leases, issued, opened>>
      /\ Fault \/ UNCHANGED faults
  BY DEF OpenFails, SetReuses, SetRefused, HoldingPcs, OwnPcs, StartPcs
<1> QED
  BY <1>1, FinishInv

LEMMA NextOfTerminate ==
  ASSUME NEW a \in Actors, act[a].job \in {"restart", "exit", "health"}
  PROVE  /\ AfterTerminate(a) \in {"set", "drain", "orphans"}
         /\ AfterTerminate(a) = "orphans" => act[a].job = "health"
BY DEF AfterTerminate

LEMMA TerminateMissingInv ==
  ASSUME SshInv, NEW a \in Actors, TerminateMissing(a)
  PROVE  SshInv'
<1>1. RecordTypes /\ act \in [Actors -> ActRecs]
  BY ActType DEF SshInv
<1>2. act[a].pc \notin HoldingPcs /\ act[a].job \in {"restart", "exit", "health"}
  BY DEF TerminateMissing, SshInv, JobsFit, HoldingPcs, OwnPcs, StartPcs
<1>3. CASE Finish(a)
  BY <1>2, <1>3, FinishInv DEF TerminateMissing
<1>4. CASE Goto(a, AfterTerminate(a))
  <2>1. AfterTerminate(a) \in Pcs \ HoldingPcs /\ AfterTerminate(a) # "term"
        /\ (AfterTerminate(a) \in HealthPcs => act[a].job = "health")
    BY <1>2, NextOfTerminate DEF Pcs, HoldingPcs, OwnPcs, StartPcs, HealthPcs
  <2>2. act' \in [Actors -> ActRecs] /\ act'[a].pc = AfterTerminate(a)
        /\ act'[a].job = act[a].job /\ \A b \in Actors : b # a => act'[b] = act[b]
    BY <1>1, <1>4, <2>1, MoveAct DEF Goto
  <2>3. faults' \in 0..MaxFaults
    BY <1>1 DEF TerminateMissing, RecordTypes
  <2> QED
    BY <1>2, <2>1, <2>2, <2>3, QuietMove DEF TerminateMissing
<1> QED
  BY <1>3, <1>4 DEF TerminateMissing, AfterError

LEMMA HealthListsInv ==
  ASSUME SshInv, HealthLists
  PROVE  SshInv'
<1>1. RecordTypes /\ act \in [Actors -> ActRecs] /\ Health \in Actors /\ "list" \in Pcs
  BY ActType DEF SshInv, Actors, Pcs
<1>2. /\ act' \in [Actors -> ActRecs] /\ act'[Health].pc = "list"
      /\ \A b \in Actors : b # Health => act'[b] = act[b]
  BY <1>1, MoveAct DEF HealthLists, Goto
<1>3. /\ act[Health].pc \notin HoldingPcs /\ "list" \notin HoldingPcs \cup HealthPcs
      /\ faults' \in 0..MaxFaults
  BY <1>1 DEF HealthLists, HoldingPcs, HealthPcs, RecordTypes
<1> QED
  BY <1>1, <1>2, <1>3, QuietMove DEF HealthLists

LEMMA HealthInv ==
  ASSUME SshInv, HealthTask
  PROVE  SshInv'
<1>1. RecordTypes /\ act \in [Actors -> ActRecs] /\ Health \in Actors
  BY ActType DEF SshInv, Actors
<1>2. ASSUME NEW r \in ActRecs, act' = [act EXCEPT ![Health] = r],
             act[Health].pc \notin HoldingPcs,
             r.pc \notin HoldingPcs,
             r.pc = "term" \/ r.pc \in HealthPcs => r.job = "health",
             UNCHANGED <<lock, svc, tun, life, proc, leases, issued, opened>>,
             Fault \/ UNCHANGED faults
      PROVE  SshInv'
  <2>1. act' \in [Actors -> ActRecs] /\ act'[Health] = r
        /\ \A b \in Actors : b # Health => act'[b] = act[b]
    BY <1>1, <1>2, SetAct
  <2>2. faults' \in 0..MaxFaults
    BY <1>1, <1>2, FaultType
  <2> QED
    BY <1>1, <1>2, <2>1, <2>2, QuietMove
<1>3. AtRest \in ActRecs /\ AtRest.pc = "idle"
  BY RestRecord
<1>4. CASE HealthBegin
  <2> DEFINE pc == IF svc.reg THEN "probe" ELSE "orphans"
             r  == [pc |-> pc, job |-> "health", token |-> None, tunnel |-> svc.tunnel]
  <2>1. pc \in Pcs /\ pc \notin HoldingPcs /\ svc.tunnel \in 0..MaxTunnels
    BY <1>1 DEF Pcs, HoldingPcs, OwnPcs, StartPcs, RecordTypes
  <2>2. act[Health].pc \notin HoldingPcs
    BY <1>4 DEF HealthBegin, HoldingPcs, OwnPcs, StartPcs
  <2>3. r \in ActRecs
    BY <2>1, HealthRecord
  <2> QED
    BY <1>2, <1>4, <2>1, <2>2, <2>3 DEF HealthBegin
<1>5. CASE HealthOrphans
  <2>1. act[Health].pc \notin HoldingPcs /\ act[Health].job = "health"
    BY <1>1, <1>5 DEF HealthOrphans, HoldingPcs, OwnPcs, StartPcs, SshInv, JobsFit, HealthPcs
  <2>2. CASE tun = None \/ svc.reg
    <3>1. act' = [act EXCEPT ![Health] = AtRest]
      BY <1>5, <2>2 DEF HealthOrphans
    <3>2. AtRest.pc \notin HoldingPcs \cup HealthPcs /\ AtRest.pc # "term"
      BY <1>3 DEF HoldingPcs, OwnPcs, StartPcs, HealthPcs
    <3> QED
      BY <1>2, <1>3, <1>5, <2>1, <3>1, <3>2 DEF HealthOrphans
  <2>3. CASE ~(tun = None \/ svc.reg)
    <3> DEFINE r == [act[Health] EXCEPT !.pc = "orphanProbe", !.tunnel = tun]
    <3>1. r \in ActRecs /\ r.pc = "orphanProbe" /\ r.job = "health"
      <4>1. "orphanProbe" \in Pcs /\ tun \in 0..MaxTunnels /\ act[Health] \in ActRecs
        BY <1>1 DEF RecordTypes, Pcs
      <4>2. \A q \in ActRecs :
              /\ [q EXCEPT !.pc = "orphanProbe", !.tunnel = tun] \in ActRecs
              /\ [q EXCEPT !.pc = "orphanProbe", !.tunnel = tun].pc = "orphanProbe"
              /\ [q EXCEPT !.pc = "orphanProbe", !.tunnel = tun].job = q.job
        BY <4>1, AimRecord
      <4> QED
        BY <2>1, <4>1, <4>2
    <3>2. act' = [act EXCEPT ![Health] = r]
      BY <1>5, <2>3 DEF HealthOrphans
    <3> QED
      BY <1>2, <1>5, <2>1, <3>1, <3>2 DEF HealthOrphans, HoldingPcs, OwnPcs, StartPcs
  <2> QED
    BY <2>2, <2>3
<1>6. ASSUME NEW alive \in BOOLEAN, HealthProbe(alive)
      PROVE  SshInv'
  <2>1. act[Health].pc \notin HoldingPcs /\ act[Health].job = "health"
    BY <1>1, <1>6 DEF HealthProbe, HoldingPcs, OwnPcs, StartPcs, SshInv, JobsFit, HealthPcs
  <2>2. PICK r \in {AtRest} \cup {[act[Health] EXCEPT !.pc = pc] :
                      pc \in {"set", "reprobe", "term", "orphans"}} :
          act' = [act EXCEPT ![Health] = r]
    BY <1>6 DEF HealthProbe
  <2>3. r \in ActRecs /\ r.pc \in {"idle", "set", "reprobe", "term", "orphans"}
        /\ (r.pc # "idle" => r.job = "health")
    BY <1>1, <1>3, <2>1 DEF ActRecs, Pcs
  <2>4. r.pc \notin HoldingPcs /\ (r.pc = "term" \/ r.pc \in HealthPcs => r.job = "health")
    BY <2>3 DEF HoldingPcs, OwnPcs, StartPcs, HealthPcs
  <2>5. Fault \/ UNCHANGED faults
    BY <1>6 DEF HealthProbe, Probe
  <2> QED
    BY <1>2, <1>6, <2>1, <2>2, <2>3, <2>4, <2>5 DEF HealthProbe
<1> QED
  BY <1>4, <1>5, <1>6, HealthListsInv DEF HealthTask

---------------------------------------------------------------------------
(* The critical sections.                                                  *)

LEMMA NobodyHolds ==
  ASSUME SshInv, lock = NoOne
  PROVE  \A b \in Actors : act[b].pc \notin HoldingPcs
BY SshAssumption DEF SshAssumption, SshInv, OneHolder, NoOne, Actors

LEMMA OnlyHolder ==
  ASSUME SshInv, NEW a \in Actors, act[a].pc \in HoldingPcs
  PROVE  lock = a /\ \A b \in Actors : b # a => act[b].pc \notin HoldingPcs
BY DEF SshInv, OneHolder

(* What is left to show of a step of the one task that may hold the lock.  *)
LEMMA HolderMove ==
  ASSUME SshInv, NEW a \in Actors,
         \A b \in Actors : b # a => act'[b] = act[b] /\ act[b].pc \notin HoldingPcs,
         act'[a].pc \in {"term", "stopping", "revoke"} => act'[a].job \in {"restart", "exit", "health"},
         act'[a].pc \in HealthPcs => act'[a].job = "health",
         lock' = IF act'[a].pc \in HoldingPcs THEN a ELSE NoOne,
         act'[a].pc \in StartPcs =>
           /\ ~svc'.reg /\ tun' # None /\ life'[tun'] = "Starting"
           /\ act'[a].tunnel = tun' /\ act'[a].token \in Tokens,
         act'[a].pc = "stopping" => svc'.reg /\ ~svc'.ready,
         act'[a].pc = "unstopping" => ~svc'.ready,
         act'[a].pc \in {"revoke", "unrevoke", "closing"} => ~svc'.reg,
         act'[a].pc = "waiting" /\ proc'.alive =>
           proc'.token = act'[a].token /\ proc'.tunnel = act'[a].tunnel,
         leases' = (IF svc'.reg THEN {svc'.token} ELSE {}) \cup
                   (IF act'[a].pc \in OwnPcs THEN {act'[a].token} ELSE {})
  PROVE  /\ JobsFit' /\ OneHolder' /\ StartHolds' /\ StopHolds' /\ WaitedIsOwn'
         /\ LeaseIsOwned'
<1>1. JobsFit'
  BY DEF SshInv, JobsFit
<1>2. OneHolder'
  BY SshAssumption DEF SshAssumption, OneHolder, NoOne, Actors
<1>3. StartHolds' /\ StopHolds' /\ WaitedIsOwn'
  BY DEF StartHolds, StopHolds, WaitedIsOwn, HoldingPcs, OwnPcs, StartPcs
<1>4. LeaseIsOwned'
  <2>1. (Starting \cup Revoking)' = IF act'[a].pc \in OwnPcs THEN {a} ELSE {}
    BY DEF Starting, Revoking, HoldingPcs, OwnPcs
  <2>2. {act[b].token : b \in Starting \cup Revoking}'
          = IF act'[a].pc \in OwnPcs THEN {act'[a].token} ELSE {}
    BY <2>1
  <2> QED
    BY <2>2 DEF LeaseIsOwned
<1> QED
  BY <1>1, <1>2, <1>3, <1>4

LEMMA OpenTunnelInv ==
  ASSUME SshInv, NEW a \in Actors, OpenTunnel(a)
  PROVE  SshInv'
<1>1. RecordTypes /\ act \in [Actors -> ActRecs] /\ "set" \in Pcs
  BY ActType DEF SshInv, Pcs
<1>2. act' \in [Actors -> ActRecs] /\ act'[a].pc = "set"
      /\ \A b \in Actors : b # a => act'[b] = act[b]
  BY <1>1, MoveAct DEF OpenTunnel, Goto
<1>3. opened \in Nat /\ MaxTunnels \in Nat /\ opened < MaxTunnels
      /\ opened' = opened + 1 /\ opened + 1 \in Tunnels
  BY <1>1, SshAssumption DEF SshAssumption, RecordTypes, OpenTunnel, Tunnels
<1>4. UNCHANGED <<lock, svc, life, proc, leases, issued, faults>>
  BY DEF OpenTunnel
<1>5. RecordTypes'
  BY <1>1, <1>2, <1>3, <1>4 DEF RecordTypes, OpenTunnel, ActRecs, Tunnels
<1>6. tun = None => ~svc.reg /\ \A b \in Actors : act[b].pc \notin StartPcs
  BY DEF SshInv, EntryRuns, StartHolds
<1>7. tun # None => tun' = tun
  BY DEF OpenTunnel
<1>8. tun = None => tun' = opened + 1 /\ life[opened + 1] = "Stopped"
  BY <1>3 DEF OpenTunnel, SshInv, Unopened
<1>9. JobsFit' /\ OneHolder' /\ StopHolds' /\ WaitedIsOwn' /\ StartHolds'
  <2>1. act[a].pc = "opening"
    BY DEF OpenTunnel
  <2> QED
    BY <1>2, <1>4, <1>6, <1>7, <2>1
       DEF SshInv, JobsFit, OneHolder, StopHolds, WaitedIsOwn, StartHolds,
           HoldingPcs, OwnPcs, StartPcs, HealthPcs
<1>10. EntryRuns' /\ LeftIsDead' /\ ProcessIsServices'
  <2>1. EntryRuns' /\ ProcessIsServices'
    BY <1>4, <1>6, <1>7, <1>8 DEF SshInv, EntryRuns, ProcessIsServices
  <2>2. \A b \in Actors :
          act[b].pc \in {"unrevoke", "closing"} => act'[b].pc \in {"unrevoke", "closing"}
    BY <1>2 DEF OpenTunnel
  <2>3. LeftIsDead'
    BY <1>4, <1>6, <1>7, <1>8, <2>2 DEF SshInv, LeftIsDead
  <2> QED
    BY <2>1, <2>3
<1>11. Unopened'
  BY <1>1, <1>3, <1>4, <1>7, <1>8 DEF SshInv, Unopened, RecordTypes, Tunnels
<1>12. LeaseIsOwned'
  <2>1. act[a].pc = "opening"
    BY DEF OpenTunnel
  <2>2. /\ (Starting \cup Revoking)' = Starting \cup Revoking
        /\ \A b \in Starting \cup Revoking : act'[b] = act[b]
    BY <1>2, <2>1 DEF Starting, Revoking
  <2> QED
    BY <1>4, <2>2 DEF SshInv, LeaseIsOwned
<1> QED
  BY <1>5, <1>9, <1>10, <1>11, <1>12 DEF SshInv

(* A lease is issued while nobody holds the lock.                          *)
LEMMA LeaseFacts ==
  ASSUME SshInv, NEW a \in Actors, Lease(a)
  PROVE  /\ RecordTypes /\ act \in [Actors -> ActRecs]
         /\ issued' \in Tokens /\ issued' = issued + 1 /\ issued' \in 0..MaxTokens
         /\ \A b \in Actors : act[b].pc \notin HoldingPcs
         /\ ~svc.reg /\ tun \in Tunnels /\ leases' = {issued'}
<1>1. RecordTypes /\ act \in [Actors -> ActRecs]
  BY ActType DEF SshInv
<1>2. issued \in Nat /\ MaxTokens \in Nat /\ issued < MaxTokens
  BY <1>1, SshAssumption DEF SshAssumption, RecordTypes, Lease
<1>3. tun \in Tunnels
  BY <1>1, SshAssumption DEF SshAssumption, RecordTypes, Lease, Tunnels, None
<1>4. \A b \in Actors : act[b].pc \notin HoldingPcs
  BY NobodyHolds DEF Lease
<1> QED
  BY <1>1, <1>2, <1>3, <1>4 DEF Lease, Tokens

LEMMA SetOnRunningInv ==
  ASSUME SshInv, NEW a \in Actors, SetOnRunning(a)
  PROVE  SshInv'
<1>1. Lease(a) /\ UNCHANGED <<tun, life, proc, opened, faults, lock>>
      /\ life[tun] = "Running" /\ lock = NoOne
      /\ svc' = [reg |-> TRUE, token |-> issued', tunnel |-> tun, ready |-> TRUE]
  BY DEF SetOnRunning, Lease
<1>2. /\ RecordTypes /\ act \in [Actors -> ActRecs]
      /\ issued' \in Tokens /\ issued' = issued + 1 /\ issued' \in 0..MaxTokens
      /\ \A b \in Actors : act[b].pc \notin HoldingPcs
      /\ ~svc.reg /\ tun \in Tunnels /\ leases' = {issued'}
  BY <1>1, LeaseFacts
<1>3. act' \in [Actors -> ActRecs] /\ act'[a] = AtRest /\ AtRest.pc = "idle"
      /\ \A b \in Actors : b # a => act'[b] = act[b]
  BY <1>2, RestRecord, SetAct DEF SetOnRunning, Finish
<1>4. RecordTypes'
  BY <1>1, <1>2, <1>3 DEF RecordTypes, ActRecs, Tunnels
<1>5. ~proc.alive
  BY <1>1, <1>2 DEF SshInv, LeftIsDead, Lease, HoldingPcs
<1>6. EntryRuns' /\ LeftIsDead' /\ Unopened' /\ ProcessIsServices'
  BY <1>1, <1>2, <1>5, RestRecord
     DEF SshInv, EntryRuns, LeftIsDead, Unopened, ProcessIsServices, Lease
<1>7. JobsFit' /\ OneHolder' /\ StartHolds' /\ StopHolds' /\ WaitedIsOwn' /\ LeaseIsOwned'
  <2>1. act'[a].pc = "idle" /\ "idle" \notin HoldingPcs \cup HealthPcs \cup OwnPcs \cup StartPcs
    BY <1>3 DEF HoldingPcs, OwnPcs, StartPcs, HealthPcs
  <2>2. leases' = {svc'.token} /\ svc'.reg
    BY <1>1, <1>2
  <2> QED
    BY <1>1, <1>2, <1>3, <2>1, <2>2, HolderMove
<1> QED
  BY <1>4, <1>6, <1>7 DEF SshInv

LEMMA SetStartsInv ==
  ASSUME SshInv, NEW a \in Actors, SetStarts(a)
  PROVE  SshInv'
<1>1. Lease(a) /\ UNCHANGED <<svc, tun, proc, opened, faults>>
      /\ life' = [life EXCEPT ![tun] = "Starting"] /\ lock' = a
  BY DEF SetStarts
<1>2. /\ RecordTypes /\ act \in [Actors -> ActRecs]
      /\ issued' \in Tokens /\ issued' = issued + 1 /\ issued' \in 0..MaxTokens
      /\ \A b \in Actors : act[b].pc \notin HoldingPcs
      /\ ~svc.reg /\ tun \in Tunnels /\ leases' = {issued'}
  BY <1>1, LeaseFacts
<1>3. /\ act' \in [Actors -> ActRecs]
      /\ act'[a].pc = "starting" /\ act'[a].token = issued' /\ act'[a].tunnel = tun
      /\ \A b \in Actors : b # a => act'[b] = act[b]
  <2>1. tun \in 0..MaxTunnels /\ "starting" \in Pcs
    BY <1>2 DEF RecordTypes, Pcs
  <2>2. act' = [act EXCEPT ![a].pc = "starting", ![a].token = issued', ![a].tunnel = tun]
    BY <1>2 DEF SetStarts
  <2> QED
    BY <1>2, <2>1, <2>2 DEF ActRecs
<1>4. life' \in [Tunnels -> {"Stopped", "Starting", "Running"}] /\ life'[tun] = "Starting"
      /\ \A t \in Tunnels : t # tun => life'[t] = life[t]
  BY <1>1, <1>2 DEF RecordTypes
<1>5. RecordTypes'
  BY <1>1, <1>2, <1>3, <1>4 DEF RecordTypes, ActRecs
<1>6. tun <= opened /\ opened \in Nat /\ tun \in Nat /\ tun # None
  BY <1>2, SshAssumption DEF SshAssumption, SshInv, Unopened, RecordTypes, Tunnels, None
<1>7. EntryRuns' /\ LeftIsDead' /\ ProcessIsServices'
  BY <1>1, <1>2, <1>4 DEF EntryRuns, LeftIsDead, ProcessIsServices
<1>8. Unopened'
  <2>1. \A t \in Tunnels : t > opened => t # tun
    BY <1>6 DEF Tunnels
  <2> QED
    BY <1>1, <1>4, <1>6, <2>1 DEF SshInv, Unopened
<1>9. JobsFit' /\ OneHolder' /\ StartHolds' /\ StopHolds' /\ WaitedIsOwn' /\ LeaseIsOwned'
  <2>1. /\ act'[a].pc \in StartPcs /\ act'[a].pc \in OwnPcs /\ act'[a].pc \in HoldingPcs
        /\ act'[a].pc \notin HealthPcs
        /\ act'[a].pc \notin {"term", "stopping", "unstopping", "waiting", "revoke",
                              "unrevoke", "closing"}
    BY <1>3 DEF HoldingPcs, OwnPcs, StartPcs, HealthPcs
  <2>2. leases' = {act'[a].token} /\ ~svc'.reg
    BY <1>1, <1>2, <1>3
  <2> QED
    BY <1>1, <1>2, <1>3, <1>4, <1>6, <2>1, <2>2, HolderMove
<1> QED
  BY <1>5, <1>7, <1>8, <1>9 DEF SshInv

(* What every step of a start knows.                                       *)
LEMMA StartFacts ==
  ASSUME SshInv, NEW a \in Actors, act[a].pc \in StartPcs
  PROVE  /\ RecordTypes /\ act \in [Actors -> ActRecs]
         /\ lock = a /\ \A b \in Actors : b # a => act[b].pc \notin HoldingPcs
         /\ ~svc.reg /\ tun \in Tunnels /\ tun # None /\ life[tun] = "Starting"
         /\ act[a].tunnel = tun /\ act[a].token \in Tokens
         /\ leases = {act[a].token}
<1>1. RecordTypes /\ act \in [Actors -> ActRecs]
  BY ActType DEF SshInv
<1>2. lock = a /\ \A b \in Actors : b # a => act[b].pc \notin HoldingPcs
  BY OnlyHolder DEF HoldingPcs, OwnPcs, StartPcs
<1>3. ~svc.reg /\ tun # None /\ life[tun] = "Starting" /\ act[a].tunnel = tun
      /\ act[a].token \in Tokens
  BY DEF SshInv, StartHolds
<1>4. tun \in Tunnels
  BY <1>1, <1>3, SshAssumption DEF SshAssumption, RecordTypes, Tunnels, None
<1>5. leases = {act[a].token}
  <2>1. Starting \cup Revoking = {a}
    BY <1>2 DEF Starting, Revoking, HoldingPcs, StartPcs
  <2>2. {act[b].token : b \in Starting \cup Revoking} = {act[a].token}
    BY <2>1
  <2> QED
    BY <1>3, <2>2 DEF SshInv, LeaseIsOwned
<1> QED
  BY <1>1, <1>2, <1>3, <1>4, <1>5

(* A step of a start that goes on with it.                                 *)
LEMMA StartGoesOn ==
  ASSUME SshInv, NEW a \in Actors, NEW pc \in {"waiting", "failed"},
         act[a].pc \in StartPcs, Goto(a, pc),
         UNCHANGED <<lock, svc, tun, life, leases, issued, opened>>,
         Fault \/ UNCHANGED faults,
         proc' \in {proc, NoProcess, Started(a)},
         pc = "waiting" => proc' = Started(a)
  PROVE  SshInv'
<1>1. /\ RecordTypes /\ act \in [Actors -> ActRecs]
      /\ lock = a /\ \A b \in Actors : b # a => act[b].pc \notin HoldingPcs
      /\ ~svc.reg /\ tun \in Tunnels /\ tun # None /\ life[tun] = "Starting"
      /\ act[a].tunnel = tun /\ act[a].token \in Tokens
      /\ leases = {act[a].token}
  BY StartFacts
<1>2. pc \in Pcs
  BY DEF Pcs
<1>3. /\ act' \in [Actors -> ActRecs]
      /\ act'[a].pc = pc /\ act'[a].token = act[a].token
      /\ act'[a].tunnel = act[a].tunnel
      /\ \A b \in Actors : b # a => act'[b] = act[b]
  BY <1>1, <1>2, MoveAct DEF Goto
<1>4. faults' \in 0..MaxFaults
  BY <1>1, FaultType
<1>5. Started(a) \in [alive : BOOLEAN, token : 0..MaxTokens, tunnel : 0..MaxTunnels]
      /\ NoProcess \in [alive : BOOLEAN, token : 0..MaxTokens, tunnel : 0..MaxTunnels]
  BY <1>1, SshAssumption DEF SshAssumption, Started, NoProcess, ActRecs, None
<1>6. RecordTypes'
  BY <1>1, <1>3, <1>4, <1>5 DEF RecordTypes, ActRecs
<1>7. EntryRuns' /\ LeftIsDead' /\ Unopened' /\ ProcessIsServices'
  BY <1>1 DEF SshInv, EntryRuns, LeftIsDead, Unopened, ProcessIsServices
<1>8. JobsFit' /\ OneHolder' /\ StartHolds' /\ StopHolds' /\ WaitedIsOwn' /\ LeaseIsOwned'
  <2>1. /\ pc \in StartPcs /\ pc \in OwnPcs /\ pc \in HoldingPcs /\ pc \notin HealthPcs
        /\ pc \notin {"term", "stopping", "unstopping", "revoke", "unrevoke", "closing"}
    BY DEF HoldingPcs, OwnPcs, StartPcs, HealthPcs
  <2>2. leases' = {act'[a].token} /\ ~svc'.reg
    BY <1>1, <1>3
  <2>3. pc = "waiting" => proc'.token = act'[a].token /\ proc'.tunnel = act'[a].tunnel
    BY <1>3 DEF Started
  <2> QED
    BY <1>1, <1>3, <2>1, <2>2, <2>3, HolderMove
<1> QED
  BY <1>6, <1>7, <1>8 DEF SshInv

LEMMA StartCommandInv ==
  ASSUME SshInv, NEW a \in Actors, StartCommand(a) \/ WaitFails(a)
  PROVE  SshInv'
<1>1. act[a].pc \in StartPcs
  BY DEF StartCommand, WaitFails, StartPcs
<1>2. UNCHANGED <<lock, svc, tun, life, leases, issued, opened>>
      /\ (Fault \/ UNCHANGED faults)
      /\ proc' \in {proc, NoProcess, Started(a)}
  BY DEF StartCommand, WaitFails
<1>3. Goto(a, "failed") \/ (Goto(a, "waiting") /\ proc' = Started(a))
  BY DEF StartCommand, WaitFails
<1> QED
  BY <1>1, <1>2, <1>3, StartGoesOn

LEMMA WaitReadyInv ==
  ASSUME SshInv, NEW a \in Actors, WaitReady(a)
  PROVE  SshInv'
<1>1. act[a].pc \in StartPcs /\ act[a].pc = "waiting"
  BY DEF WaitReady, StartPcs
<1>2. /\ RecordTypes /\ act \in [Actors -> ActRecs]
      /\ lock = a /\ \A b \in Actors : b # a => act[b].pc \notin HoldingPcs
      /\ ~svc.reg /\ tun \in Tunnels /\ tun # None /\ life[tun] = "Starting"
      /\ act[a].tunnel = tun /\ act[a].token \in Tokens
      /\ leases = {act[a].token}
  BY <1>1, StartFacts
<1>3. UNCHANGED <<tun, proc, leases, issued, opened, faults>> /\ lock' = NoOne
      /\ life' = [life EXCEPT ![tun] = "Running"]
      /\ svc' = [reg |-> TRUE, token |-> act[a].token, tunnel |-> tun, ready |-> TRUE]
  BY <1>2 DEF WaitReady
<1>4. act' \in [Actors -> ActRecs] /\ act'[a] = AtRest /\ AtRest.pc = "idle"
      /\ \A b \in Actors : b # a => act'[b] = act[b]
  BY <1>2, RestRecord, SetAct DEF WaitReady, Finish
<1>5. life' \in [Tunnels -> {"Stopped", "Starting", "Running"}] /\ life'[tun] = "Running"
      /\ \A t \in Tunnels : t # tun => life'[t] = life[t]
  BY <1>2, <1>3 DEF RecordTypes
<1>6. RecordTypes'
  BY <1>2, <1>3, <1>4, <1>5 DEF RecordTypes, ActRecs, Tokens, Tunnels
<1>7. proc.alive => proc.token = act[a].token /\ proc.tunnel = tun
  BY <1>1, <1>2 DEF SshInv, WaitedIsOwn
<1>8. EntryRuns' /\ LeftIsDead' /\ ProcessIsServices'
  BY <1>2, <1>3, <1>5, <1>7 DEF EntryRuns, LeftIsDead, ProcessIsServices
<1>9. Unopened'
  <2>1. opened \in Nat /\ tun <= opened /\ \A t \in Tunnels : t > opened => t # tun
    BY <1>2, SshAssumption DEF SshAssumption, SshInv, Unopened, RecordTypes, Tunnels
  <2> QED
    BY <1>3, <1>5, <2>1 DEF SshInv, Unopened
<1>10. JobsFit' /\ OneHolder' /\ StartHolds' /\ StopHolds' /\ WaitedIsOwn' /\ LeaseIsOwned'
  <2>1. act'[a].pc = "idle" /\ "idle" \notin HoldingPcs \cup HealthPcs \cup OwnPcs \cup StartPcs
    BY <1>4 DEF HoldingPcs, OwnPcs, StartPcs, HealthPcs
  <2>2. leases' = {svc'.token} /\ svc'.reg
    BY <1>2, <1>3
  <2> QED
    BY <1>2, <1>3, <1>4, <2>1, <2>2, HolderMove
<1> QED
  BY <1>6, <1>8, <1>9, <1>10 DEF SshInv

LEMMA StartFailedInv ==
  ASSUME SshInv, NEW a \in Actors, StartFailed(a)
  PROVE  SshInv'
<1>1. act[a].pc \in StartPcs
  BY DEF StartFailed, StartPcs
<1>2. /\ RecordTypes /\ act \in [Actors -> ActRecs]
      /\ lock = a /\ \A b \in Actors : b # a => act[b].pc \notin HoldingPcs
      /\ ~svc.reg /\ tun \in Tunnels /\ tun # None /\ life[tun] = "Starting"
      /\ act[a].tunnel = tun /\ act[a].token \in Tokens
      /\ leases = {act[a].token}
  BY <1>1, StartFacts
<1>3. UNCHANGED <<svc, tun, proc, issued, opened, faults>> /\ lock' = NoOne
      /\ life' = [life EXCEPT ![tun] = "Stopped"] /\ leases' = {}
  BY <1>2 DEF StartFailed
<1>4. act' \in [Actors -> ActRecs] /\ act'[a] = AtRest /\ AtRest.pc = "idle"
      /\ \A b \in Actors : b # a => act'[b] = act[b]
  BY <1>2, RestRecord, SetAct DEF StartFailed, Finish
<1>5. life' \in [Tunnels -> {"Stopped", "Starting", "Running"}] /\ life'[tun] = "Stopped"
      /\ \A t \in Tunnels : t # tun => life'[t] = life[t]
  BY <1>2, <1>3 DEF RecordTypes
<1>6. RecordTypes'
  BY <1>2, <1>3, <1>4, <1>5 DEF RecordTypes, ActRecs
<1>7. EntryRuns' /\ LeftIsDead' /\ ProcessIsServices' /\ Unopened'
  BY <1>2, <1>3, <1>5 DEF SshInv, EntryRuns, LeftIsDead, ProcessIsServices, Unopened
<1>8. JobsFit' /\ OneHolder' /\ StartHolds' /\ StopHolds' /\ WaitedIsOwn' /\ LeaseIsOwned'
  <2>1. act'[a].pc = "idle" /\ "idle" \notin HoldingPcs \cup HealthPcs \cup OwnPcs \cup StartPcs
    BY <1>4 DEF HoldingPcs, OwnPcs, StartPcs, HealthPcs
  <2>2. leases' = {} /\ ~svc'.reg
    BY <1>2, <1>3
  <2> QED
    BY <1>2, <1>3, <1>4, <2>1, <2>2, HolderMove
<1> QED
  BY <1>6, <1>7, <1>8 DEF SshInv

---------------------------------------------------------------------------
(* The end of a service.                                                   *)

LEMMA NoServiceType ==
  /\ NoService \in [reg : BOOLEAN, token : 0..MaxTokens, tunnel : 0..MaxTunnels, ready : BOOLEAN]
  /\ NoProcess \in [alive : BOOLEAN, token : 0..MaxTokens, tunnel : 0..MaxTunnels]
  /\ ~NoService.reg /\ ~NoProcess.alive
BY SshAssumption DEF SshAssumption, NoService, NoProcess, None

LEMMA ReadyUpdate ==
  ASSUME RecordTypes, NEW b \in BOOLEAN, svc' = [svc EXCEPT !.ready = b]
  PROVE  /\ svc'.ready = b
         /\ svc' \in [reg : BOOLEAN, token : 0..MaxTokens, tunnel : 0..MaxTunnels, ready : BOOLEAN]
         /\ svc'.reg = svc.reg /\ svc'.token = svc.token /\ svc'.tunnel = svc.tunnel
BY DEF RecordTypes

(* No task holds a lease, so the leases are those of the service.          *)
LEMMA LeasesWhenStill ==
  ASSUME SshInv, \A b \in Actors : act[b].pc \notin OwnPcs
  PROVE  leases = IF svc.reg THEN {svc.token} ELSE {}
<1>1. Starting \cup Revoking = {}
  BY DEF Starting, Revoking, OwnPcs
<1>2. {act[b].token : b \in Starting \cup Revoking} = {}
  BY <1>1
<1> QED
  BY <1>2 DEF SshInv, LeaseIsOwned

LEMMA TerminateBeginInv ==
  ASSUME SshInv, NEW a \in Actors, TerminateBegin(a)
  PROVE  SshInv'
<1>1. /\ RecordTypes /\ act \in [Actors -> ActRecs] /\ "stopping" \in Pcs
      /\ \A b \in Actors : act[b].pc \notin HoldingPcs
      /\ act[a].pc = "term" /\ svc.reg
  BY ActType, NobodyHolds DEF TerminateBegin, SshInv, Pcs
<1>2. UNCHANGED <<tun, life, proc, leases, issued, opened, faults>> /\ lock' = a
  BY DEF TerminateBegin
<1>3. /\ svc' \in [reg : BOOLEAN, token : 0..MaxTokens, tunnel : 0..MaxTunnels, ready : BOOLEAN]
      /\ svc'.reg = svc.reg /\ svc'.token = svc.token /\ svc'.tunnel = svc.tunnel
      /\ ~svc'.ready
  BY <1>1, ReadyUpdate DEF TerminateBegin
<1>4. act' \in [Actors -> ActRecs] /\ act'[a].pc = "stopping" /\ act'[a].job = act[a].job
      /\ \A b \in Actors : b # a => act'[b] = act[b]
  BY <1>1, MoveAct DEF TerminateBegin, Goto
<1>5. RecordTypes'
  BY <1>1, <1>2, <1>3, <1>4 DEF RecordTypes, ActRecs
<1>6. EntryRuns' /\ LeftIsDead' /\ ProcessIsServices' /\ Unopened'
  BY <1>1, <1>2, <1>3 DEF SshInv, EntryRuns, LeftIsDead, ProcessIsServices, Unopened
<1>7. JobsFit' /\ OneHolder' /\ StartHolds' /\ StopHolds' /\ WaitedIsOwn' /\ LeaseIsOwned'
  <2>1. "stopping" \in HoldingPcs /\ "stopping" \notin HealthPcs \cup OwnPcs \cup StartPcs
    BY DEF HoldingPcs, OwnPcs, StartPcs, HealthPcs
  <2>2. leases' = {svc'.token} /\ svc'.reg
    BY <1>1, <1>2, <1>3, LeasesWhenStill DEF HoldingPcs, OwnPcs, StartPcs
  <2>3. act'[a].job \in {"restart", "exit", "health"}
    BY <1>1, <1>4 DEF SshInv, JobsFit
  <2> QED
    BY <1>1, <1>2, <1>3, <1>4, <2>1, <2>2, <2>3, HolderMove
<1> QED
  BY <1>5, <1>6, <1>7 DEF SshInv

LEMMA StoppingFacts ==
  ASSUME SshInv, NEW a \in Actors, act[a].pc = "stopping"
  PROVE  /\ RecordTypes /\ act \in [Actors -> ActRecs]
         /\ \A b \in Actors : b # a => act[b].pc \notin HoldingPcs
         /\ act[a].job \in {"restart", "exit", "health"}
         /\ svc.reg /\ ~svc.ready /\ svc.tunnel = tun /\ tun # None /\ life[tun] = "Running"
         /\ leases = {svc.token}
<1>1. \A b \in Actors : b # a => act[b].pc \notin HoldingPcs
  BY OnlyHolder DEF HoldingPcs, OwnPcs, StartPcs
<1>2. \A b \in Actors : act[b].pc \notin OwnPcs
  BY <1>1 DEF HoldingPcs, OwnPcs
<1>3. svc.reg /\ ~svc.ready
  BY DEF SshInv, StopHolds
<1>4. RecordTypes /\ act \in [Actors -> ActRecs]
  BY ActType DEF SshInv
<1>5. act[a].job \in {"restart", "exit", "health"}
  BY DEF SshInv, JobsFit
<1> QED
  BY <1>1, <1>2, <1>3, <1>4, <1>5, LeasesWhenStill DEF SshInv, EntryRuns

(* Where a task that leaves terminate may go.                              *)
LEMMA LeaveStop ==
  ASSUME RecordTypes, NEW a \in Actors, act[a].job \in {"restart", "exit", "health"},
         Finish(a) \/ Goto(a, AfterTerminate(a))
  PROVE  /\ act' \in [Actors -> ActRecs]
         /\ \A b \in Actors : b # a => act'[b] = act[b]
         /\ act'[a].pc \notin HoldingPcs \cup {"term"}
         /\ act'[a].pc \in HealthPcs => act'[a].job = "health"
<1>1. act \in [Actors -> ActRecs]
  BY ActType
<1>2. CASE Finish(a)
  <2>1. act' \in [Actors -> ActRecs] /\ act'[a] = AtRest /\ AtRest.pc = "idle"
        /\ \A b \in Actors : b # a => act'[b] = act[b]
    BY <1>1, <1>2, RestRecord, SetAct DEF Finish
  <2> QED
    BY <2>1 DEF HoldingPcs, OwnPcs, StartPcs, HealthPcs
<1>3. CASE Goto(a, AfterTerminate(a))
  <2>1. /\ AfterTerminate(a) \in Pcs
        /\ AfterTerminate(a) \notin HoldingPcs \cup {"term"}
        /\ AfterTerminate(a) \in HealthPcs => act[a].job = "health"
    BY NextOfTerminate DEF Pcs, HoldingPcs, OwnPcs, StartPcs, HealthPcs
  <2>2. act' \in [Actors -> ActRecs] /\ act'[a].pc = AfterTerminate(a)
        /\ act'[a].job = act[a].job /\ \A b \in Actors : b # a => act'[b] = act[b]
    BY <1>1, <1>3, <2>1, MoveAct DEF Goto
  <2> QED
    BY <2>1, <2>2
<1> QED
  BY <1>2, <1>3

(* What a move of a task to another step changes when it takes a lease with *)
(* it, or forgets one.                                                      *)
LEMMA CarryAct ==
  ASSUME act \in [Actors -> ActRecs], NEW a \in Actors, NEW pc \in Pcs,
         NEW k \in 0..MaxTokens, NEW t \in 0..MaxTunnels,
         act' = [act EXCEPT ![a].pc = pc, ![a].token = k, ![a].tunnel = t]
  PROVE  /\ act' \in [Actors -> ActRecs]
         /\ act'[a].pc = pc /\ act'[a].job = act[a].job
         /\ act'[a].token = k /\ act'[a].tunnel = t
         /\ \A b \in Actors : b # a => act'[b] = act[b]
BY DEF ActRecs

LEMMA NoneIsSmall == None \in 0..MaxTokens /\ None \in 0..MaxTunnels
BY SshAssumption DEF SshAssumption, None

LEMMA TakeAct ==
  ASSUME RecordTypes, NEW a \in Actors, NEW pc \in Pcs, TakeEntry(a, pc)
  PROVE  /\ act' \in [Actors -> ActRecs]
         /\ act'[a].pc = pc /\ act'[a].job = act[a].job
         /\ act'[a].token = svc.token /\ act'[a].tunnel = svc.tunnel
         /\ \A b \in Actors : b # a => act'[b] = act[b]
<1>1. act \in [Actors -> ActRecs] /\ svc.token \in 0..MaxTokens /\ svc.tunnel \in 0..MaxTunnels
  BY ActType DEF RecordTypes
<1> QED
  BY <1>1, CarryAct DEF TakeEntry

LEMMA ForgetAct ==
  ASSUME RecordTypes, NEW a \in Actors, NEW pc \in Pcs, Forget(a, pc)
  PROVE  /\ act' \in [Actors -> ActRecs]
         /\ act'[a].pc = pc /\ act'[a].job = act[a].job
         /\ \A b \in Actors : b # a => act'[b] = act[b]
BY ActType, CarryAct, NoneIsSmall DEF Forget

LEMMA TerminateEndInv ==
  ASSUME SshInv, NEW a \in Actors, TerminateEnd(a)
  PROVE  SshInv'
<1>1. /\ RecordTypes /\ act \in [Actors -> ActRecs] /\ "revoke" \in Pcs
      /\ \A b \in Actors : b # a => act[b].pc \notin HoldingPcs
      /\ act[a].job \in {"restart", "exit", "health"}
      /\ leases = {svc.token}
  BY StoppingFacts DEF TerminateEnd, Pcs
<1>2. /\ UNCHANGED <<lock, tun, life, leases, issued, opened, faults>>
      /\ proc' = NoProcess /\ svc' = NoService /\ lock = a
  BY OnlyHolder DEF TerminateEnd, TakeEntry, HoldingPcs
<1>3. /\ act' \in [Actors -> ActRecs]
      /\ act'[a].pc = "revoke" /\ act'[a].job = act[a].job /\ act'[a].token = svc.token
      /\ \A b \in Actors : b # a => act'[b] = act[b]
  BY <1>1, TakeAct DEF TerminateEnd
<1>4. RecordTypes'
  BY <1>1, <1>2, <1>3, NoServiceType DEF RecordTypes, ActRecs
<1>5. EntryRuns' /\ LeftIsDead' /\ ProcessIsServices' /\ Unopened'
  BY <1>2, NoServiceType DEF SshInv, EntryRuns, LeftIsDead, ProcessIsServices, Unopened
<1>6. JobsFit' /\ OneHolder' /\ StartHolds' /\ StopHolds' /\ WaitedIsOwn' /\ LeaseIsOwned'
  <2>1. "revoke" \notin StartPcs \cup HealthPcs /\ "revoke" \in OwnPcs /\ "revoke" \in HoldingPcs
    BY DEF HoldingPcs, OwnPcs, StartPcs, HealthPcs
  <2> QED
    BY <1>1, <1>2, <1>3, <2>1, NoServiceType, HolderMove
<1> QED
  BY <1>4, <1>5, <1>6 DEF SshInv

(* What a task that carries a removed entry's lease knows.                 *)
LEMMA RevokeFacts ==
  ASSUME SshInv, NEW a \in Actors, act[a].pc \in {"revoke", "unrevoke", "closing"}
  PROVE  /\ RecordTypes /\ act \in [Actors -> ActRecs]
         /\ lock = a /\ \A b \in Actors : b # a => act[b].pc \notin HoldingPcs
         /\ ~svc.reg
         /\ leases \subseteq {act[a].token}
         /\ act[a].pc = "closing" => leases = {}
<1>1. RecordTypes /\ act \in [Actors -> ActRecs]
  BY ActType DEF SshInv
<1>2. lock = a /\ \A b \in Actors : b # a => act[b].pc \notin HoldingPcs
  BY OnlyHolder DEF HoldingPcs
<1>3. ~svc.reg
  BY DEF SshInv, StopHolds
<1>4. /\ Starting \cup Revoking \subseteq {a}
      /\ act[a].pc = "closing" => Starting \cup Revoking = {}
  BY <1>2 DEF Starting, Revoking, HoldingPcs
<1>5. /\ {act[b].token : b \in Starting \cup Revoking} \subseteq {act[a].token}
      /\ act[a].pc = "closing" => {act[b].token : b \in Starting \cup Revoking} = {}
  BY <1>4
<1> QED
  BY <1>1, <1>2, <1>3, <1>5 DEF SshInv, LeaseIsOwned

LEMMA TerminateRevokeInv ==
  ASSUME SshInv, NEW a \in Actors, TerminateRevoke(a)
  PROVE  SshInv'
<1>1. /\ RecordTypes /\ act \in [Actors -> ActRecs] /\ ~svc.reg
      /\ \A b \in Actors : b # a => act[b].pc \notin HoldingPcs
      /\ leases \subseteq {act[a].token}
  BY RevokeFacts DEF TerminateRevoke
<1>2. /\ UNCHANGED <<svc, tun, life, proc, issued, opened, faults>> /\ lock' = NoOne
      /\ leases' = {}
  BY <1>1 DEF TerminateRevoke
<1>3. /\ act[a].pc = "revoke" /\ act[a].job \in {"restart", "exit", "health"}
  BY DEF TerminateRevoke, SshInv, JobsFit
<1>4. /\ AfterTerminate(a) \in {"set", "drain", "orphans"}
      /\ AfterTerminate(a) = "orphans" => act[a].job = "health"
  BY <1>3, NextOfTerminate
<1>5. /\ act' \in [Actors -> ActRecs]
      /\ act'[a].pc = AfterTerminate(a) /\ act'[a].job = act[a].job
      /\ \A b \in Actors : b # a => act'[b] = act[b]
  BY <1>1, <1>4, ForgetAct DEF TerminateRevoke, Pcs
<1>6. RecordTypes'
  BY <1>1, <1>2, <1>5 DEF RecordTypes, ActRecs
<1>7. EntryRuns' /\ ProcessIsServices' /\ Unopened'
  BY <1>2 DEF SshInv, EntryRuns, ProcessIsServices, Unopened
<1>8. LeftIsDead'
  BY <1>1, <1>2, <1>3, <1>5 DEF SshInv, LeftIsDead, HoldingPcs
<1>9. JobsFit' /\ OneHolder' /\ StartHolds' /\ StopHolds' /\ WaitedIsOwn' /\ LeaseIsOwned'
  <2>1. /\ act'[a].pc \notin StartPcs \cup OwnPcs \cup HoldingPcs
        /\ act'[a].pc \notin {"term", "stopping", "unstopping", "waiting", "revoke",
                              "unrevoke", "closing"}
        /\ act'[a].pc \in HealthPcs => act'[a].job = "health"
    BY <1>4, <1>5 DEF HoldingPcs, OwnPcs, StartPcs, HealthPcs
  <2> QED
    BY <1>1, <1>2, <1>5, <2>1, HolderMove
<1> QED
  BY <1>6, <1>7, <1>8, <1>9 DEF SshInv

LEMMA TerminateFailsInv ==
  ASSUME SshInv, NEW a \in Actors, TerminateFails(a)
  PROVE  SshInv'
<1>1. /\ RecordTypes /\ act \in [Actors -> ActRecs]
      /\ \A b \in Actors : b # a => act[b].pc \notin HoldingPcs
      /\ act[a].job \in {"restart", "exit", "health"}
      /\ svc.reg /\ leases = {svc.token}
  BY StoppingFacts DEF TerminateFails
<1>2. /\ UNCHANGED <<tun, life, leases, issued, opened>> /\ lock' = NoOne
      /\ proc' \in {proc, NoProcess}
  BY DEF TerminateFails
<1>3. /\ svc' \in [reg : BOOLEAN, token : 0..MaxTokens, tunnel : 0..MaxTunnels, ready : BOOLEAN]
      /\ svc'.reg = svc.reg /\ svc'.token = svc.token /\ svc'.tunnel = svc.tunnel
  BY <1>1, ReadyUpdate DEF TerminateFails
<1>4. /\ act' \in [Actors -> ActRecs]
      /\ \A b \in Actors : b # a => act'[b] = act[b]
      /\ act'[a].pc \notin HoldingPcs \cup {"term"}
      /\ act'[a].pc \in HealthPcs => act'[a].job = "health"
  BY <1>1, LeaveStop DEF TerminateFails, AfterError
<1>5. faults' \in 0..MaxFaults
  BY <1>1, FaultType DEF TerminateFails
<1>6. RecordTypes'
  BY <1>1, <1>2, <1>3, <1>4, <1>5, NoServiceType DEF RecordTypes, ActRecs
<1>7. EntryRuns' /\ LeftIsDead' /\ ProcessIsServices' /\ Unopened'
  BY <1>1, <1>2, <1>3, NoServiceType
     DEF SshInv, EntryRuns, LeftIsDead, ProcessIsServices, Unopened
<1>8. JobsFit' /\ OneHolder' /\ StartHolds' /\ StopHolds' /\ WaitedIsOwn' /\ LeaseIsOwned'
  <2>1. /\ act'[a].pc \notin StartPcs \cup OwnPcs \cup HoldingPcs
        /\ act'[a].pc \notin {"term", "stopping", "unstopping", "waiting", "revoke",
                              "unrevoke", "closing"}
    BY <1>4 DEF HoldingPcs, OwnPcs, StartPcs
  <2> QED
    BY <1>1, <1>2, <1>3, <1>4, <2>1, HolderMove
<1> QED
  BY <1>6, <1>7, <1>8 DEF SshInv

LEMMA UnregisterBeginInv ==
  ASSUME SshInv, NEW a \in Actors, UnregisterBegin(a)
  PROVE  SshInv'
<1>1. /\ RecordTypes /\ act \in [Actors -> ActRecs] /\ "unstopping" \in Pcs
      /\ \A b \in Actors : act[b].pc \notin HoldingPcs
  BY ActType, NobodyHolds DEF UnregisterBegin, SshInv, Pcs
<1>2. UNCHANGED <<tun, life, proc, leases, issued, opened, faults>> /\ lock' = a
  BY DEF UnregisterBegin
<1>3. /\ svc' \in [reg : BOOLEAN, token : 0..MaxTokens, tunnel : 0..MaxTunnels, ready : BOOLEAN]
      /\ svc'.reg = svc.reg /\ svc'.token = svc.token /\ svc'.tunnel = svc.tunnel
      /\ ~svc'.ready
  BY <1>1, ReadyUpdate DEF UnregisterBegin
<1>4. act' \in [Actors -> ActRecs] /\ act'[a].pc = "unstopping"
      /\ \A b \in Actors : b # a => act'[b] = act[b]
  <2>1. PICK t \in 0..MaxTunnels :
          act' = [act EXCEPT ![a].pc = "unstopping", ![a].tunnel = t]
    BY <1>1 DEF UnregisterBegin, RecordTypes
  <2> QED
    BY <1>1, <2>1 DEF ActRecs
<1>5. RecordTypes'
  BY <1>1, <1>2, <1>3, <1>4 DEF RecordTypes, ActRecs
<1>6. EntryRuns' /\ LeftIsDead' /\ ProcessIsServices' /\ Unopened'
  BY <1>1, <1>2, <1>3
     DEF SshInv, EntryRuns, LeftIsDead, ProcessIsServices, Unopened, HoldingPcs
<1>7. JobsFit' /\ OneHolder' /\ StartHolds' /\ StopHolds' /\ WaitedIsOwn' /\ LeaseIsOwned'
  <2>1. "unstopping" \in HoldingPcs /\ "unstopping" \notin HealthPcs \cup OwnPcs \cup StartPcs
    BY DEF HoldingPcs, OwnPcs, StartPcs, HealthPcs
  <2>2. leases' = IF svc'.reg THEN {svc'.token} ELSE {}
    BY <1>1, <1>2, <1>3, LeasesWhenStill DEF HoldingPcs, OwnPcs, StartPcs
  <2> QED
    BY <1>1, <1>2, <1>3, <1>4, <2>1, <2>2, HolderMove
<1> QED
  BY <1>5, <1>6, <1>7 DEF SshInv

LEMMA UnregisterLeaveInv ==
  ASSUME SshInv, NEW a \in Actors, UnregisterLeave(a)
  PROVE  SshInv'
<1>1. /\ RecordTypes /\ act \in [Actors -> ActRecs] /\ act[a].pc = "unstopping"
      /\ {"unrevoke", "closing"} \subseteq Pcs
      /\ lock = a /\ \A b \in Actors : b # a => act[b].pc \notin HoldingPcs
  BY ActType, OnlyHolder DEF UnregisterLeave, SshInv, HoldingPcs, Pcs
<1>2. leases = IF svc.reg THEN {svc.token} ELSE {}
  <2>1. \A b \in Actors : act[b].pc \notin OwnPcs
    BY <1>1 DEF HoldingPcs, OwnPcs
  <2> QED
    BY <2>1, LeasesWhenStill
<1>3. /\ UNCHANGED <<lock, tun, life, leases, issued, opened>>
      /\ proc' \in {proc, NoProcess} /\ (Fault \/ UNCHANGED faults)
  BY DEF UnregisterLeave, UnregisterStop
<1>4. faults' \in 0..MaxFaults
  BY <1>1, <1>3, FaultType
<1>5. /\ act' \in [Actors -> ActRecs]
      /\ act'[a].pc = IF svc.reg THEN "unrevoke" ELSE "closing"
      /\ svc.reg => act'[a].token = svc.token
      /\ \A b \in Actors : b # a => act'[b] = act[b]
  <2>1. CASE svc.reg
    BY <1>1, <2>1, TakeAct DEF UnregisterLeave
  <2>2. CASE ~svc.reg
    BY <1>1, <2>2, ForgetAct DEF UnregisterLeave
  <2> QED
    BY <2>1, <2>2
<1>6. /\ ~svc'.reg
      /\ svc' \in [reg : BOOLEAN, token : 0..MaxTokens, tunnel : 0..MaxTunnels, ready : BOOLEAN]
  BY <1>1, NoServiceType DEF UnregisterLeave, TakeEntry, RecordTypes
<1>7. RecordTypes'
  BY <1>1, <1>3, <1>4, <1>5, <1>6, NoServiceType DEF RecordTypes, ActRecs
<1>8. EntryRuns' /\ ProcessIsServices' /\ Unopened'
  BY <1>3, <1>6 DEF SshInv, EntryRuns, ProcessIsServices, Unopened
<1>9. LeftIsDead'
  BY <1>5 DEF LeftIsDead
<1>10. JobsFit' /\ OneHolder' /\ StartHolds' /\ StopHolds' /\ WaitedIsOwn' /\ LeaseIsOwned'
  <2>1. /\ "unrevoke" \in OwnPcs \cap HoldingPcs /\ "unrevoke" \notin StartPcs \cup HealthPcs
        /\ "closing" \in HoldingPcs /\ "closing" \notin OwnPcs \cup StartPcs \cup HealthPcs
    BY DEF HoldingPcs, OwnPcs, StartPcs, HealthPcs
  <2> QED
    BY <1>1, <1>2, <1>3, <1>5, <1>6, <2>1, HolderMove
<1> QED
  BY <1>7, <1>8, <1>9, <1>10 DEF SshInv

LEMMA UnregisterRevokeInv ==
  ASSUME SshInv, NEW a \in Actors, UnregisterRevoke(a)
  PROVE  SshInv'
<1>1. /\ RecordTypes /\ act \in [Actors -> ActRecs] /\ ~svc.reg /\ lock = a
      /\ \A b \in Actors : b # a => act[b].pc \notin HoldingPcs
      /\ leases \subseteq {act[a].token} /\ "closing" \in Pcs
  BY RevokeFacts DEF UnregisterRevoke, Pcs
<1>2. /\ UNCHANGED <<lock, svc, tun, life, proc, issued, opened, faults>> /\ leases' = {}
  BY <1>1 DEF UnregisterRevoke
<1>3. /\ act' \in [Actors -> ActRecs] /\ act'[a].pc = "closing"
      /\ \A b \in Actors : b # a => act'[b] = act[b]
  BY <1>1, ForgetAct DEF UnregisterRevoke
<1>4. RecordTypes'
  BY <1>1, <1>2, <1>3 DEF RecordTypes, ActRecs
<1>5. EntryRuns' /\ ProcessIsServices' /\ Unopened'
  BY <1>2 DEF SshInv, EntryRuns, ProcessIsServices, Unopened
<1>6. LeftIsDead'
  BY <1>3 DEF LeftIsDead
<1>7. JobsFit' /\ OneHolder' /\ StartHolds' /\ StopHolds' /\ WaitedIsOwn' /\ LeaseIsOwned'
  <2>1. "closing" \in HoldingPcs /\ "closing" \notin OwnPcs \cup StartPcs \cup HealthPcs
    BY DEF HoldingPcs, OwnPcs, StartPcs, HealthPcs
  <2> QED
    BY <1>1, <1>2, <1>3, <2>1, HolderMove
<1> QED
  BY <1>4, <1>5, <1>6, <1>7 DEF SshInv

LEMMA UnregisterEndInv ==
  ASSUME SshInv, NEW a \in Actors, UnregisterEnd(a)
  PROVE  SshInv'
<1>1. /\ RecordTypes /\ act \in [Actors -> ActRecs] /\ ~svc.reg /\ leases = {}
      /\ \A b \in Actors : b # a => act[b].pc \notin HoldingPcs
  BY RevokeFacts DEF UnregisterEnd
<1>2. /\ UNCHANGED <<svc, proc, leases, issued, opened, faults>> /\ lock' = NoOne
      /\ tun' = None
      /\ life' = [t \in Tunnels |-> IF t = tun THEN "Stopped" ELSE life[t]]
  BY DEF UnregisterEnd
<1>3. act' \in [Actors -> ActRecs] /\ act'[a] = AtRest /\ AtRest.pc = "idle"
      /\ \A b \in Actors : b # a => act'[b] = act[b]
  BY <1>1, RestRecord, SetAct DEF UnregisterEnd, Finish
<1>4. life' \in [Tunnels -> {"Stopped", "Starting", "Running"}]
      /\ \A t \in Tunnels : life'[t] \in {life[t], "Stopped"}
  BY <1>1, <1>2 DEF RecordTypes
<1>5. RecordTypes'
  BY <1>1, <1>2, <1>3, <1>4, NoneIsSmall DEF RecordTypes, ActRecs
<1>6. EntryRuns' /\ LeftIsDead' /\ ProcessIsServices'
  BY <1>1, <1>2 DEF EntryRuns, LeftIsDead, ProcessIsServices
<1>7. Unopened'
  BY <1>1, <1>2, <1>4, SshAssumption DEF SshAssumption, SshInv, Unopened, RecordTypes, None
<1>8. JobsFit' /\ OneHolder' /\ StartHolds' /\ StopHolds' /\ WaitedIsOwn' /\ LeaseIsOwned'
  <2>1. act'[a].pc = "idle" /\ "idle" \notin HoldingPcs \cup HealthPcs \cup OwnPcs \cup StartPcs
    BY <1>3 DEF HoldingPcs, OwnPcs, StartPcs, HealthPcs
  <2> QED
    BY <1>1, <1>2, <1>3, <2>1, HolderMove
<1> QED
  BY <1>5, <1>6, <1>7, <1>8 DEF SshInv

---------------------------------------------------------------------------
(* The end of the application, and the death of the remote process.        *)

LEMMA ForgottenInv ==
  ASSUME SshInv, Forgotten, faults' \in 0..MaxFaults,
         proc' \in {proc, NoProcess} \cup {Started(a) : a \in Actors}
  PROVE  SshInv'
<1>1. RecordTypes /\ act \in [Actors -> ActRecs]
  BY ActType DEF SshInv
<1>2. act' \in [Actors -> ActRecs] /\ \A b \in Actors : act'[b].pc = "idle"
  BY RestRecord DEF Forgotten
<1>3. \A a \in Actors :
        Started(a) \in [alive : BOOLEAN, token : 0..MaxTokens, tunnel : 0..MaxTunnels]
  BY <1>1 DEF Started, ActRecs
<1>4. proc' \in [alive : BOOLEAN, token : 0..MaxTokens, tunnel : 0..MaxTunnels]
  BY <1>1, <1>3, NoServiceType DEF RecordTypes
<1>5. RecordTypes'
  BY <1>1, <1>2, <1>4, NoServiceType, SshAssumption
     DEF SshAssumption, Forgotten, RecordTypes, ActRecs, None
<1>6. ~svc'.reg /\ tun' = None /\ lock' = NoOne /\ leases' = {} /\ opened' = opened
      /\ \A t \in Tunnels : life'[t] = "Stopped"
  BY NoServiceType DEF Forgotten
<1>7. JobsFit' /\ StartHolds' /\ StopHolds' /\ WaitedIsOwn'
  BY <1>2 DEF JobsFit, StartHolds, StopHolds, WaitedIsOwn, StartPcs, HealthPcs
<1>8. OneHolder'
  BY <1>2, <1>6, SshAssumption
     DEF SshAssumption, OneHolder, NoOne, Actors, HoldingPcs, OwnPcs, StartPcs
<1>9. EntryRuns' /\ LeftIsDead' /\ ProcessIsServices'
  BY <1>6 DEF EntryRuns, LeftIsDead, ProcessIsServices
<1>10. Unopened'
  BY <1>1, <1>6, SshAssumption DEF SshAssumption, Unopened, RecordTypes, None
<1>11. LeaseIsOwned'
  <2>1. (Starting \cup Revoking)' = {}
    BY <1>2 DEF Starting, Revoking
  <2>2. {act[b].token : b \in Starting \cup Revoking}' = {}
    BY <2>1
  <2> QED
    BY <1>6, <2>2 DEF LeaseIsOwned
<1> QED
  BY <1>5, <1>7, <1>8, <1>9, <1>10, <1>11 DEF SshInv

LEMMA EndInv ==
  ASSUME SshInv, Crash \/ \E a \in Actors : ExitDrain(a)
  PROVE  SshInv'
<1>1. Forgotten /\ (Fault \/ UNCHANGED faults)
      /\ proc' \in {proc, NoProcess} \cup {Started(a) : a \in Actors}
  BY DEF Crash, ExitDrain
<1>2. faults' \in 0..MaxFaults
  BY <1>1, FaultType DEF SshInv
<1> QED
  BY <1>1, <1>2, ForgottenInv

LEMMA RemoteDiesInv ==
  ASSUME SshInv, RemoteDies
  PROVE  SshInv'
<1>1. UNCHANGED <<lock, svc, tun, life, leases, act, issued, opened, faults>>
      /\ proc' = NoProcess
  BY DEF RemoteDies
<1>2. RecordTypes'
  BY <1>1, NoServiceType DEF SshInv, RecordTypes
<1>3. JobsFit' /\ OneHolder' /\ StartHolds' /\ StopHolds' /\ EntryRuns' /\ Unopened'
      /\ LeaseIsOwned'
  BY <1>1 DEF SshInv, JobsFit, OneHolder, StartHolds, StopHolds, EntryRuns, Unopened,
              LeaseIsOwned, Starting, Revoking
<1>4. LeftIsDead' /\ WaitedIsOwn' /\ ProcessIsServices'
  BY <1>1, NoServiceType DEF LeftIsDead, WaitedIsOwn, ProcessIsServices
<1> QED
  BY <1>2, <1>3, <1>4 DEF SshInv

---------------------------------------------------------------------------
LEMMA TaskInv ==
  ASSUME SshInv, NEW a \in Actors, Task(a)
  PROVE  SshInv'
<1>1. CASE OpenTunnel(a)
  BY <1>1, OpenTunnelInv
<1>2. CASE OpenFails(a) \/ SetReuses(a) \/ SetRefused(a)
  BY <1>2, RefusedInv
<1>3. CASE SetOnRunning(a)
  BY <1>3, SetOnRunningInv
<1>4. CASE SetStarts(a)
  BY <1>4, SetStartsInv
<1>5. CASE StartCommand(a) \/ WaitFails(a)
  BY <1>5, StartCommandInv
<1>6. CASE WaitReady(a)
  BY <1>6, WaitReadyInv
<1>7. CASE StartFailed(a)
  BY <1>7, StartFailedInv
<1>8. CASE TerminateMissing(a)
  BY <1>8, TerminateMissingInv
<1>9. CASE TerminateBegin(a)
  BY <1>9, TerminateBeginInv
<1>10. CASE TerminateEnd(a)
  BY <1>10, TerminateEndInv
<1>11. CASE TerminateRevoke(a)
  BY <1>11, TerminateRevokeInv
<1>12. CASE TerminateFails(a)
  BY <1>12, TerminateFailsInv
<1>13. CASE UnregisterBegin(a)
  BY <1>13, UnregisterBeginInv
<1>14. CASE UnregisterLeave(a)
  BY <1>14, UnregisterLeaveInv
<1>15. CASE UnregisterRevoke(a)
  BY <1>15, UnregisterRevokeInv
<1>16. CASE UnregisterEnd(a)
  BY <1>16, UnregisterEndInv
<1>17. CASE ExitDrain(a)
  BY <1>17, EndInv
<1> QED
  BY <1>1, <1>2, <1>3, <1>4, <1>5, <1>6, <1>7, <1>8, <1>9, <1>10, <1>11, <1>12, <1>13,
     <1>14, <1>15, <1>16, <1>17 DEF Task

LEMMA NextInv == SshInv /\ [Next]_vars => SshInv'
<1> SUFFICES ASSUME SshInv, [Next]_vars PROVE SshInv'
  OBVIOUS
<1>1. ASSUME NEW a \in Callers, NEW job \in Jobs, StartJob(a, job) PROVE SshInv'
  BY <1>1, StartJobInv DEF Actors
<1>2. ASSUME NEW a \in Actors, Step(a) PROVE SshInv'
  BY <1>2, TaskInv DEF Step
<1>3. CASE HealthStep
  BY <1>3, HealthInv DEF HealthStep
<1>4. CASE Crash
  BY <1>4, EndInv
<1>5. CASE RemoteDies
  BY <1>5, RemoteDiesInv
<1>6. CASE UNCHANGED vars
  BY <1>6 DEF vars, SshInv, RecordTypes, JobsFit, OneHolder, StartHolds, StopHolds, EntryRuns,
              LeftIsDead, WaitedIsOwn, Unopened, LeaseIsOwned, ProcessIsServices, Starting, Revoking
<1>7. CASE Enable
  BY <1>7 DEF Enable, SshInv, RecordTypes, JobsFit, OneHolder, StartHolds, StopHolds,
              EntryRuns, LeftIsDead, WaitedIsOwn, Unopened, LeaseIsOwned,
              ProcessIsServices, Starting, Revoking
<1> QED
  BY <1>1, <1>2, <1>3, <1>4, <1>5, <1>6, <1>7 DEF Next

(* The inductive invariant holds of every behaviour.                       *)
LEMMA AlwaysInv == Spec => []SshInv
<1>1. Init => SshInv
  BY InitInv
<1>2. SshInv /\ [Next]_vars => SshInv'
  BY NextInv
<1> QED
  BY <1>1, <1>2, PTL DEF Spec

(* Types of every variable.                                                *)
THEOREM SshTypes == Spec => []TypeOK
<1> DEFINE EnabledType == enabled \in BOOLEAN
<1>1. Init => EnabledType
  BY DEF Init
<1>2. EnabledType /\ [Next]_vars => EnabledType'
  <2> SUFFICES ASSUME EnabledType, [Next]_vars PROVE EnabledType'
    OBVIOUS
  <2> QED
    BY DEF Next, StartJob, Step, HealthStep, Enable, vars
<1>3. SshInv /\ EnabledType => TypeOK
  BY DEF SshInv, TypeOK
<1> QED
  BY <1>1, <1>2, <1>3, AlwaysInv, PTL DEF Spec

(* The gateway accepts the lease of the service, of the one that is being  *)
(* started or of the one just removed, and no other: register_client, the failed start and the  *)
(* stops of cli_service_lifecycle.rs keep the two tables in step.          *)
THEOREM LeaseOwned == Spec => []LeaseIsOwned
<1>1. SshInv => LeaseIsOwned
  BY DEF SshInv
<1> QED
  BY <1>1, AlwaysInv, PTL

(* A registered service never answers through the process of an earlier    *)
(* registration: a forward that is left Running has lost its process.      *)
THEOREM ProcessOfService == Spec => []ProcessIsServices
<1>1. SshInv => ProcessIsServices
  BY DEF SshInv
<1> QED
  BY <1>1, AlwaysInv, PTL

(* A registered service runs through the registry's forward, although      *)
(* forwards are opened without the mutation lock.                          *)
THEOREM TunnelOfService == Spec => []TunnelIsRegistered
<1>1. SshInv => TunnelIsRegistered
  BY DEF SshInv, EntryRuns, TunnelIsRegistered
<1> QED
  BY <1>1, AlwaysInv, PTL

---------------------------------------------------------------------------
(* The tasks implement RemoteService.  SshInv says which phase a step       *)
(* leaves, so that no further invariant is needed.                          *)

ServiceStep == Contract!Next \/ UNCHANGED <<ServicePhase, LiveProcess, leases, issued>>

LEMMA PhaseEntered ==
  ASSUME svc.reg
  PROVE  ServicePhase = Phase(IF svc.ready THEN "ready" ELSE "stopping", svc)
BY DEF ServicePhase

LEMMA PhaseStarting ==
  ASSUME SshInv, NEW a \in Actors, act[a].pc \in StartPcs
  PROVE  ServicePhase = Phase("starting", act[a])
<1>1. lock = a /\ ~svc.reg
  BY DEF SshInv, OneHolder, StartHolds, HoldingPcs, OwnPcs, StartPcs
<1>2. a \in Starting
  BY DEF Starting, StartPcs
<1> QED
  BY <1>1, <1>2 DEF ServicePhase

LEMMA PhaseRevoking ==
  ASSUME SshInv, NEW a \in Actors, act[a].pc \in {"revoke", "unrevoke"}
  PROVE  ServicePhase = Phase("stopping", act[a])
<1>1. lock = a /\ ~svc.reg
  BY DEF SshInv, OneHolder, StopHolds, HoldingPcs
<1>2. a \in Revoking /\ a \notin Starting
  BY DEF Starting, Revoking
<1> QED
  BY <1>1, <1>2 DEF ServicePhase

LEMMA PhaseOff ==
  ASSUME ~svc.reg, \A b \in Actors : act[b].pc \notin OwnPcs
  PROVE  ServicePhase = Contract!Off
<1>1. lock \notin Starting /\ lock \notin Revoking
  BY DEF Starting, Revoking, OwnPcs
<1> QED
  BY <1>1 DEF ServicePhase, Phase, NoService, None, Contract!Off

LEMMA PhaseMoves ==
  ASSUME NEW p, NEW q, NEW r
  PROVE  /\ Phase(p, r).phase = p
         /\ Phase(p, r).token = r.token
         /\ [Phase(p, r) EXCEPT !.phase = q] = Phase(q, r)
BY DEF Phase

(* A step that leaves the service, the leases the tasks hold and those the  *)
(* gateway accepts as they are.                                             *)
SameLease(b) == act'[b].token = act[b].token /\ act'[b].tunnel = act[b].tunnel

LEMMA StillService ==
  ASSUME SshInv, SshInv', UNCHANGED <<svc, leases, issued>>,
         \A b \in Actors :
           \/ act[b].pc \in StartPcs /\ act'[b].pc \in StartPcs /\ SameLease(b)
           \/ act[b].pc \notin StartPcs /\ act'[b].pc = act[b].pc /\ SameLease(b)
           \/ act[b].pc \notin OwnPcs /\ act'[b].pc \notin OwnPcs
  PROVE  UNCHANGED <<ServicePhase, leases, issued>>
<1>1. CASE svc.reg
  BY <1>1, PhaseEntered DEF ServicePhase
<1>2. CASE ~svc.reg /\ \A b \in Actors : act[b].pc \notin OwnPcs
  <2>1. \A b \in Actors : act'[b].pc \notin OwnPcs
    BY <1>2 DEF StartPcs, OwnPcs
  <2>2. /\ lock \notin Starting /\ lock' \notin Starting'
        /\ lock \notin Revoking /\ lock' \notin Revoking'
    BY <1>2, <2>1 DEF Starting, Revoking, OwnPcs
  <2> QED
    BY <1>2, <2>2 DEF ServicePhase
<1>3. ASSUME NEW a \in Actors, act[a].pc \in StartPcs
      PROVE  UNCHANGED ServicePhase
  <2>1. act'[a].pc \in StartPcs /\ SameLease(a)
    BY <1>3 DEF StartPcs, OwnPcs
  <2>2. lock = a /\ lock' = a /\ ~svc.reg
    BY <1>3, <2>1 DEF SshInv, OneHolder, StartHolds, HoldingPcs, StartPcs
  <2>3. a \in Starting /\ a \in Starting'
    BY <1>3, <2>1 DEF Starting, StartPcs
  <2> QED
    BY <2>1, <2>2, <2>3 DEF ServicePhase, Phase, SameLease
<1>4. ASSUME NEW a \in Actors, act[a].pc \in {"revoke", "unrevoke"}
      PROVE  UNCHANGED ServicePhase
  <2>1. act'[a].pc \in {"revoke", "unrevoke"} /\ SameLease(a)
    BY <1>4 DEF StartPcs, OwnPcs
  <2>2. lock = a /\ lock' = a /\ ~svc.reg
    BY <1>4, <2>1 DEF SshInv, OneHolder, StopHolds, HoldingPcs
  <2>3. a \in Revoking /\ a \in Revoking' /\ a \notin Starting /\ a \notin Starting'
    BY <1>4, <2>1 DEF Starting, Revoking
  <2> QED
    BY <2>1, <2>2, <2>3 DEF ServicePhase, Phase, SameLease
<1>5. \A b \in Actors : act[b].pc \in OwnPcs =>
        act[b].pc \in StartPcs \/ act[b].pc \in {"revoke", "unrevoke"}
  BY DEF OwnPcs, StartPcs
<1> QED
  BY <1>1, <1>2, <1>3, <1>4, <1>5

(* Then the process stays, or is killed.                                    *)
LEMMA StillStep ==
  ASSUME UNCHANGED <<ServicePhase, leases, issued>>, proc' \in {proc, NoProcess}
  PROVE  ServiceStep
<1>1. LiveProcess' \in {LiveProcess, 0}
  BY DEF LiveProcess, NoProcess, None
<1> QED
  BY <1>1 DEF ServiceStep, Contract!Next, Contract!Die, Contract!NoProcess

(* Nobody but a is moved by a step of a, from one step at which it has no   *)
(* lease to another.                                                        *)
LEMMA OutsideStart ==
  ASSUME SshInv, SshInv', NEW a \in Actors, UNCHANGED <<svc, leases, issued>>,
         \A b \in Actors : b # a => act'[b] = act[b],
         act[a].pc \notin OwnPcs, act'[a].pc \notin OwnPcs,
         proc' \in {proc, NoProcess}
  PROVE  ServiceStep
<1>1. UNCHANGED <<ServicePhase, leases, issued>>
  <2>1. \A b \in Actors :
          \/ act[b].pc \in StartPcs /\ act'[b].pc \in StartPcs /\ SameLease(b)
          \/ act[b].pc \notin StartPcs /\ act'[b].pc = act[b].pc /\ SameLease(b)
          \/ act[b].pc \notin OwnPcs /\ act'[b].pc \notin OwnPcs
    BY DEF SameLease
  <2> QED
    BY <2>1, StillService
<1> QED
  BY <1>1, StillStep

LEMMA MovesElsewhere ==
  ASSUME SshInv, SshInv', NEW a \in Actors,
         \/ \E job \in Jobs : a \in Callers /\ StartJob(a, job)
         \/ OpenTunnel(a) \/ OpenFails(a) \/ SetReuses(a) \/ SetRefused(a)
         \/ TerminateMissing(a)
  PROVE  ServiceStep
<1>1. act \in [Actors -> ActRecs]
  BY ActType DEF SshInv
<1>2. UNCHANGED <<svc, leases, issued, proc>> /\ act[a].pc \notin OwnPcs
  BY DEF StartJob, OpenTunnel, OpenFails, SetReuses, SetRefused, TerminateMissing, OwnPcs
<1>3. \A b \in Actors : b # a => act'[b] = act[b]
  BY <1>1 DEF StartJob, OpenTunnel, OpenFails, SetReuses, SetRefused, TerminateMissing,
              AfterError, Goto, Finish
<1>4. act'[a].pc \notin OwnPcs
  <2>1. CASE \E job \in Jobs : a \in Callers /\ StartJob(a, job)
    <3> PICK job \in Jobs : StartJob(a, job)
      BY <2>1
    <3>1. FirstPc(job) \notin OwnPcs
      BY DEF FirstPc, Jobs, OwnPcs
    <3> QED
      BY <1>1, <3>1 DEF StartJob, AtRest
  <2>2. CASE OpenTunnel(a)
    BY <1>1, <2>2, MoveAct DEF OpenTunnel, Goto, OwnPcs, Pcs, ActRecs
  <2>3. CASE OpenFails(a) \/ SetReuses(a) \/ SetRefused(a)
    BY <1>1, <2>3, RestRecord DEF OpenFails, SetReuses, SetRefused, Finish, OwnPcs
  <2>4. CASE TerminateMissing(a)
    <3>1. act[a].job \in {"restart", "exit", "health"}
      BY <2>4 DEF TerminateMissing, SshInv, JobsFit
    <3>2. CASE Finish(a)
      BY <1>1, <3>2, RestRecord DEF Finish, OwnPcs
    <3>3. CASE Goto(a, AfterTerminate(a))
      BY <1>1, <3>1, <3>3, NextOfTerminate DEF Goto, OwnPcs, ActRecs
    <3> QED
      BY <2>4, <3>2, <3>3 DEF TerminateMissing, AfterError
  <2> QED
    BY <2>1, <2>2, <2>3, <2>4
<1> QED
  BY <1>2, <1>3, <1>4, OutsideStart

LEMMA HealthLooks ==
  ASSUME SshInv, SshInv', HealthTask
  PROVE  ServiceStep
<1>1. act \in [Actors -> ActRecs] /\ Health \in Actors
  BY ActType DEF SshInv, Actors
<1>2. UNCHANGED <<svc, leases, issued, proc, lock>> /\ act[Health].pc \notin OwnPcs
  BY DEF HealthTask, HealthLists, Goto, HealthBegin, HealthOrphans, HealthProbe, OwnPcs
<1>3. \A b \in Actors : b # Health => act'[b] = act[b]
  BY <1>1 DEF HealthTask, HealthLists, Goto, HealthBegin, HealthOrphans, HealthProbe
<1>4. act'[Health].pc \notin OwnPcs
  <2>1. act[Health].pc \notin HoldingPcs
    BY DEF HealthTask, HealthLists, Goto, HealthBegin, HealthOrphans, HealthProbe, HoldingPcs,
       OwnPcs, StartPcs
  <2>2. lock # Health
    BY <1>1, <2>1 DEF SshInv, OneHolder
  <2> QED
    BY <1>1, <1>2, <2>2 DEF SshInv, OneHolder, HoldingPcs, OwnPcs, StartPcs
<1> QED
  BY <1>1, <1>2, <1>3, <1>4, OutsideStart

LEMMA ProcessDies ==
  ASSUME SshInv, SshInv', RemoteDies
  PROVE  ServiceStep
<1>1. UNCHANGED <<ServicePhase, leases, issued>>
  BY DEF RemoteDies, ServicePhase, Starting, Revoking
<1> QED
  BY <1>1, StillStep DEF RemoteDies

(* A service begins.                                                        *)
LEMMA ServiceBegins ==
  ASSUME SshInv, SshInv', NEW a \in Actors, SetOnRunning(a) \/ SetStarts(a)
  PROVE  ServiceStep
<1>1. Lease(a) /\ proc' = proc
  BY DEF SetOnRunning, SetStarts
<1>2. /\ RecordTypes /\ act \in [Actors -> ActRecs]
      /\ issued' = issued + 1 /\ issued < MaxTokens
      /\ ~svc.reg /\ tun \in Tunnels /\ leases' = {issued + 1}
      /\ \A b \in Actors : act[b].pc \notin HoldingPcs
      /\ \A b \in Actors : act[b].pc \notin OwnPcs
  BY <1>1, LeaseFacts DEF Lease, HoldingPcs, OwnPcs
<1>3. ServicePhase = Contract!Off /\ LiveProcess' = LiveProcess
  BY <1>1, <1>2, PhaseOff DEF LiveProcess
<1>4. CASE SetOnRunning(a)
  <2>1. svc' = [reg |-> TRUE, token |-> issued + 1, tunnel |-> tun, ready |-> TRUE]
    BY <1>4 DEF SetOnRunning
  <2>2. ServicePhase' = [phase |-> "ready", token |-> issued + 1, tunnel |-> tun]
    BY <2>1 DEF ServicePhase, Phase
  <2>3. ~proc.alive
    BY <1>2, <1>4 DEF SshInv, LeftIsDead, SetOnRunning, Tunnels, None, HoldingPcs
  <2>4. LiveProcess = 0
    BY <2>3 DEF LiveProcess, None
  <2> QED
    BY <1>2, <1>3, <2>2, <2>4
    DEF ServiceStep, Contract!Next, Contract!Attach, Contract!Begin, Contract!Off,
        Contract!NoProcess
<1>5. CASE SetStarts(a)
  <2> DEFINE r == [act[a] EXCEPT !.pc = "starting", !.token = issued + 1, !.tunnel = tun]
  <2>1. act' = [act EXCEPT ![a] = r]
    BY <1>2, <1>5 DEF SetStarts
  <2>2. r.pc = "starting" /\ r.token = issued + 1 /\ r.tunnel = tun
    BY <1>2 DEF ActRecs
  <2> HIDE DEF r
  <2>3. act'[a] = r
    BY <1>2, <2>1
  <2>4. ServicePhase' = [phase |-> "starting", token |-> issued + 1, tunnel |-> tun]
    <3>1. lock' = a /\ ~svc'.reg /\ a \in Starting'
      BY <1>2, <1>5, <2>2, <2>3 DEF SetStarts, Starting
    <3> QED
      BY <2>2, <2>3, <3>1 DEF ServicePhase, Phase
  <2> QED
    BY <1>2, <1>3, <2>4
    DEF ServiceStep, Contract!Next, Contract!Start, Contract!Begin, Contract!Off
<1> QED
  BY <1>4, <1>5

(* A start goes on.                                                         *)
LEMMA ServiceStarts ==
  ASSUME SshInv, SshInv', NEW a \in Actors, StartCommand(a) \/ WaitFails(a)
  PROVE  ServiceStep
<1>1. act[a].pc \in StartPcs /\ UNCHANGED <<svc, leases, issued>>
  BY DEF StartCommand, WaitFails, StartPcs
<1>2. /\ act \in [Actors -> ActRecs] /\ act[a].token \in Tokens
  BY <1>1, StartFacts
<1>3. PICK pc \in {"waiting", "failed"} : Goto(a, pc)
  BY DEF StartCommand, WaitFails
<1>4. /\ act'[a].pc \in StartPcs /\ act'[a].token = act[a].token
      /\ act'[a].tunnel = act[a].tunnel
      /\ \A b \in Actors : b # a => act'[b] = act[b]
  BY <1>2, <1>3, MoveAct DEF Goto, StartPcs, Pcs
<1>5. UNCHANGED <<ServicePhase, leases, issued>>
  <2>1. \A b \in Actors :
          \/ act[b].pc \in StartPcs /\ act'[b].pc \in StartPcs /\ SameLease(b)
          \/ act[b].pc \notin StartPcs /\ act'[b].pc = act[b].pc /\ SameLease(b)
          \/ act[b].pc \notin OwnPcs /\ act'[b].pc \notin OwnPcs
    BY <1>1, <1>4 DEF SameLease
  <2> QED
    BY <1>1, <2>1, StillService
<1>6. CASE proc' \in {proc, NoProcess}
  BY <1>5, <1>6, StillStep
<1>7. CASE proc' = Started(a)
  <2>1. LiveProcess' = act[a].token
    BY <1>7 DEF LiveProcess, Started
  <2>2. ServicePhase.phase = "starting" /\ ServicePhase.token = act[a].token
    BY <1>1, PhaseStarting, PhaseMoves
  <2> QED
    BY <1>5, <2>1, <2>2 DEF ServiceStep, Contract!Next, Contract!Launch
<1> QED
  BY <1>6, <1>7 DEF StartCommand, WaitFails

LEMMA ServiceIsReady ==
  ASSUME SshInv, SshInv', NEW a \in Actors, WaitReady(a)
  PROVE  ServiceStep
<1>1. /\ act[a].pc \in StartPcs /\ act[a].pc = "waiting"
      /\ UNCHANGED <<leases, issued, proc>> /\ proc.alive
      /\ svc' = [reg |-> TRUE, token |-> act[a].token, tunnel |-> act[a].tunnel,
                 ready |-> TRUE]
  BY DEF WaitReady, StartPcs, Listens
<1>2. ServicePhase = Phase("starting", act[a])
  BY <1>1, PhaseStarting
<1>3. ServicePhase' = Phase("ready", act[a])
  BY <1>1 DEF ServicePhase, Phase
<1>4. LiveProcess = act[a].token /\ LiveProcess' = LiveProcess
  BY <1>1 DEF SshInv, WaitedIsOwn, LiveProcess
<1>5. /\ ServicePhase.phase = "starting" /\ ServicePhase.token = act[a].token
      /\ [ServicePhase EXCEPT !.phase = "ready"] = ServicePhase'
  BY <1>2, <1>3, PhaseMoves
<1> QED
  BY <1>1, <1>4, <1>5
  DEF ServiceStep, Contract!Next, Contract!Serve, Contract!Move

LEMMA ServiceRetires ==
  ASSUME SshInv, SshInv', NEW a \in Actors, TerminateBegin(a) \/ UnregisterBegin(a)
  PROVE  ServiceStep
<1>1. /\ RecordTypes /\ act \in [Actors -> ActRecs]
      /\ \A b \in Actors : act[b].pc \notin HoldingPcs
      /\ UNCHANGED <<leases, issued, proc>>
      /\ svc' = [svc EXCEPT !.ready = FALSE]
  BY ActType, NobodyHolds DEF TerminateBegin, UnregisterBegin, SshInv
<1>2. /\ \A b \in Actors : act[b].pc \notin OwnPcs
      /\ svc'.reg = svc.reg /\ svc'.token = svc.token /\ svc'.tunnel = svc.tunnel
      /\ ~svc'.ready /\ LiveProcess' = LiveProcess
  BY <1>1 DEF RecordTypes, HoldingPcs, OwnPcs, StartPcs, LiveProcess
<1>3. CASE svc.reg
  <2>1. ServicePhase' = Phase("stopping", svc)
    BY <1>2, <1>3 DEF ServicePhase, Phase
  <2>2. CASE svc.ready
    <3>1. ServicePhase = Phase("ready", svc)
      BY <1>3, <2>2, PhaseEntered
    <3>2. ServicePhase.phase = "ready" /\ [ServicePhase EXCEPT !.phase = "stopping"] = ServicePhase'
      BY <2>1, <3>1, PhaseMoves
    <3> QED
      BY <1>1, <1>2, <3>2 DEF ServiceStep, Contract!Next, Contract!Retire, Contract!Move
  <2>3. CASE ~svc.ready
    <3>1. ServicePhase = Phase("stopping", svc)
      BY <1>3, <2>3, PhaseEntered
    <3> QED
      BY <1>1, <1>2, <2>1, <3>1 DEF ServiceStep
  <2> QED
    BY <2>2, <2>3
<1>4. CASE ~svc.reg
  <2>1. act'[a].pc \notin OwnPcs /\ \A b \in Actors : b # a => act'[b] = act[b]
    BY <1>1, <1>4 DEF TerminateBegin, UnregisterBegin, OwnPcs, ActRecs
  <2>2. /\ lock \notin Starting /\ lock' \notin Starting'
        /\ lock \notin Revoking /\ lock' \notin Revoking'
    BY <1>2, <2>1 DEF Starting, Revoking, OwnPcs
  <2>3. UNCHANGED ServicePhase
    BY <1>2, <1>4, <2>2 DEF ServicePhase
  <2> QED
    BY <1>1, <1>2, <2>3 DEF ServiceStep
<1> QED
  BY <1>3, <1>4

(* A failed stop leaves the service as it was, save that its process may be *)
(* dead.                                                                    *)
LEMMA ServiceResumes ==
  ASSUME SshInv, SshInv', NEW a \in Actors, TerminateFails(a)
  PROVE  ServiceStep
<1>1. RecordTypes /\ svc.reg /\ UNCHANGED <<leases, issued>> /\ proc' \in {proc, NoProcess}
      /\ svc' = [svc EXCEPT !.ready = TRUE]
  BY StoppingFacts DEF TerminateFails
<1>2. /\ svc'.reg /\ svc'.token = svc.token /\ svc'.tunnel = svc.tunnel /\ svc'.ready
      /\ LiveProcess' \in {LiveProcess, 0}
  BY <1>1 DEF RecordTypes, LiveProcess, NoProcess, None
<1>3. ServicePhase' = Phase("ready", svc)
  BY <1>2 DEF ServicePhase, Phase
<1>4. CASE svc.ready
  <2>1. UNCHANGED ServicePhase
    BY <1>1, <1>3, <1>4, PhaseEntered
  <2> QED
    BY <1>1, <2>1, StillStep
<1>5. CASE ~svc.ready
  <2>1. ServicePhase = Phase("stopping", svc)
    BY <1>1, <1>5, PhaseEntered
  <2>2. ServicePhase.phase = "stopping" /\ [ServicePhase EXCEPT !.phase = "ready"] = ServicePhase'
    BY <1>3, <2>1, PhaseMoves
  <2> QED
    BY <1>1, <1>2, <2>2
    DEF ServiceStep, Contract!Next, Contract!Resume, Contract!Move, Contract!NoProcess
<1> QED
  BY <1>4, <1>5

(* Whatever ends a service ends its lease with it.                          *)
LEMMA ServiceEnds ==
  ASSUME SshInv, ~svc'.reg, leases' = {}, issued' = issued,
         \A b \in Actors : act'[b].pc \notin OwnPcs,
         proc' \in {proc, NoProcess}
           \cup {Started(a) : a \in {b \in Actors : act[b].pc = "starting"}}
  PROVE  ServiceStep
<1>1. ServicePhase' = Contract!Off
  <2>1. lock' \notin Starting' /\ lock' \notin Revoking'
    BY DEF Starting, Revoking, OwnPcs
  <2> QED
    BY <2>1 DEF ServicePhase, Phase, NoService, None, Contract!Off
<1>2. CASE ~svc.reg /\ \A b \in Actors : act[b].pc \notin OwnPcs
  <2>1. ServicePhase = Contract!Off /\ leases = {}
    BY <1>2, PhaseOff, LeasesWhenStill
  <2>2. proc' \in {proc, NoProcess}
    BY <1>2 DEF OwnPcs
  <2> QED
    BY <1>1, <2>1, <2>2, StillStep
<1>3. CASE svc.reg
  <2>1. ServicePhase.phase # "off"
    BY <1>3, PhaseEntered, PhaseMoves
  <2>2. \A b \in Actors : act[b].pc # "starting"
    BY <1>3 DEF SshInv, StartHolds, StartPcs
  <2>3. LiveProcess' \in {LiveProcess, 0}
    BY <2>2 DEF LiveProcess, NoProcess, None
  <2> QED
    BY <1>1, <2>1, <2>3 DEF ServiceStep, Contract!Next, Contract!End, Contract!NoProcess
<1>4. ASSUME NEW a \in Actors, act[a].pc \in StartPcs
      PROVE  ServiceStep
  <2>1. ServicePhase.phase = "starting" /\ ServicePhase.token = act[a].token
    BY <1>4, PhaseStarting, PhaseMoves
  <2>2. \A b \in Actors : act[b].pc = "starting" => b = a
    BY <1>4, StartFacts DEF HoldingPcs, OwnPcs, StartPcs
  <2>3. LiveProcess' \in {LiveProcess, 0, act[a].token}
    BY <2>2 DEF LiveProcess, NoProcess, None, Started
  <2> QED
    BY <1>1, <2>1, <2>3 DEF ServiceStep, Contract!Next, Contract!End, Contract!NoProcess
<1>5. ASSUME NEW a \in Actors, act[a].pc \in {"revoke", "unrevoke"}
      PROVE  ServiceStep
  <2>1. ServicePhase.phase = "stopping"
    BY <1>5, PhaseRevoking, PhaseMoves
  <2>2. \A b \in Actors : act[b].pc # "starting"
    BY <1>5, RevokeFacts DEF HoldingPcs
  <2>3. LiveProcess' \in {LiveProcess, 0}
    BY <2>2 DEF LiveProcess, NoProcess, None
  <2> QED
    BY <1>1, <2>1, <2>3 DEF ServiceStep, Contract!Next, Contract!End, Contract!NoProcess
<1>6. \A b \in Actors : act[b].pc \in OwnPcs =>
        act[b].pc \in StartPcs \/ act[b].pc \in {"revoke", "unrevoke"}
  BY DEF OwnPcs, StartPcs
<1> QED
  BY <1>2, <1>3, <1>4, <1>5, <1>6

(* An entry that leaves the map goes on stopping, with its lease, in the    *)
(* hands of the task that removed it.                                       *)
LEMMA ServiceLeaves ==
  ASSUME SshInv, SshInv', NEW a \in Actors, TerminateEnd(a) \/ UnregisterLeave(a)
  PROVE  ServiceStep
<1>1. /\ RecordTypes /\ act \in [Actors -> ActRecs]
      /\ act[a].pc \in {"stopping", "unstopping"} /\ ~svc.ready
      /\ {"revoke", "unrevoke", "closing"} \subseteq Pcs
      /\ act[a].pc = "stopping" => svc.reg
  BY ActType DEF TerminateEnd, UnregisterLeave, SshInv, StopHolds, Pcs
<1>2. /\ UNCHANGED <<leases, issued>> /\ proc' \in {proc, NoProcess}
  BY DEF TerminateEnd, UnregisterLeave, UnregisterStop, NoProcess
<1>3. CASE svc.reg
  <2>1. PICK pc \in {"revoke", "unrevoke"} : TakeEntry(a, pc)
    BY <1>1, <1>3 DEF TerminateEnd, UnregisterLeave
  <2>2. /\ act'[a].pc = pc /\ act'[a].token = svc.token /\ act'[a].tunnel = svc.tunnel
    BY <1>1, <2>1, TakeAct
  <2>3. ServicePhase = Phase("stopping", svc)
    BY <1>1, <1>3, PhaseEntered
  <2>4. ServicePhase' = Phase("stopping", svc)
    <3>1. lock' = a /\ ~svc'.reg
      BY <2>2 DEF SshInv, OneHolder, StopHolds, HoldingPcs
    <3>2. a \in Revoking' /\ a \notin Starting'
      BY <2>2 DEF Revoking, Starting
    <3> QED
      BY <2>2, <3>1, <3>2 DEF ServicePhase, Phase
  <2> QED
    BY <1>2, <2>3, <2>4, StillStep
<1>4. CASE ~svc.reg
  <2>1. Forget(a, "closing") /\ act[a].pc = "unstopping" /\ UNCHANGED svc
    BY <1>1, <1>4 DEF TerminateEnd, UnregisterLeave
  <2>2. act'[a].pc = "closing" /\ \A b \in Actors : b # a => act'[b] = act[b]
    BY <1>1, <2>1, ForgetAct
  <2>3. act[a].pc \notin OwnPcs /\ act'[a].pc \notin OwnPcs
    BY <2>1, <2>2 DEF OwnPcs
  <2> QED
    BY <1>2, <2>1, <2>2, <2>3, OutsideStart
<1> QED
  BY <1>3, <1>4

(* The forward of a service that is gone is closed.                         *)
LEMMA ServiceCloses ==
  ASSUME SshInv, SshInv', NEW a \in Actors, UnregisterEnd(a)
  PROVE  ServiceStep
<1>1. act \in [Actors -> ActRecs] /\ act[a].pc = "closing"
  BY ActType DEF SshInv, UnregisterEnd
<1>2. act'[a].pc = "idle" /\ \A b \in Actors : b # a => act'[b] = act[b]
  BY <1>1, RestRecord, SetAct DEF UnregisterEnd, Finish
<1>3. act[a].pc \notin OwnPcs /\ act'[a].pc \notin OwnPcs
  BY <1>1, <1>2 DEF OwnPcs
<1> QED
  BY <1>2, <1>3, OutsideStart DEF UnregisterEnd

LEMMA ServiceGoes ==
  ASSUME SshInv, SshInv', NEW a \in Actors,
         TerminateRevoke(a) \/ UnregisterRevoke(a) \/ StartFailed(a)
  PROVE  ServiceStep
<1>1. RecordTypes /\ act[a].pc \in HoldingPcs
  BY DEF SshInv, TerminateRevoke, UnregisterRevoke, StartFailed, HoldingPcs
<1>2. \A b \in Actors : b # a => act[b].pc \notin HoldingPcs
  BY <1>1, OnlyHolder
<1>3. issued' = issued /\ proc' = proc /\ svc' = svc
  BY DEF TerminateRevoke, UnregisterRevoke, StartFailed
<1>4. \A b \in Actors : b # a => act'[b] = act[b]
  BY ActType, <1>1 DEF TerminateRevoke, UnregisterRevoke, StartFailed, Forget, Finish
<1>5. act'[a].pc \notin OwnPcs
  <2>1. CASE TerminateRevoke(a) \/ StartFailed(a)
    <3>1. lock' # a
      BY <2>1, SshAssumption DEF TerminateRevoke, StartFailed, SshAssumption, Actors, NoOne
    <3> QED
      BY <3>1 DEF SshInv, OneHolder, HoldingPcs, OwnPcs
  <2>2. CASE UnregisterRevoke(a)
    <3>1. act'[a].pc = "closing"
      BY <1>1, <2>2, ForgetAct DEF UnregisterRevoke, Pcs
    <3> QED
      BY <3>1 DEF OwnPcs
  <2> QED
    BY <2>1, <2>2
<1>6. \A b \in Actors : act'[b].pc \notin OwnPcs
  BY <1>2, <1>4, <1>5 DEF HoldingPcs, OwnPcs
<1>7. leases' = {} /\ ~svc.reg
  <2>1. CASE StartFailed(a)
    <3>1. ~svc.reg /\ leases = {act[a].token}
      BY <2>1, StartFacts DEF StartFailed, StartPcs
    <3> QED
      BY <2>1, <3>1 DEF StartFailed
  <2>2. CASE TerminateRevoke(a) \/ UnregisterRevoke(a)
    <3>1. ~svc.reg /\ leases \subseteq {act[a].token}
      BY <2>2, RevokeFacts DEF TerminateRevoke, UnregisterRevoke
    <3> QED
      BY <2>2, <3>1 DEF TerminateRevoke, UnregisterRevoke
  <2> QED
    BY <2>1, <2>2
<1> QED
  BY <1>3, <1>6, <1>7, ServiceEnds

LEMMA ServiceForgotten ==
  ASSUME SshInv, Crash \/ \E a \in Actors : ExitDrain(a)
  PROVE  ServiceStep
<1>1. Forgotten
  BY DEF Crash, ExitDrain
<1>2. proc' \in {proc, NoProcess}
        \cup {Started(a) : a \in {b \in Actors : act[b].pc = "starting"}}
  BY DEF Crash, ExitDrain
<1>3. ~svc'.reg /\ leases' = {} /\ issued' = issued
      /\ \A b \in Actors : act'[b].pc \notin OwnPcs
  BY <1>1, NoServiceType, RestRecord DEF Forgotten, OwnPcs
<1> QED
  BY <1>2, <1>3, ServiceEnds

LEMMA TaskKeepsContract ==
  ASSUME SshInv, SshInv', NEW a \in Actors, Task(a)
  PROVE  ServiceStep
<1>1. CASE OpenTunnel(a) \/ OpenFails(a) \/ SetReuses(a) \/ SetRefused(a)
           \/ TerminateMissing(a)
  BY <1>1, MovesElsewhere
<1>2. CASE SetOnRunning(a) \/ SetStarts(a)
  BY <1>2, ServiceBegins
<1>3. CASE StartCommand(a) \/ WaitFails(a)
  BY <1>3, ServiceStarts
<1>4. CASE WaitReady(a)
  BY <1>4, ServiceIsReady
<1>5. CASE TerminateBegin(a) \/ UnregisterBegin(a)
  BY <1>5, ServiceRetires
<1>6. CASE TerminateFails(a)
  BY <1>6, ServiceResumes
<1>7. CASE TerminateRevoke(a) \/ UnregisterRevoke(a) \/ StartFailed(a)
  BY <1>7, ServiceGoes
<1>8. CASE ExitDrain(a)
  BY <1>8, ServiceForgotten
<1>9. CASE TerminateEnd(a) \/ UnregisterLeave(a)
  BY <1>9, ServiceLeaves
<1>10. CASE UnregisterEnd(a)
  BY <1>10, ServiceCloses
<1> QED
  BY <1>1, <1>2, <1>3, <1>4, <1>5, <1>6, <1>7, <1>8, <1>9, <1>10 DEF Task

LEMMA StepKeepsContract == SshInv /\ SshInv' /\ [Next]_vars => ServiceStep
<1> SUFFICES ASSUME SshInv, SshInv', [Next]_vars PROVE ServiceStep
  OBVIOUS
<1>1. ASSUME NEW a \in Callers, NEW job \in Jobs, StartJob(a, job) PROVE ServiceStep
  <2>1. a \in Actors
    BY DEF Actors
  <2> QED
    BY <1>1, <2>1, MovesElsewhere
<1>2. ASSUME NEW a \in Actors, Step(a) PROVE ServiceStep
  BY <1>2, TaskKeepsContract DEF Step
<1>3. CASE HealthStep
  BY <1>3, HealthLooks DEF HealthStep
<1>4. CASE Crash
  BY <1>4, ServiceForgotten
<1>5. CASE RemoteDies
  BY <1>5, ProcessDies
<1>6. CASE UNCHANGED vars
  BY <1>6 DEF vars, ServiceStep, ServicePhase, LiveProcess, Starting, Revoking
<1>7. CASE Enable
  BY <1>7 DEF Enable, ServiceStep, ServicePhase, LiveProcess, Starting, Revoking
<1> QED
  BY <1>1, <1>2, <1>3, <1>4, <1>5, <1>6, <1>7 DEF Next

LEMMA ContractInit == Init => Contract!Init
<1> SUFFICES ASSUME Init PROVE Contract!Init
  OBVIOUS
<1>1. ~svc.reg /\ leases = {} /\ issued = 0 /\ ~proc.alive
  BY DEF Init, NoService, NoProcess
<1>2. \A b \in Actors : act[b].pc \notin OwnPcs
  BY DEF Init, AtRest, OwnPcs
<1>3. ServicePhase = Contract!Off
  BY <1>1, <1>2, PhaseOff
<1> QED
  BY <1>1, <1>3 DEF Contract!Init, Contract!NoProcess, LiveProcess, None

(* The tasks that register, restart, probe and remove a service together    *)
(* keep the contract of RemoteService: one service at a time, a lease and a *)
(* process of its own for each.                                             *)
THEOREM KeepsServiceContract == Spec => ServiceSpec
<1>1. Init => Contract!Init
  BY ContractInit
<1>2. SshInv /\ SshInv' /\ [Next]_vars
        => [Contract!Next]_<<ServicePhase, LiveProcess, leases, issued>>
  BY StepKeepsContract DEF ServiceStep
<1> QED
  BY <1>1, <1>2, AlwaysInv, PTL DEF Spec, ServiceSpec, Contract!Spec

=============================================================================

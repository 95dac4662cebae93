-------------------------- MODULE InferenceEndpoint --------------------------
(***************************************************************************)
(* One inference endpoint's name: its record in the global table, and in   *)
(* every region the monitors that make the cluster follow it.              *)
(*                                                                         *)
(* A record has a life (lifecycle_id), a generation for each region, moved *)
(* by every change of membership, and once deleted a deletion generation,  *)
(* one per life.  Tokens are numbers: they are only compared within a life *)
(* and, on a cluster's objects, within a term of the region's lease.  One  *)
(* object stands for everything an endpoint owns in a region.              *)
(* Definitions introduced by "Faulty:" are plausible mistakes.             *)
(***************************************************************************)
EXTENDS Naturals, FiniteSets

CONSTANTS
  Regions,
  Monitors,
  RegionOf,      \* the region of each monitor
  MaxLives,      \* bound: how often the name is deployed
  MaxMoves,      \* bound: changes of membership
  MaxFaults,     \* bound: crashes, failed or lost calls, leases of idle monitors that lapse
  MaxOverruns,   \* bound: leases that lapse in the middle of a pass
  Nobody

ASSUME EndpointAssumption ==
  /\ RegionOf \in [Monitors -> Regions]
  /\ {MaxLives, MaxMoves, MaxFaults, MaxOverruns} \subseteq Nat
  /\ Nobody \notin Monitors

VARIABLES
  ep,        \* the record
  lease,     \* each region's Lease: its holder and epoch
  obj,       \* each region's cluster: what it has under the endpoint's name
  mon,       \* each monitor: its pass
  lives, moves, faults, overruns

vars == <<ep, lease, obj, mon, lives, moves, faults, overruns>>
bounds == <<lives, moves, faults, overruns>>

Live == {"deploying", "running", "stopped"}
Duties == {"none", "serve", "stop", "remove", "delete"}
Pcs == {"idle", "list", "read", "claim", "handoff", "delete", "observe", "create",
        "confirm", "undo", "status", "note", "promote", "purge"}

Statuses == [state: {"pending", "running", "deleted"}, life: Nat, gen: Nat,
             del: BOOLEAN, obs: Nat]
Objects == [here: BOOLEAN, life: Nat, gen: Nat, epoch: Nat, dying: BOOLEAN]
Passes == [pc: Pcs, duty: Duties, life: Nat, gen: Nat, epoch: Nat, obs: Nat,
           complete: BOOLEAN, lone: BOOLEAN, seen: Objects]

NoStatus == [state |-> "pending", life |-> 0, gen |-> 0, del |-> FALSE, obs |-> 0]
NoObject == [here |-> FALSE, life |-> 0, gen |-> 0, epoch |-> 0, dying |-> FALSE]
NoPass == [pc |-> "idle", duty |-> "none", life |-> 0, gen |-> 0, epoch |-> 0, obs |-> 0,
           complete |-> FALSE, lone |-> FALSE, seen |-> NoObject]
NoRecord == [state |-> "absent", life |-> 0, targets |-> {}, cleanup |-> {}, doomed |-> {},
             gen |-> [r \in Regions |-> 0], status |-> [r \in Regions |-> NoStatus]]

TypeOK ==
  /\ ep \in [state: Live \union {"absent", "deleted"}, life: Nat, targets: SUBSET Regions,
             cleanup: SUBSET Regions, doomed: SUBSET Regions, gen: [Regions -> Nat],
             status: [Regions -> Statuses]]
  /\ ep.targets \subseteq ep.cleanup /\ ep.cleanup = {r \in Regions : ep.gen[r] > 0}
  /\ lease \in [Regions -> [holder: Monitors \union {Nobody}, epoch: Nat]]
  /\ obj \in [Regions -> Objects]
  /\ mon \in [Monitors -> Passes]
  /\ {lives, moves, faults, overruns} \subseteq Nat

Init ==
  /\ ep = NoRecord
  /\ lease = [r \in Regions |-> [holder |-> Nobody, epoch |-> 0]]
  /\ obj = [r \in Regions |-> NoObject]
  /\ mon = [m \in Monitors |-> NoPass]
  /\ lives = 0 /\ moves = 0 /\ faults = 0 /\ overruns = 0
-----------------------------------------------------------------------------
(* InferenceEndpointStore: what the clients call.  Each is a read and a    *)
(* write that is refused if what it depends on has changed since, so each  *)
(* is one step.                                                            *)

Deploy(targets) ==
  /\ ep.state = "absent" /\ lives < MaxLives /\ targets # {}
  /\ lives' = lives + 1
  /\ ep' = [NoRecord EXCEPT !.state = "deploying", !.life = lives + 1,
                            !.targets = targets, !.cleanup = targets,
                            !.gen = [r \in Regions |-> IF r \in targets THEN 1 ELSE 0]]
  /\ UNCHANGED <<lease, obj, mon, moves, faults, overruns>>

Change(state) ==
  /\ ep.state \in Live /\ ep' = [ep EXCEPT !.state = state]
  /\ UNCHANGED <<lease, obj, mon, bounds>>

StopEndpoint == Change("stopped")
StartEndpoint == ep.state = "stopped" /\ Change("running")
UpdateSpec == Change("deploying")

\* Faulty: only the present targets have to acknowledge the deletion.
DeleteTargets ==
  /\ ep.state \in Live
  /\ ep' = [ep EXCEPT !.state = "deleted", !.doomed = ep.targets]
  /\ UNCHANGED <<lease, obj, mon, bounds>>

DeleteEndpoint ==
  /\ ep.state \in Live
  /\ ep' = [ep EXCEPT !.state = "deleted", !.doomed = ep.cleanup]
  /\ UNCHANGED <<lease, obj, mon, bounds>>

\* Faulty: a change of membership keeps the region's generation.
MoveKeeping(targets, r) ==
  /\ ep.state \in Live /\ moves < MaxMoves /\ moves' = moves + 1
  /\ ep' = [ep EXCEPT !.targets = targets, !.cleanup = @ \union {r},
                      !.gen[r] = IF @ = 0 THEN 1 ELSE @]
  /\ UNCHANGED <<lease, obj, mon, lives, faults, overruns>>

(* Every move of a region in or out gives it a new generation; it stays in *)
(* the cleanup set for good.                                               *)
Move(targets, r) ==
  /\ ep.state \in Live /\ moves < MaxMoves /\ moves' = moves + 1
  /\ ep' = [ep EXCEPT !.targets = targets, !.cleanup = @ \union {r}, !.gen[r] = @ + 1]
  /\ UNCHANGED <<lease, obj, mon, lives, faults, overruns>>

AddRegion(r) == r \notin ep.targets /\ Move(ep.targets \union {r}, r)
RemoveRegion(r) ==
  r \in ep.targets /\ ep.targets # {r} /\ Move(ep.targets \ {r}, r)
-----------------------------------------------------------------------------
(* What a monitor knows and may do                                         *)

Becomes(m, h) == mon' = [mon EXCEPT ![m] = h]
Goto(m, pc) == Becomes(m, [mon[m] EXCEPT !.pc = pc])
Faulted == faults < MaxFaults /\ faults' = faults + 1 /\ UNCHANGED <<lives, moves, overruns>>

(* The end of the endpoint's part of a pass; a deleted one is then looked  *)
(* at once more.                                                           *)
Rest(m) == IF mon[m].duty = "delete" THEN [NoPass EXCEPT !.pc = "purge"] ELSE NoPass
EndEndpoint(m) == Becomes(m, Rest(m))

Terminal(e, r) ==
  LET s == e.status[r] IN
  /\ s.state = "deleted" /\ s.life = e.life /\ s.obs >= 2
  /\ IF e.state = "deleted" THEN s.del ELSE ~s.del /\ s.gen = e.gen[r]

Duty(e, r) ==
  IF e.state = "absent" THEN "none"
  ELSE IF e.state = "deleted"
    THEN IF r \in e.doomed /\ ~Terminal(e, r) THEN "delete" ELSE "none"
  ELSE IF r \notin e.targets
    THEN IF r \in e.cleanup /\ ~Terminal(e, r) THEN "remove" ELSE "none"
  ELSE IF e.state = "stopped" THEN "stop" ELSE "serve"

\* Faulty: a deletion's observations are looked up by the region's generation.
ObservationsOfGen(e, r) ==
  LET s == e.status[r] IN IF s.life = e.life /\ s.gen = e.gen[r] THEN s.obs ELSE 0

(* The observations that still count, of this region's last status.        *)
Observations(e, r) ==
  LET s == e.status[r] IN
  IF s.life = e.life /\ (IF e.state = "deleted" THEN s.del ELSE ~s.del /\ s.gen = e.gen[r])
    THEN s.obs ELSE 0

(* Whether this region is all that keeps a deploying endpoint back.        *)
LastToRun(e, r) ==
  /\ e.state = "deploying"
  /\ \A q \in e.targets \ {r} : e.status[q].state = "running"

Leads(m) ==
  lease[RegionOf[m]].holder = m /\ lease[RegionOf[m]].epoch = mon[m].epoch

Authority(m) ==
  /\ Leads(m)
  /\ ep.state # "absent" /\ ep.life = mon[m].life
  /\ IF mon[m].duty = "delete" THEN ep.state = "deleted"
     ELSE ep.state # "deleted" /\ ep.gen[RegionOf[m]] = mon[m].gen

Cleaning(m) == mon[m].duty \in {"remove", "delete"}
-----------------------------------------------------------------------------
(* InferenceMonitor: a pass                                                *)

Acquire(m) ==
  LET r == RegionOf[m]
      won == IF lease[r].holder = m THEN lease[r]
             ELSE [holder |-> m, epoch |-> lease[r].epoch + 1]
  IN /\ mon[m].pc = "idle" /\ lease[r].holder \in {m, Nobody}
     /\ lease' = [lease EXCEPT ![r] = won]
     /\ Becomes(m, [NoPass EXCEPT !.pc = "list", !.epoch = won.epoch])
     /\ UNCHANGED <<ep, obj, bounds>>

List(m) ==
  LET r == RegionOf[m]
      duty == Duty(ep, r)
  IN /\ mon[m].pc = "list"
     /\ Becomes(m,
          IF duty # "none"
            THEN [mon[m] EXCEPT !.pc = "read", !.duty = duty, !.life = ep.life,
                    !.gen = ep.gen[r],
                    !.obs = IF duty \in {"remove", "delete"} THEN Observations(ep, r) ELSE 0,
                    !.lone = duty = "serve" /\ LastToRun(ep, r)]
          ELSE IF ep.state = "deleted" THEN [NoPass EXCEPT !.pc = "purge"]
          ELSE NoPass)
     /\ UNCHANGED <<ep, lease, obj, bounds>>

\* Faulty: an object of another life is claimed like any other.
StaleByGeneration(m, o) == o.gen # mon[m].gen /\ mon[m].duty # "remove"

(* _authorize_resource and what it is for.  An object of another life, or  *)
(* of another generation while the region is a member, is handed off: its  *)
(* own pass ends, and it is deleted.                                       *)
Stale(m, o) ==
  o.life # mon[m].life \/ (o.gen # mon[m].gen /\ mon[m].duty # "remove")

Authorized(m, o) ==
  IF ~Cleaning(m) THEN Becomes(m, [mon[m] EXCEPT !.pc = "status", !.seen = o])
  ELSE IF Authority(m) THEN Becomes(m, [mon[m] EXCEPT !.pc = "delete", !.seen = o])
  ELSE EndEndpoint(m)

Present(m, o) ==
  IF ~Leads(m) THEN EndEndpoint(m)
  ELSE IF ~Stale(m, o) /\ o.gen = mon[m].gen /\ o.epoch = mon[m].epoch THEN Authorized(m, o)
  ELSE IF ~Authority(m) THEN EndEndpoint(m)
  ELSE Becomes(m, [mon[m] EXCEPT !.pc = IF Stale(m, o) THEN "handoff" ELSE "claim",
                                 !.seen = o])

Missing(m) ==
  CASE mon[m].duty = "serve" -> IF Authority(m) THEN Goto(m, "create") ELSE EndEndpoint(m)
    [] mon[m].duty = "stop" -> Goto(m, "note")
    [] OTHER -> Becomes(m, [mon[m] EXCEPT !.pc = "observe", !.complete = TRUE])

ReadObject(m) ==
  LET o == obj[RegionOf[m]] IN
  /\ mon[m].pc = "read"
  /\ \/ /\ IF o.here THEN Present(m, o) ELSE Missing(m)
        /\ UNCHANGED bounds
     \/ Faulted /\ Goto(m, IF Cleaning(m) THEN "observe" ELSE "note")
  /\ UNCHANGED <<ep, lease, obj>>

Claimed(m) ==
  [mon[m].seen EXCEPT !.life = mon[m].life, !.gen = mon[m].gen, !.epoch = mon[m].epoch]

ClaimObject(m) ==
  LET r == RegionOf[m] IN
  /\ mon[m].pc = "claim"
  /\ \/ /\ obj[r] = mon[m].seen /\ obj' = [obj EXCEPT ![r] = Claimed(m)]
        /\ Authorized(m, Claimed(m)) /\ UNCHANGED bounds
     \/ obj[r] # mon[m].seen /\ EndEndpoint(m) /\ UNCHANGED <<obj, bounds>>
     \/ Faulted /\ EndEndpoint(m) /\ UNCHANGED obj
  /\ UNCHANGED <<ep, lease>>

Dying(o) == [o EXCEPT !.dying = TRUE]

\* Faulty: whatever has the name is deleted.
DeletedByName(m) ==
  LET r == RegionOf[m] IN
  obj[r].here /\ obj' = [obj EXCEPT ![r] = Dying(@)]

(* A delete under the uid and version seen.  The object goes at once, or   *)
(* when its children and finalizers have.                                  *)
DeletedAsSeen(m) ==
  LET r == RegionOf[m] IN
  /\ obj[r].here /\ obj[r] = mon[m].seen
  /\ obj' = [obj EXCEPT ![r] = Dying(@)] \/ obj' = [obj EXCEPT ![r] = NoObject]

Observing(m, complete) ==
  Becomes(m, [mon[m] EXCEPT !.pc = "observe", !.complete = complete])

DeleteObject(m) ==
  LET r == RegionOf[m] IN
  /\ mon[m].pc = "delete"
  /\ \/ DeletedAsSeen(m) /\ Observing(m, ~obj'[r].here) /\ UNCHANGED bounds
     \/ ~obj[r].here /\ Observing(m, TRUE) /\ UNCHANGED <<obj, bounds>>
     \/ obj[r].here /\ obj[r] # mon[m].seen /\ Observing(m, FALSE) /\ UNCHANGED <<obj, bounds>>
     \/ Faulted /\ Observing(m, FALSE) /\ (DeletedAsSeen(m) \/ UNCHANGED obj)
  /\ UNCHANGED <<ep, lease>>

HandOff(m) ==
  /\ mon[m].pc = "handoff"
  /\ \/ DeletedAsSeen(m) /\ EndEndpoint(m) /\ UNCHANGED bounds
     \/ obj[RegionOf[m]] # mon[m].seen /\ EndEndpoint(m) /\ UNCHANGED <<obj, bounds>>
     \/ Faulted /\ Goto(m, "note") /\ (DeletedAsSeen(m) \/ UNCHANGED obj)
  /\ UNCHANGED <<ep, lease>>

Created(m) == [here |-> TRUE, life |-> mon[m].life, gen |-> mon[m].gen,
               epoch |-> mon[m].epoch, dying |-> FALSE]

CreateObject(m) ==
  LET r == RegionOf[m]
      make == ~obj[r].here /\ obj' = [obj EXCEPT ![r] = Created(m)]
  IN /\ mon[m].pc = "create"
     /\ \/ make /\ Goto(m, "confirm") /\ UNCHANGED bounds
        \/ obj[r].here /\ Goto(m, "note") /\ UNCHANGED <<obj, bounds>>
        \/ Faulted /\ Goto(m, "note") /\ (make \/ UNCHANGED obj)
     /\ UNCHANGED <<ep, lease>>

(* _confirm_created_resource: what was created under an authority that has *)
(* gone in the meantime is deleted again.                                  *)
ConfirmCreated(m) ==
  LET o == obj[RegionOf[m]] IN
  /\ mon[m].pc = "confirm"
  /\ \/ /\ UNCHANGED bounds
        /\ IF ~o.here THEN Goto(m, "note")
           ELSE IF Dying(o) # Dying(Created(m)) THEN EndEndpoint(m)
           ELSE Becomes(m, [mon[m] EXCEPT !.pc = IF Authority(m) THEN "note" ELSE "undo",
                                          !.seen = o])
     \/ Faulted /\ Goto(m, "note")
  /\ UNCHANGED <<ep, lease, obj>>

UndoCreate(m) ==
  /\ mon[m].pc = "undo" /\ EndEndpoint(m)
  /\ \/ DeletedAsSeen(m) /\ UNCHANGED bounds
     \/ obj[RegionOf[m]] # mon[m].seen /\ UNCHANGED <<obj, bounds>>
     \/ Faulted /\ UNCHANGED obj
  /\ UNCHANGED <<ep, lease>>
-----------------------------------------------------------------------------
(* InferenceMonitor: what a pass writes into the record                    *)

(* update_region_status: the conditions of the write.                      *)
Admitted(m) ==
  /\ ep.state # "absent" /\ ep.life = mon[m].life
  /\ IF mon[m].duty = "delete"
       THEN ep.state = "deleted" /\ ep.status[RegionOf[m]].state # "deleted"
     ELSE ep.state # "deleted" /\ ep.gen[RegionOf[m]] = mon[m].gen

StatusOf(m, state, obs) ==
  [state |-> state, life |-> mon[m].life, del |-> mon[m].duty = "delete",
   gen |-> IF mon[m].duty = "delete" THEN 0 ELSE mon[m].gen, obs |-> obs]

(* A refused or failed write is only logged.                               *)
WriteStatus(m, state, obs) ==
  /\ \/ /\ Admitted(m) /\ UNCHANGED bounds
        /\ ep' = [ep EXCEPT !.status[RegionOf[m]] = StatusOf(m, state, obs)]
     \/ ~Admitted(m) /\ UNCHANGED <<ep, bounds>>
     \/ Faulted /\ UNCHANGED ep
  /\ UNCHANGED <<lease, obj>>

(* _record_cleanup_observation                                             *)
Counted(m) == IF mon[m].complete THEN mon[m].obs + 1 ELSE 0

Observe(m) ==
  /\ mon[m].pc = "observe" /\ EndEndpoint(m)
  /\ WriteStatus(m, IF Counted(m) >= 2 THEN "deleted" ELSE "pending", Counted(m))

(* The end of a reconciliation that found its object: a pod may be ready.  *)
Report(m) ==
  /\ mon[m].pc = "status"
  /\ \E state \in IF mon[m].duty = "serve" THEN {"running", "pending"} ELSE {"pending"} :
       /\ WriteStatus(m, state, 0)
       /\ IF state = "running" /\ mon[m].lone THEN Goto(m, "promote") ELSE EndEndpoint(m)

(* Created, stopped or failed.                                             *)
Note(m) == mon[m].pc = "note" /\ EndEndpoint(m) /\ WriteStatus(m, "pending", 0)

\* Faulty: the state is not part of the condition.
PromoteAny(m) ==
  /\ mon[m].pc = "promote" /\ EndEndpoint(m)
  /\ IF ep.state # "absent" /\ ep.life = mon[m].life
       THEN ep' = [ep EXCEPT !.state = "running"] ELSE UNCHANGED ep
  /\ UNCHANGED <<lease, obj, bounds>>

Promote(m) ==
  /\ mon[m].pc = "promote" /\ EndEndpoint(m)
  /\ IF ep.state = "deploying" /\ ep.life = mon[m].life
       THEN ep' = [ep EXCEPT !.state = "running"] ELSE UNCHANGED ep
  /\ UNCHANGED <<lease, obj, bounds>>

(* A strong read, and a delete under the version read.                     *)
Purge(m) ==
  /\ mon[m].pc = "purge" /\ Becomes(m, NoPass)
  /\ \/ /\ UNCHANGED bounds
        /\ IF ep.state = "deleted" /\ ep.doomed # {} /\ \A r \in ep.doomed : Terminal(ep, r)
             THEN ep' = NoRecord ELSE UNCHANGED ep
     \/ Faulted /\ UNCHANGED ep
  /\ UNCHANGED <<lease, obj>>
-----------------------------------------------------------------------------
(* The environment                                                         *)

Crash(m) ==
  /\ mon[m].pc # "idle" /\ Becomes(m, NoPass) /\ Faulted
  /\ UNCHANGED <<ep, lease, obj>>

(* A lease lapses when its holder is gone, cannot renew it, or is stalled. *)
Lapse(r) ==
  LET m == lease[r].holder IN
  /\ m # Nobody /\ lease' = [lease EXCEPT ![r].holder = Nobody]
  /\ IF mon[m].pc = "idle" THEN Faulted
     ELSE overruns < MaxOverruns /\ overruns' = overruns + 1 /\ UNCHANGED <<lives, moves, faults>>
  /\ UNCHANGED <<ep, obj, mon>>

Collect(r) ==
  /\ obj[r].dying /\ obj' = [obj EXCEPT ![r] = NoObject]
  /\ UNCHANGED <<ep, lease, mon, bounds>>

Step(m) ==
  \/ List(m) \/ ReadObject(m) \/ ClaimObject(m) \/ DeleteObject(m) \/ HandOff(m)
  \/ CreateObject(m) \/ ConfirmCreated(m) \/ UndoCreate(m)
  \/ Observe(m) \/ Report(m) \/ Note(m) \/ Promote(m) \/ Purge(m)

Client ==
  \/ \E targets \in SUBSET Regions : Deploy(targets)
  \/ StopEndpoint \/ StartEndpoint \/ UpdateSpec \/ DeleteEndpoint
  \/ \E r \in Regions : AddRegion(r) \/ RemoveRegion(r)

Next ==
  \/ Client
  \/ \E m \in Monitors : Acquire(m) \/ Step(m) \/ Crash(m)
  \/ \E r \in Regions : Lapse(r) \/ Collect(r)

Spec == Init /\ [][Next]_vars

(* Monitors poll for ever, and the cluster collects what is deleted.       *)
Fairness ==
  /\ \A m \in Monitors : WF_vars(Acquire(m)) /\ WF_vars(Step(m))
  /\ \A r \in Regions : WF_vars(Collect(r))

FairSpec == Spec /\ Fairness
-----------------------------------------------------------------------------
(* Nothing of an endpoint is left behind: unless a monitor outlived its    *)
(* lease in the middle of a pass, whatever a cluster has is of the record's *)
(* present life and in its cleanup set, so deletion will reach it.         *)
NothingLeftBehind ==
  overruns = 0 =>
    \A r \in Regions : obj[r].here =>
      /\ obj[r].life = ep.life
      /\ r \in ep.cleanup
      /\ ep.state = "deleted" => r \in ep.doomed

(* A terminal acknowledgement is true, also of a region that was removed,  *)
(* added and removed again: from then on the region has nothing.           *)
AckedIsEmpty ==
  overruns = 0 =>
    \A r \in Regions : ep.state # "absent" /\ Terminal(ep, r) => ~obj[r].here

(* Whatever late writers do, deletion is final and an acknowledgement of   *)
(* it stays, and only a purge removes the record.                          *)
DeletionIsFinal ==
  [][ep.state = "deleted" =>
       \/ ep'.state = "absent" /\ \A r \in ep.doomed : Terminal(ep, r)
       \/ /\ ep'.state = "deleted" /\ ep'.life = ep.life /\ ep'.doomed = ep.doomed
          /\ \A r \in ep.doomed : Terminal(ep, r) => Terminal(ep', r)]_vars

(* An object never changes hands between lives, and what the present       *)
(* leader has claimed for the present generation is not deleted, by a late *)
(* pass or by anyone.                                                      *)
Serving(r) ==
  /\ ep.state \in Live /\ r \in ep.targets
  /\ obj[r].here /\ ~obj[r].dying /\ lease[r].holder # Nobody
  /\ obj[r].life = ep.life /\ obj[r].gen = ep.gen[r] /\ obj[r].epoch = lease[r].epoch

ServingSurvives ==
  [][\A r \in Regions :
       /\ Serving(r) => obj'[r].here /\ ~obj'[r].dying
       /\ obj[r].here /\ obj'[r].here => obj'[r].life = obj[r].life]_vars

(* A deleted endpoint is purged, and its name free again, unless a removed *)
(* region acknowledged its removal first.                                  *)
DeletedIsPurged ==
  ep.state = "deleted" /\ (\A r \in ep.doomed : ep.status[r].state = "deleted" => ep.status[r].del)
    ~> ep.state = "absent"

(* INFERENCE.md:881 "Every authoritative region writes fresh               *)
(* generation-scoped `deleting` and then `deleted` acknowledgements", and  *)
(* :860 "wait for the record to be purged": a deleted endpoint is purged.  *)
AlwaysPurged == ep.state = "deleted" ~> ep.state = "absent"
=============================================================================

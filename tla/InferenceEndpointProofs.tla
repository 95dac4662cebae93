----------------------- MODULE InferenceEndpointProofs -----------------------
(***************************************************************************)
(* What holds of an endpoint for any regions, monitors, lives, changes of  *)
(* membership, faults and overrun leases: deletion is final, and no late   *)
(* pass takes away what the present leader serves.  While no lease is      *)
(* overrun, deletion also reaches everything and its acknowledgements are  *)
(* true.                                                                   *)
(*                                                                         *)
(* Inv says why.  Lives, generations and epochs only grow, so what a pass  *)
(* remembers is not ahead of the record and of its region's lease; and at  *)
(* every call that deletes, the object the pass has seen is one that can   *)
(* never be served again.                                                  *)
(***************************************************************************)
EXTENDS InferenceEndpoint, TLAPS

(* An epoch has one holder, and a pass has its own term's.                 *)
TermOK(m, h) ==
  LET l == lease[RegionOf[m]] IN
  h.pc \notin {"idle", "purge"} =>
    /\ h.epoch <= l.epoch
    /\ h.epoch = l.epoch /\ l.holder # Nobody => l.holder = m

(* The record has moved on from the snapshot a pass works from, or is as   *)
(* the snapshot has it.                                                    *)
SnapshotOK(m, h) ==
  LET r == RegionOf[m] IN
  h.pc \notin {"idle", "purge", "list"} =>
    /\ h.life <= lives
    /\ ep.state # "absent" /\ ep.life = h.life =>
         /\ h.duty = "delete" => ep.state = "deleted"
         /\ h.gen <= ep.gen[r]
         /\ h.duty = "remove" /\ ep.gen[r] = h.gen => r \notin ep.targets

(* The authority a created object carries is gone.                         *)
Lost(m, h) ==
  LET r == RegionOf[m] IN
  \/ lease[r].holder = Nobody \/ lease[r].epoch # h.epoch
  \/ ep.state \notin Live \/ ep.life # h.life \/ ep.gen[r] # h.gen

(* What a pass about to change an object knows of it.                      *)
SeenOK(m, h) ==
  /\ h.pc = "claim" => h.seen.here /\ h.seen.life = h.life
  /\ h.pc = "delete" =>
       h.duty \in {"remove", "delete"} /\ h.seen.life = h.life /\ h.seen.gen = h.gen
  /\ h.pc = "handoff" =>
       \/ h.seen.life < h.life
       \/ h.seen.life = h.life /\ (h.duty = "delete" \/ h.seen.gen < h.gen)
  /\ h.pc \in {"create", "confirm", "undo"} => h.duty = "serve"
  /\ h.pc = "undo" =>
       h.seen.life = h.life /\ h.seen.gen = h.gen /\ h.seen.epoch = h.epoch /\ Lost(m, h)

PassOK(m, h) == h \in Passes /\ TermOK(m, h) /\ SnapshotOK(m, h) /\ SeenOK(m, h)

RecordOK == ep.state # "absent" => ep.life = lives

ObjectsOK ==
  \A r \in Regions : obj[r].here =>
    /\ obj[r].life <= lives
    /\ ep.state # "absent" /\ ep.life = obj[r].life => obj[r].gen <= ep.gen[r]

Inv == TypeOK /\ RecordOK /\ ObjectsOK /\ \A m \in Monitors : PassOK(m, mon[m])
-----------------------------------------------------------------------------
(* The state around a pass *)

RecordTyped ==
  /\ ep \in [state: Live \union {"absent", "deleted"}, life: Nat, targets: SUBSET Regions,
             cleanup: SUBSET Regions, doomed: SUBSET Regions, gen: [Regions -> Nat],
             status: [Regions -> Statuses]]
  /\ ep.targets \subseteq ep.cleanup /\ ep.cleanup = {r \in Regions : ep.gen[r] > 0}

LeasesTyped == lease \in [Regions -> [holder: Monitors \union {Nobody}, epoch: Nat]]
BoundsTyped == {lives, moves, faults, overruns} \subseteq Nat

LEMMA Typed ==
  TypeOK <=> /\ RecordTyped /\ LeasesTyped /\ obj \in [Regions -> Objects]
             /\ mon \in [Monitors -> Passes] /\ BoundsTyped
BY DEF TypeOK, RecordTyped, LeasesTyped, BoundsTyped

(* A record only moves on within a life, or gives way to a later one.      *)
Forward ==
  /\ lives <= lives'
  /\ ep'.state # "absent" =>
       \/ ep'.life = lives' /\ lives' > lives
       \/ /\ ep.state # "absent" /\ ep'.life = ep.life /\ lives' = lives
          /\ ep.state = "deleted" => ep'.state = "deleted"
          /\ \A r \in Regions :
               /\ ep.gen[r] <= ep'.gen[r]
               /\ ep.gen[r] = ep'.gen[r] => (r \in ep'.targets <=> r \in ep.targets)

(* A lease that is not held lapses or is taken in a new epoch.             *)
LeaseForward(r) ==
  \/ lease'[r] = lease[r]
  \/ lease'[r].holder = Nobody /\ lease'[r].epoch = lease[r].epoch
  \/ lease[r].holder = Nobody /\ lease'[r].epoch = lease[r].epoch + 1

LEMMA PassKept ==
  ASSUME TypeOK, RecordOK, TypeOK', Forward, NEW m \in Monitors, LeaseForward(RegionOf[m]),
         NEW h, PassOK(m, h)
  PROVE  PassOK(m, h)'
<1> DEFINE r == RegionOf[m]
<1>r. r \in Regions
  BY EndpointAssumption
<1>t. /\ h \in Passes /\ h.epoch \in Nat /\ h.life \in Nat /\ h.gen \in Nat
      /\ lives \in Nat /\ lives' \in Nat /\ ep.life \in Nat /\ ep'.life \in Nat
      /\ ep.gen[r] \in Nat /\ ep'.gen[r] \in Nat
      /\ lease[r].epoch \in Nat /\ lease'[r].epoch \in Nat
  BY <1>r DEF PassOK, Passes, TypeOK
<1>1. TermOK(m, h)'
  BY <1>t DEF PassOK, TermOK, LeaseForward
<1>2. SnapshotOK(m, h)'
  <2> SUFFICES ASSUME h.pc \notin {"idle", "purge", "list"}
               PROVE  /\ h.life <= lives'
                      /\ ep'.state # "absent" /\ ep'.life = h.life =>
                           /\ h.duty = "delete" => ep'.state = "deleted"
                           /\ h.gen <= ep'.gen[r]
                           /\ h.duty = "remove" /\ ep'.gen[r] = h.gen => r \notin ep'.targets
    BY DEF SnapshotOK
  <2>1. h.life <= lives
    BY DEF PassOK, SnapshotOK
  <2>2. ep.state # "absent" /\ ep.life = h.life =>
          /\ h.duty = "delete" => ep.state = "deleted"
          /\ h.gen <= ep.gen[r]
          /\ h.duty = "remove" /\ ep.gen[r] = h.gen => r \notin ep.targets
    BY DEF PassOK, SnapshotOK
  <2> QED BY <1>r, <1>t, <2>1, <2>2 DEF Forward
<1>3. SeenOK(m, h)'
  <2>1. ASSUME h.pc = "undo" PROVE Lost(m, h)'
    <3>1. Lost(m, h) /\ h.life <= lives /\ h.epoch <= lease[r].epoch
      BY <2>1 DEF PassOK, SeenOK, SnapshotOK, TermOK
    <3>2. ep.state # "absent" /\ ep.life = h.life => h.gen <= ep.gen[r]
      BY <2>1 DEF PassOK, SnapshotOK
    <3>3. CASE lease[r].holder = Nobody \/ lease[r].epoch # h.epoch
      BY <1>t, <3>1, <3>3 DEF Lost, LeaseForward
    <3>4. CASE ep.state \notin Live \/ ep.life # h.life \/ ep.gen[r] # h.gen
      <4>1. ep'.state \in Live => ep'.state # "absent" /\ ep'.state # "deleted"
        BY DEF Live
      <4>2. ep.state \in Live \union {"absent", "deleted"}
        BY DEF TypeOK
      <4> QED BY <1>r, <1>t, <3>1, <3>2, <3>4, <4>1, <4>2 DEF Lost, Forward, RecordOK
    <3> QED BY <3>1, <3>3, <3>4 DEF Lost
  <2> QED BY <2>1 DEF PassOK, SeenOK
<1> QED BY <1>1, <1>2, <1>3 DEF PassOK

(* What every step of a monitor comes to.                                  *)
LEMMA Advance ==
  ASSUME Inv, NEW m \in Monitors, NEW h, Becomes(m, h), PassOK(m, h)', Forward,
         \A r \in Regions : LeaseForward(r),
         RecordTyped', LeasesTyped', BoundsTyped', RecordOK',
         obj' \in [Regions -> Objects], ObjectsOK'
  PROVE  Inv'
<1>1. mon' \in [Monitors -> Passes]
  BY DEF Inv, TypeOK, Becomes, PassOK
<1>2. TypeOK'
  BY <1>1, Typed DEF TypeOK, RecordTyped, LeasesTyped, BoundsTyped
<1>3. ASSUME NEW n \in Monitors PROVE PassOK(n, mon[n])'
  <2>1. CASE n = m
    <3>1. mon'[n] = h
      BY <2>1 DEF Becomes, Inv, TypeOK
    <3> QED BY <2>1, <3>1 DEF PassOK, TermOK, SnapshotOK, SeenOK, Lost
  <2>2. CASE n # m
    <3>0. PICK k : k = mon[n]
      OBVIOUS
    <3>1. mon'[n] = k
      BY <2>2, <3>0 DEF Becomes, Inv, TypeOK
    <3>2. PassOK(n, k)
      BY <3>0 DEF Inv
    <3>3. LeaseForward(RegionOf[n])
      BY EndpointAssumption
    <3>4. PassOK(n, k)'
      BY <1>2, <3>2, <3>3, PassKept DEF Inv
    <3> QED BY <3>1, <3>4 DEF PassOK, TermOK, SnapshotOK, SeenOK, Lost
  <2> QED BY <2>1, <2>2
<1> QED BY <1>2, <1>3 DEF Inv
-----------------------------------------------------------------------------
(* Steps of a monitor that leave the record alone *)

LEMMA RestOK ==
  ASSUME NEW m \in Monitors
  PROVE  Rest(m) \in {NoPass, [NoPass EXCEPT !.pc = "purge"]} /\ PassOK(m, Rest(m)) /\ PassOK(m, NoPass)
<1>1. NoPass \in Passes /\ [NoPass EXCEPT !.pc = "purge"] \in Passes
  BY DEF NoPass, NoObject, Passes, Objects, Pcs, Duties
<1>2. PassOK(m, NoPass)
  BY <1>1 DEF NoPass, PassOK, TermOK, SnapshotOK, SeenOK
<1>3. PassOK(m, [NoPass EXCEPT !.pc = "purge"])
  BY <1>1 DEF NoPass, PassOK, TermOK, SnapshotOK, SeenOK
<1>4. Rest(m) = NoPass \/ Rest(m) = [NoPass EXCEPT !.pc = "purge"]
  BY DEF Rest
<1>5. CASE Rest(m) = NoPass
  BY <1>2, <1>5
<1>6. CASE Rest(m) = [NoPass EXCEPT !.pc = "purge"]
  BY <1>2, <1>3, <1>6
<1> QED BY <1>4, <1>5, <1>6

LEMMA Counting ==
  ASSUME TypeOK, Faulted \/ UNCHANGED bounds
  PROVE  BoundsTyped' /\ lives' = lives
BY DEF TypeOK, Faulted, bounds, BoundsTyped

LEMMA Shrinking ==
  ASSUME TypeOK, ObjectsOK, NEW m \in Monitors, DeletedAsSeen(m) \/ UNCHANGED obj,
         UNCHANGED ep, lives' = lives
  PROVE  obj' \in [Regions -> Objects] /\ ObjectsOK'
<1> DEFINE r == RegionOf[m]
<1>r. r \in Regions
  BY EndpointAssumption
<1>1. CASE UNCHANGED obj
  BY <1>1 DEF TypeOK, ObjectsOK
<1>2. CASE DeletedAsSeen(m)
  <2>1. Dying(obj[r]) \in Objects /\ NoObject \in Objects
    BY <1>r DEF Dying, NoObject, Objects, TypeOK
  <2>2. obj' \in [Regions -> Objects]
    BY <1>2, <2>1 DEF DeletedAsSeen, TypeOK
  <2>3. ASSUME NEW q \in Regions, obj'[q].here
        PROVE  obj[q].here /\ obj'[q].life = obj[q].life /\ obj'[q].gen = obj[q].gen
    <3>1. obj[q] \in Objects
      BY DEF TypeOK
    <3>2. obj'[q] = obj[q] \/ (q = r /\ obj'[q] \in {Dying(obj[q]), NoObject})
      BY <1>2, <1>r DEF DeletedAsSeen, TypeOK
    <3> QED BY <1>2, <2>3, <3>1, <3>2 DEF DeletedAsSeen, Dying, NoObject, Objects
  <2> QED BY <2>2, <2>3 DEF ObjectsOK
<1> QED BY <1>1, <1>2

LEMMA Quiet ==
  ASSUME Inv, NEW m \in Monitors, NEW h, Becomes(m, h), PassOK(m, h),
         UNCHANGED <<ep, lease>>, Faulted \/ UNCHANGED bounds,
         obj' \in [Regions -> Objects], ObjectsOK'
  PROVE  Inv'
<1>1. BoundsTyped' /\ lives' = lives
  BY Counting DEF Inv
<1>2. PassOK(m, h)'
  BY <1>1 DEF PassOK, TermOK, SnapshotOK, SeenOK, Lost
<1>3. Forward /\ \A r \in Regions : LeaseForward(r)
  BY <1>1 DEF Inv, TypeOK, Forward, LeaseForward, RecordOK
<1>4. RecordTyped' /\ LeasesTyped' /\ RecordOK'
  BY <1>1, Typed DEF Inv, RecordTyped, LeasesTyped, RecordOK
<1> QED BY <1>1, <1>2, <1>3, <1>4, Advance

LEMMA AtWork ==
  ASSUME Inv, NEW m \in Monitors, mon[m].pc \notin {"idle", "purge", "list"}
  PROVE  /\ mon[m] \in Passes /\ PassOK(m, mon[m])
         /\ TermOK(m, mon[m]) /\ SnapshotOK(m, mon[m]) /\ SeenOK(m, mon[m])
         /\ RegionOf[m] \in Regions /\ obj[RegionOf[m]] \in Objects
BY EndpointAssumption DEF Inv, TypeOK, PassOK

LEMMA Ending ==
  ASSUME Inv, NEW m \in Monitors, EndEndpoint(m), UNCHANGED <<ep, lease>>,
         Faulted \/ UNCHANGED bounds, obj' \in [Regions -> Objects], ObjectsOK'
  PROVE  Inv'
BY RestOK, Quiet DEF EndEndpoint

(* A pass that goes on to a call of which SeenOK asks nothing.             *)
LEMMA GoingOn ==
  ASSUME Inv, NEW m \in Monitors, mon[m].pc \notin {"idle", "purge", "list"},
         NEW pc \in {"observe", "status", "note", "promote"}, NEW o \in Objects, NEW c \in BOOLEAN,
         Becomes(m, [mon[m] EXCEPT !.pc = pc, !.seen = o, !.complete = c]),
         UNCHANGED <<ep, lease>>, Faulted \/ UNCHANGED bounds,
         obj' \in [Regions -> Objects], ObjectsOK'
  PROVE  Inv'
<1> DEFINE h == [mon[m] EXCEPT !.pc = pc, !.seen = o, !.complete = c]
<1>1. mon[m] \in Passes /\ TermOK(m, mon[m]) /\ SnapshotOK(m, mon[m])
  BY AtWork
<1>2. /\ h \in Passes /\ h.pc = pc /\ h.epoch = mon[m].epoch /\ h.life = mon[m].life
      /\ h.gen = mon[m].gen /\ h.duty = mon[m].duty
  BY <1>1 DEF Passes, Pcs
<1>3. TermOK(m, h) /\ SnapshotOK(m, h) /\ SeenOK(m, h)
  BY <1>1, <1>2 DEF TermOK, SnapshotOK, SeenOK
<1>4. PassOK(m, h)
  BY <1>2, <1>3 DEF PassOK
<1> QED BY <1>4, Quiet

LEMMA GoingTo ==
  ASSUME Inv, NEW m \in Monitors, mon[m].pc \notin {"idle", "purge", "list"},
         NEW pc \in {"observe", "status", "note", "promote"}, Goto(m, pc),
         UNCHANGED <<ep, lease>>, Faulted \/ UNCHANGED bounds,
         obj' \in [Regions -> Objects], ObjectsOK'
  PROVE  Inv'
<1>1. mon[m] \in Passes
  BY AtWork
<1>2. [mon[m] EXCEPT !.pc = pc]
        = [mon[m] EXCEPT !.pc = pc, !.seen = mon[m].seen, !.complete = mon[m].complete]
  BY <1>1 DEF Passes
<1>3. mon[m].seen \in Objects /\ mon[m].complete \in BOOLEAN
  BY <1>1 DEF Passes
<1> QED BY <1>2, <1>3, GoingOn DEF Goto

(* From here to a deletion. *)
LEMMA GoingToDelete ==
  ASSUME Inv, NEW m \in Monitors, mon[m].pc \notin {"idle", "purge", "list"},
         NEW o \in Objects, o.life = mon[m].life, o.gen = mon[m].gen, Authorized(m, o),
         UNCHANGED <<ep, lease>>, Faulted \/ UNCHANGED bounds,
         obj' \in [Regions -> Objects], ObjectsOK'
  PROVE  Inv'
<1>0. mon[m] \in Passes /\ TermOK(m, mon[m]) /\ SnapshotOK(m, mon[m])
  BY AtWork
<1>1. CASE ~Cleaning(m)
  <2>1. /\ mon[m].complete \in BOOLEAN
        /\ [mon[m] EXCEPT !.pc = "status", !.seen = o]
             = [mon[m] EXCEPT !.pc = "status", !.seen = o, !.complete = mon[m].complete]
    BY <1>0 DEF Passes
  <2> QED BY <1>1, <2>1, GoingOn DEF Authorized
<1>2. CASE Cleaning(m) /\ Authority(m)
  <2> DEFINE h == [mon[m] EXCEPT !.pc = "delete", !.seen = o]
  <2>1. /\ h \in Passes /\ h.pc = "delete" /\ h.epoch = mon[m].epoch /\ h.life = mon[m].life
        /\ h.gen = mon[m].gen /\ h.duty = mon[m].duty /\ h.seen = o
    BY <1>0 DEF Passes, Pcs
  <2>2. TermOK(m, h) /\ SnapshotOK(m, h)
    BY <1>0, <2>1 DEF TermOK, SnapshotOK
  <2>3. SeenOK(m, h)
    BY <1>2, <2>1 DEF SeenOK, Cleaning
  <2>4. PassOK(m, h) /\ Becomes(m, h)
    BY <1>2, <2>1, <2>2, <2>3 DEF PassOK, Authorized
  <2> QED BY <2>4, Quiet
<1>3. CASE Cleaning(m) /\ ~Authority(m)
  BY <1>3, Ending DEF Authorized
<1> QED BY <1>1, <1>2, <1>3

LEMMA ListStep ==
  ASSUME Inv, NEW m \in Monitors, List(m)
  PROVE  Inv'
<1> DEFINE r == RegionOf[m]
           duty == Duty(ep, r)
<1>r. r \in Regions /\ obj' \in [Regions -> Objects] /\ ObjectsOK' /\ UNCHANGED <<ep, lease, bounds>>
  BY EndpointAssumption DEF List, Inv, TypeOK, ObjectsOK, bounds
<1>1. CASE duty # "none"
  <2> DEFINE obs == IF duty \in {"remove", "delete"} THEN Observations(ep, r) ELSE 0
             lone == duty = "serve" /\ LastToRun(ep, r)
             h == [mon[m] EXCEPT !.pc = "read", !.duty = duty, !.life = ep.life,
                    !.gen = ep.gen[r], !.obs = obs, !.lone = lone]
  <2>1. /\ ep.life \in Nat /\ ep.gen[r] \in Nat /\ ep.status[r] \in Statuses
        /\ mon[m] \in Passes /\ mon[m].pc = "list" /\ lives \in Nat
    BY <1>r DEF Inv, TypeOK, List
  <2>2. duty \in {"serve", "stop", "remove", "delete"}
    BY <1>1 DEF Duty
  <2>3. obs \in Nat
    BY <2>1 DEF Observations, Statuses
  <2>4. lone \in BOOLEAN
    BY DEF LastToRun
  <2>5. h \in Passes
    BY <2>1, <2>2, <2>3, <2>4 DEF Passes, Duties, Pcs
  <2>6. /\ h.pc = "read" /\ h.duty = duty /\ h.life = ep.life /\ h.gen = ep.gen[r]
        /\ h.epoch = mon[m].epoch
    BY <2>1 DEF Passes
  <2>7. /\ ep.state # "absent" /\ ep.life = lives
        /\ duty = "delete" => ep.state = "deleted"
        /\ duty = "remove" => r \notin ep.targets
    BY <1>1 DEF Duty, Inv, RecordOK
  <2>8. TermOK(m, h)
    BY <2>1, <2>6 DEF Inv, PassOK, TermOK
  <2>9. SnapshotOK(m, h) /\ SeenOK(m, h)
    BY <2>1, <2>6, <2>7 DEF SnapshotOK, SeenOK
  <2>10. PassOK(m, h) /\ Becomes(m, h)
    BY <1>1, <2>5, <2>8, <2>9 DEF PassOK, List
  <2> QED BY <1>r, <2>10, Quiet
<1>2. CASE duty = "none"
  <2>1. Becomes(m, NoPass) \/ Becomes(m, [NoPass EXCEPT !.pc = "purge"])
    BY <1>2 DEF List
  <2>2. [NoPass EXCEPT !.pc = "purge"] \in Passes /\ PassOK(m, [NoPass EXCEPT !.pc = "purge"])
    BY DEF NoPass, NoObject, Passes, Objects, Pcs, Duties, PassOK, TermOK, SnapshotOK, SeenOK
  <2> QED BY <1>r, <2>1, <2>2, RestOK, Quiet
<1> QED BY <1>1, <1>2

LEMMA PresentStep ==
  ASSUME Inv, NEW m \in Monitors, mon[m].pc = "read", NEW o \in Objects, o = obj[RegionOf[m]],
         o.here, Present(m, o), UNCHANGED <<ep, lease, obj>>, UNCHANGED bounds
  PROVE  Inv'
<1> DEFINE r == RegionOf[m]
<1>0. /\ mon[m] \in Passes /\ TermOK(m, mon[m]) /\ SnapshotOK(m, mon[m]) /\ r \in Regions
      /\ obj' \in [Regions -> Objects] /\ ObjectsOK' /\ mon[m].pc \notin {"idle", "purge", "list"}
  BY AtWork, Counting DEF Inv, TypeOK, ObjectsOK, bounds
<1>1. CASE ~Leads(m)
  BY <1>0, <1>1, Ending DEF Present
<1>2. CASE Leads(m) /\ ~Stale(m, o) /\ o.gen = mon[m].gen /\ o.epoch = mon[m].epoch
  <2>1. o.life = mon[m].life /\ Authorized(m, o)
    BY <1>2 DEF Present, Stale
  <2> QED BY <1>0, <1>2, <2>1, GoingToDelete
<1>3. CASE /\ Leads(m) /\ ~(~Stale(m, o) /\ o.gen = mon[m].gen /\ o.epoch = mon[m].epoch)
           /\ ~Authority(m)
  BY <1>0, <1>3, Ending DEF Present
<1>4. CASE /\ Leads(m) /\ ~(~Stale(m, o) /\ o.gen = mon[m].gen /\ o.epoch = mon[m].epoch)
           /\ Authority(m)
  <2> DEFINE pc == IF Stale(m, o) THEN "handoff" ELSE "claim"
             h == [mon[m] EXCEPT !.pc = pc, !.seen = o]
  <2>1. /\ h \in Passes /\ h.pc = pc /\ h.epoch = mon[m].epoch /\ h.life = mon[m].life
        /\ h.gen = mon[m].gen /\ h.duty = mon[m].duty /\ h.seen = o
    BY <1>0 DEF Passes, Pcs
  <2>2. TermOK(m, h) /\ SnapshotOK(m, h)
    BY <1>0, <2>1 DEF TermOK, SnapshotOK
  <2>3. /\ ep.state # "absent" /\ ep.life = mon[m].life /\ ep.life = lives
        /\ mon[m].duty # "delete" => ep.gen[r] = mon[m].gen
    BY <1>4 DEF Authority, Inv, RecordOK
  <2>4. o.life <= lives /\ (ep.life = o.life => o.gen <= ep.gen[r])
    BY <1>0, <2>3 DEF Inv, ObjectsOK
  <2>5. o.life \in Nat /\ o.gen \in Nat /\ mon[m].gen \in Nat /\ mon[m].life \in Nat
    BY <1>0 DEF Objects, Passes
  <2>6. SeenOK(m, h)
    <3>1. CASE Stale(m, o)
      <4>1. o.life # mon[m].life \/ (o.gen # mon[m].gen /\ mon[m].duty # "remove")
        BY <3>1 DEF Stale
      <4>2. \/ o.life < mon[m].life
            \/ o.life = mon[m].life /\ (mon[m].duty = "delete" \/ o.gen < mon[m].gen)
        BY <2>3, <2>4, <2>5, <4>1
      <4> QED BY <2>1, <3>1, <4>2 DEF SeenOK
    <3>2. CASE ~Stale(m, o)
      BY <2>1, <3>2 DEF SeenOK, Stale
    <3> QED BY <3>1, <3>2
  <2>7. PassOK(m, h)
    BY <2>1, <2>2, <2>6 DEF PassOK
  <2>8. Becomes(m, h)
    BY <1>4 DEF Present
  <2> QED BY <1>0, <2>7, <2>8, Quiet
<1> QED BY <1>1, <1>2, <1>3, <1>4

LEMMA MissingStep ==
  ASSUME Inv, NEW m \in Monitors, mon[m].pc = "read", Missing(m),
         UNCHANGED <<ep, lease, obj>>, UNCHANGED bounds
  PROVE  Inv'
<1>0. /\ mon[m] \in Passes /\ TermOK(m, mon[m]) /\ SnapshotOK(m, mon[m])
      /\ obj' \in [Regions -> Objects] /\ ObjectsOK' /\ mon[m].pc \notin {"idle", "purge", "list"}
  BY AtWork, Counting DEF Inv, TypeOK, ObjectsOK, bounds
<1>1. CASE mon[m].duty = "serve" /\ Authority(m)
  <2> DEFINE h == [mon[m] EXCEPT !.pc = "create"]
  <2>1. /\ h \in Passes /\ h.pc = "create" /\ h.epoch = mon[m].epoch /\ h.life = mon[m].life
        /\ h.gen = mon[m].gen /\ h.duty = "serve"
    BY <1>0, <1>1 DEF Passes, Pcs
  <2>2. PassOK(m, h) /\ Becomes(m, h)
    BY <1>0, <1>1, <2>1 DEF PassOK, TermOK, SnapshotOK, SeenOK, Missing, Goto
  <2> QED BY <1>0, <2>2, Quiet
<1>2. CASE mon[m].duty = "serve" /\ ~Authority(m)
  BY <1>0, <1>2, Ending DEF Missing
<1>3. CASE mon[m].duty = "stop"
  BY <1>0, <1>3, GoingTo DEF Missing
<1>4. CASE mon[m].duty \notin {"serve", "stop"}
  <2>1. /\ mon[m].seen \in Objects /\ TRUE \in BOOLEAN
        /\ [mon[m] EXCEPT !.pc = "observe", !.complete = TRUE]
             = [mon[m] EXCEPT !.pc = "observe", !.seen = mon[m].seen, !.complete = TRUE]
    BY <1>0 DEF Passes
  <2>2. Becomes(m, [mon[m] EXCEPT !.pc = "observe", !.seen = mon[m].seen, !.complete = TRUE])
    BY <1>4, <2>1 DEF Missing
  <2> QED BY <1>0, <2>1, <2>2, GoingOn
<1> QED BY <1>1, <1>2, <1>3, <1>4

LEMMA ReadStep ==
  ASSUME Inv, NEW m \in Monitors, ReadObject(m)
  PROVE  Inv'
<1>0. /\ obj' \in [Regions -> Objects] /\ mon[m].pc = "read" /\ UNCHANGED <<ep, lease, obj>>
      /\ obj[RegionOf[m]] \in Objects
  BY AtWork DEF ReadObject, Inv, TypeOK
<1>1. CASE UNCHANGED bounds /\ obj[RegionOf[m]].here /\ Present(m, obj[RegionOf[m]])
  BY <1>0, <1>1, PresentStep
<1>2. CASE UNCHANGED bounds /\ Missing(m)
  BY <1>0, <1>2, MissingStep
<1>3. CASE Faulted /\ Goto(m, IF Cleaning(m) THEN "observe" ELSE "note")
  <2>1. ObjectsOK'
    BY <1>0, <1>3, Counting DEF Inv, ObjectsOK
  <2> QED BY <1>0, <1>3, <2>1, GoingTo
<1> QED BY <1>1, <1>2, <1>3 DEF ReadObject

LEMMA ClaimStep ==
  ASSUME Inv, NEW m \in Monitors, ClaimObject(m)
  PROVE  Inv'
<1> DEFINE r == RegionOf[m]
           o == Claimed(m)
<1>0. /\ mon[m].pc = "claim" /\ mon[m] \in Passes /\ SnapshotOK(m, mon[m]) /\ SeenOK(m, mon[m])
      /\ r \in Regions /\ UNCHANGED <<ep, lease>> /\ mon[m].pc \notin {"idle", "purge", "list"}
  BY AtWork DEF ClaimObject
<1>1. CASE obj' = obj
  <2>1. obj' \in [Regions -> Objects] /\ ObjectsOK'
    BY <1>0, <1>1, Counting DEF Inv, TypeOK, ObjectsOK, ClaimObject, Faulted
  <2>2. CASE EndEndpoint(m) /\ (Faulted \/ UNCHANGED bounds)
    BY <1>0, <2>1, <2>2, Ending
  <2>3. CASE /\ obj[r] = mon[m].seen /\ obj' = [obj EXCEPT ![r] = o] /\ Authorized(m, o)
             /\ UNCHANGED bounds
    <3>1. o \in Objects /\ o.life = mon[m].life /\ o.gen = mon[m].gen
      BY <1>0 DEF Claimed, Objects, Passes
    <3> QED BY <1>0, <2>1, <2>3, <3>1, GoingToDelete
  <2> QED BY <2>2, <2>3 DEF ClaimObject
<1>2. CASE /\ obj[r] = mon[m].seen /\ obj' = [obj EXCEPT ![r] = o] /\ Authorized(m, o)
           /\ UNCHANGED bounds
  <2>1. o \in Objects /\ o.life = mon[m].life /\ o.gen = mon[m].gen
    BY <1>0 DEF Claimed, Objects, Passes
  <2>2. obj' \in [Regions -> Objects]
    BY <1>2, <2>1 DEF Inv, TypeOK
  <2>3. mon[m].life <= lives /\ (ep.state # "absent" /\ ep.life = mon[m].life => mon[m].gen <= ep.gen[r])
    BY <1>0 DEF SnapshotOK
  <2>4. ASSUME NEW q \in Regions PROVE obj'[q] = IF q = r THEN o ELSE obj[q]
    BY <1>2 DEF Inv, TypeOK
  <2>5. ObjectsOK'
    BY <1>0, <1>2, <2>1, <2>3, <2>4 DEF Inv, ObjectsOK, bounds
  <2> QED BY <1>0, <1>2, <2>1, <2>2, <2>5, GoingToDelete
<1> QED BY <1>1, <1>2 DEF ClaimObject

LEMMA DeleteStep ==
  ASSUME Inv, NEW m \in Monitors, DeleteObject(m)
  PROVE  Inv'
<1>0. /\ mon[m].pc = "delete" /\ mon[m] \in Passes /\ UNCHANGED <<ep, lease>>
      /\ mon[m].pc \notin {"idle", "purge", "list"}
  BY AtWork DEF DeleteObject
<1>1. /\ DeletedAsSeen(m) \/ UNCHANGED obj
      /\ Faulted \/ UNCHANGED bounds
  BY DEF DeleteObject
<1>2. obj' \in [Regions -> Objects] /\ ObjectsOK'
  BY <1>0, <1>1, Counting, Shrinking DEF Inv
<1>3. RegionOf[m] \in Regions
  BY EndpointAssumption
<1>4. (~obj'[RegionOf[m]].here) \in BOOLEAN
  BY <1>2, <1>3 DEF Objects
<1>c. \E c \in BOOLEAN : Observing(m, c)
  <2>1. CASE Observing(m, ~obj'[RegionOf[m]].here)
    BY <1>4, <2>1
  <2>2. CASE Observing(m, TRUE) \/ Observing(m, FALSE)
    BY <2>2
  <2> QED BY <2>1, <2>2 DEF DeleteObject
<1>5. PICK c \in BOOLEAN : Observing(m, c)
  BY <1>c
<1>6. /\ mon[m].seen \in Objects
      /\ [mon[m] EXCEPT !.pc = "observe", !.complete = c]
           = [mon[m] EXCEPT !.pc = "observe", !.seen = mon[m].seen, !.complete = c]
  BY <1>0 DEF Passes
<1>7. Becomes(m, [mon[m] EXCEPT !.pc = "observe", !.seen = mon[m].seen, !.complete = c])
  BY <1>5, <1>6 DEF Observing
<1> QED BY <1>0, <1>1, <1>2, <1>6, <1>7, GoingOn

LEMMA HandOffStep ==
  ASSUME Inv, NEW m \in Monitors, HandOff(m) \/ UndoCreate(m)
  PROVE  Inv'
<1>0. /\ UNCHANGED <<ep, lease>> /\ mon[m].pc \notin {"idle", "purge", "list"}
      /\ DeletedAsSeen(m) \/ UNCHANGED obj
      /\ Faulted \/ UNCHANGED bounds
      /\ EndEndpoint(m) \/ Goto(m, "note")
  BY DEF HandOff, UndoCreate
<1>1. obj' \in [Regions -> Objects] /\ ObjectsOK'
  BY <1>0, Counting, Shrinking DEF Inv
<1> QED BY <1>0, <1>1, Ending, GoingTo

LEMMA CreateStep ==
  ASSUME Inv, NEW m \in Monitors, CreateObject(m)
  PROVE  Inv'
<1> DEFINE r == RegionOf[m]
<1>0. /\ mon[m].pc = "create" /\ mon[m] \in Passes /\ TermOK(m, mon[m]) /\ SnapshotOK(m, mon[m])
      /\ SeenOK(m, mon[m]) /\ r \in Regions /\ UNCHANGED <<ep, lease>>
      /\ mon[m].pc \notin {"idle", "purge", "list"} /\ (Faulted \/ UNCHANGED bounds)
  BY AtWork DEF CreateObject
<1>1. obj' = obj \/ obj' = [obj EXCEPT ![r] = Created(m)]
  BY DEF CreateObject
<1>2. Created(m) \in Objects
  BY <1>0 DEF Created, Objects, Passes
<1>3. lives' = lives
  BY <1>0, Counting DEF Inv
<1>4. mon[m].life <= lives /\ (ep.state # "absent" /\ ep.life = mon[m].life => mon[m].gen <= ep.gen[r])
  BY <1>0 DEF SnapshotOK
<1>5. obj' \in [Regions -> Objects]
  BY <1>1, <1>2 DEF Inv, TypeOK
<1>6. ASSUME NEW q \in Regions PROVE obj'[q] = obj[q] \/ (q = r /\ obj'[q] = Created(m))
  BY <1>1 DEF Inv, TypeOK
<1>7. Created(m).life = mon[m].life /\ Created(m).gen = mon[m].gen
  BY DEF Created
<1>8. ObjectsOK'
  BY <1>0, <1>3, <1>4, <1>6, <1>7 DEF Inv, ObjectsOK
<1>9. CASE Goto(m, "confirm")
  <2> DEFINE h == [mon[m] EXCEPT !.pc = "confirm"]
  <2>1. /\ h \in Passes /\ h.pc = "confirm" /\ h.epoch = mon[m].epoch /\ h.life = mon[m].life
        /\ h.gen = mon[m].gen /\ h.duty = mon[m].duty
    BY <1>0 DEF Passes, Pcs
  <2>2. PassOK(m, h) /\ Becomes(m, h)
    BY <1>0, <1>9, <2>1 DEF PassOK, TermOK, SnapshotOK, SeenOK, Goto
  <2> QED BY <1>0, <1>5, <1>8, <2>2, Quiet
<1>10. CASE Goto(m, "note")
  BY <1>0, <1>5, <1>8, <1>10, GoingTo
<1> QED BY <1>9, <1>10 DEF CreateObject

LEMMA ConfirmStep ==
  ASSUME Inv, NEW m \in Monitors, ConfirmCreated(m)
  PROVE  Inv'
<1> DEFINE r == RegionOf[m]
           o == obj[r]
<1>0. /\ mon[m].pc = "confirm" /\ mon[m] \in Passes /\ TermOK(m, mon[m]) /\ SnapshotOK(m, mon[m])
      /\ SeenOK(m, mon[m]) /\ r \in Regions /\ UNCHANGED <<ep, lease, obj>> /\ o \in Objects
      /\ mon[m].pc \notin {"idle", "purge", "list"} /\ (Faulted \/ UNCHANGED bounds)
  BY AtWork DEF ConfirmCreated
<1>1. obj' \in [Regions -> Objects] /\ ObjectsOK'
  BY <1>0, Counting DEF Inv, TypeOK, ObjectsOK
<1>2. CASE Goto(m, "note") \/ EndEndpoint(m)
  BY <1>0, <1>1, <1>2, Ending, GoingTo
<1>3. CASE /\ Dying(o) = Dying(Created(m)) /\ Authority(m)
           /\ Becomes(m, [mon[m] EXCEPT !.pc = "note", !.seen = o])
  <2>1. /\ mon[m].complete \in BOOLEAN
        /\ [mon[m] EXCEPT !.pc = "note", !.seen = o]
             = [mon[m] EXCEPT !.pc = "note", !.seen = o, !.complete = mon[m].complete]
    BY <1>0 DEF Passes
  <2>2. Becomes(m, [mon[m] EXCEPT !.pc = "note", !.seen = o, !.complete = mon[m].complete])
    BY <1>3, <2>1
  <2> HIDE DEF o
  <2> QED BY <1>0, <1>1, <2>1, <2>2, GoingOn
<1>4. CASE /\ Dying(o) = Dying(Created(m)) /\ ~Authority(m)
           /\ Becomes(m, [mon[m] EXCEPT !.pc = "undo", !.seen = o])
  <2> DEFINE h == [mon[m] EXCEPT !.pc = "undo", !.seen = o]
  <2>1. /\ h \in Passes /\ h.pc = "undo" /\ h.epoch = mon[m].epoch /\ h.life = mon[m].life
        /\ h.gen = mon[m].gen /\ h.duty = mon[m].duty /\ h.seen = o
    BY <1>0 DEF Passes, Pcs
  <2>2. mon[m].duty = "serve"
    BY <1>0 DEF SeenOK
  <2>3. o.life = mon[m].life /\ o.gen = mon[m].gen /\ o.epoch = mon[m].epoch
    <3>1. /\ Dying(o).life = o.life /\ Dying(o).gen = o.gen /\ Dying(o).epoch = o.epoch
      BY <1>0 DEF Dying, Objects
    <3>2. /\ Dying(Created(m)).life = mon[m].life /\ Dying(Created(m)).gen = mon[m].gen
          /\ Dying(Created(m)).epoch = mon[m].epoch
      BY DEF Dying, Created
    <3> QED BY <1>4, <3>1, <3>2
  <2>4. Lost(m, h)
    <3>1. CASE ~Leads(m)
      <4>1. lease[r].holder # m \/ lease[r].epoch # mon[m].epoch
        BY <3>1 DEF Leads
      <4>2. mon[m].epoch = lease[r].epoch /\ lease[r].holder # Nobody => lease[r].holder = m
        BY <1>0 DEF TermOK
      <4> QED BY <2>1, <4>1, <4>2 DEF Lost
    <3>2. CASE ~(/\ ep.state # "absent" /\ ep.life = mon[m].life
                 /\ ep.state # "deleted" /\ ep.gen[r] = mon[m].gen)
      BY <2>1, <3>2 DEF Lost, Live
    <3> QED BY <1>4, <2>2, <3>1, <3>2 DEF Authority
  <2>5. TermOK(m, h) /\ SnapshotOK(m, h)
    BY <1>0, <2>1 DEF TermOK, SnapshotOK
  <2>6. SeenOK(m, h)
    BY <2>1, <2>2, <2>3, <2>4 DEF SeenOK
  <2> QED BY <1>0, <1>1, <1>4, <2>1, <2>5, <2>6, Quiet DEF PassOK
<1> QED BY <1>2, <1>3, <1>4 DEF ConfirmCreated
-----------------------------------------------------------------------------
(* Steps that change the record *)

(* What the rest of the state is after a step forward.                     *)
RestKept ==
  /\ Forward /\ \A r \in Regions : LeaseForward(r)
  /\ RecordTyped' /\ LeasesTyped' /\ BoundsTyped' /\ RecordOK'
  /\ obj' \in [Regions -> Objects] /\ ObjectsOK'

LEMMA Moving ==
  ASSUME Inv, NEW m \in Monitors, NEW h, Becomes(m, h), PassOK(m, h), RestKept
  PROVE  Inv'
<1>1. mon' \in [Monitors -> Passes]
  BY DEF Inv, TypeOK, Becomes, PassOK
<1>2. TypeOK'
  BY <1>1 DEF RestKept, TypeOK, RecordTyped, LeasesTyped, BoundsTyped
<1>3. LeaseForward(RegionOf[m])
  BY EndpointAssumption DEF RestKept
<1>4. PassOK(m, h)'
  BY <1>2, <1>3, PassKept DEF Inv, RestKept
<1> QED BY <1>4, Advance DEF RestKept

LEMMA Standing ==
  ASSUME Inv, UNCHANGED mon, RestKept
  PROVE  Inv'
<1>1. TypeOK'
  BY DEF RestKept, Inv, TypeOK, RecordTyped, LeasesTyped, BoundsTyped
<1>2. ASSUME NEW n \in Monitors PROVE PassOK(n, mon[n])'
  <2>1. PICK k : k = mon[n]
    OBVIOUS
  <2>2. PassOK(n, k) /\ LeaseForward(RegionOf[n])
    BY <2>1, EndpointAssumption DEF Inv, RestKept
  <2>3. PassOK(n, k)'
    BY <1>1, <2>2, PassKept DEF Inv, RestKept
  <2> QED BY <2>1, <2>3 DEF PassOK, TermOK, SnapshotOK, SeenOK, Lost
<1> QED BY <1>1, <1>2 DEF Inv, RestKept

(* The state of the record changes within its life, or a status does.      *)
LEMMA SameLife ==
  ASSUME Inv, RecordTyped', ep.state # "absent", ep'.state # "absent", ep'.life = ep.life,
         ep.state = "deleted" => ep'.state = "deleted",
         ep'.gen = ep.gen, ep'.targets = ep.targets,
         UNCHANGED <<lease, obj>>, Faulted \/ UNCHANGED bounds
  PROVE  RestKept
<1>1. BoundsTyped' /\ lives' = lives
  BY Counting DEF Inv
<1>2. \A r \in Regions : ep.gen[r] \in Nat
  BY DEF Inv, TypeOK
<1>3. lives \in Nat
  BY DEF Inv, TypeOK
<1> QED BY <1>1, <1>2, <1>3, Typed DEF Inv, RestKept, Forward, LeaseForward, LeasesTyped,
            RecordOK, ObjectsOK

LEMMA SameRecord ==
  ASSUME Inv, UNCHANGED <<ep, lease, obj>>, Faulted \/ UNCHANGED bounds
  PROVE  RestKept
<1>1. BoundsTyped' /\ lives' = lives
  BY Counting DEF Inv
<1>2. /\ \A r \in Regions : ep.gen[r] \in Nat
      /\ lives \in Nat
  BY DEF Inv, TypeOK
<1> QED BY <1>1, <1>2, Typed DEF Inv, RestKept, Forward, LeaseForward, LeasesTyped, RecordTyped,
            RecordOK, ObjectsOK

LEMMA Writing ==
  ASSUME Inv, NEW m \in Monitors, mon[m] \in Passes, NEW obs \in Nat,
         NEW state \in {"pending", "running", "deleted"}, WriteStatus(m, state, obs)
  PROVE  RestKept
<1> DEFINE s == StatusOf(m, state, obs)
           r == RegionOf[m]
<1>r. r \in Regions /\ UNCHANGED <<lease, obj>>
  BY EndpointAssumption DEF WriteStatus
<1>1. CASE UNCHANGED ep /\ (Faulted \/ UNCHANGED bounds)
  BY <1>r, <1>1, SameRecord
<1>2. CASE Admitted(m) /\ UNCHANGED bounds /\ ep' = [ep EXCEPT !.status[r] = s]
  <2>1. s \in Statuses
    BY DEF StatusOf, Statuses, Passes
  <2>2. /\ ep'.state = ep.state /\ ep'.life = ep.life /\ ep'.targets = ep.targets
        /\ ep'.cleanup = ep.cleanup /\ ep'.doomed = ep.doomed /\ ep'.gen = ep.gen
        /\ ep'.status = [ep.status EXCEPT ![r] = s]
    BY <1>2 DEF Inv, TypeOK
  <2>3. RecordTyped'
    BY <1>r, <1>2, <2>1, <2>2 DEF Inv, TypeOK, RecordTyped
  <2>4. ep.state # "absent"
    BY <1>2 DEF Admitted
  <2> QED BY <1>r, <1>2, <2>2, <2>3, <2>4, SameLife
<1> QED BY <1>1, <1>2, <1>r DEF WriteStatus

LEMMA Retiring ==
  ASSUME Inv, NEW m \in Monitors, EndEndpoint(m) \/ Becomes(m, NoPass), RestKept
  PROVE  Inv'
BY RestOK, Moving DEF EndEndpoint

LEMMA StatusStep ==
  ASSUME Inv, NEW m \in Monitors, Observe(m) \/ Report(m) \/ Note(m)
  PROVE  Inv'
<1>1. mon[m].pc \notin {"idle", "purge", "list"} /\ mon[m] \in Passes
  BY AtWork DEF Observe, Report, Note
<1>2. Counted(m) \in Nat
  BY <1>1 DEF Counted, Passes
<1>3. CASE Observe(m)
  <2>1. PICK state \in {"pending", "deleted"} : WriteStatus(m, state, Counted(m))
    BY <1>3 DEF Observe
  <2>2. PICK obs \in Nat : WriteStatus(m, state, obs)
    BY <1>2, <2>1
  <2> QED BY <1>1, <1>3, <2>2, Writing, Retiring DEF Observe
<1>4. CASE Note(m)
  BY <1>1, <1>4, Writing, Retiring DEF Note
<1>5. CASE Report(m)
  <2>1. PICK state \in {"running", "pending"} :
          /\ WriteStatus(m, state, 0)
          /\ IF state = "running" /\ mon[m].lone THEN Goto(m, "promote") ELSE EndEndpoint(m)
    BY <1>5 DEF Report
  <2>2. RestKept
    BY <1>1, <2>1, Writing
  <2>3. CASE EndEndpoint(m)
    BY <2>2, <2>3, Retiring
  <2>4. CASE Goto(m, "promote")
    <3> DEFINE h == [mon[m] EXCEPT !.pc = "promote"]
    <3>1. /\ h \in Passes /\ h.pc = "promote" /\ h.epoch = mon[m].epoch /\ h.life = mon[m].life
          /\ h.gen = mon[m].gen /\ h.duty = mon[m].duty
      BY <1>1 DEF Passes, Pcs
    <3>2. TermOK(m, mon[m]) /\ SnapshotOK(m, mon[m])
      BY <1>1, AtWork
    <3>3. PassOK(m, h)
      BY <1>1, <3>1, <3>2 DEF PassOK, TermOK, SnapshotOK, SeenOK
    <3>4. Becomes(m, h)
      BY <2>4 DEF Goto
    <3> QED BY <2>2, <3>3, <3>4, Moving
  <2> QED BY <2>1, <2>3, <2>4
<1> QED BY <1>3, <1>4, <1>5

LEMMA NoRecordTyped ==
  /\ NoRecord \in [state: Live \union {"absent", "deleted"}, life: Nat, targets: SUBSET Regions,
                   cleanup: SUBSET Regions, doomed: SUBSET Regions, gen: [Regions -> Nat],
                   status: [Regions -> Statuses]]
  /\ NoRecord.state = "absent" /\ NoRecord.targets = {} /\ NoRecord.cleanup = {}
  /\ \A r \in Regions : NoRecord.gen[r] = 0
BY DEF NoRecord, NoStatus, Statuses

LEMMA PromoteStep ==
  ASSUME Inv, NEW m \in Monitors, Promote(m)
  PROVE  Inv'
<1>0. EndEndpoint(m) /\ UNCHANGED <<lease, obj, bounds>>
  BY DEF Promote
<1>1. CASE UNCHANGED ep
  BY <1>0, <1>1, SameRecord, Retiring
<1>2. CASE ep.state = "deploying" /\ ep' = [ep EXCEPT !.state = "running"]
  <2>1. /\ ep'.state = "running" /\ ep'.life = ep.life /\ ep'.targets = ep.targets
        /\ ep'.cleanup = ep.cleanup /\ ep'.gen = ep.gen
    BY <1>2 DEF Inv, TypeOK
  <2>2. RecordTyped'
    BY <1>2, <2>1 DEF Inv, TypeOK, RecordTyped, Live
  <2> QED BY <1>0, <1>2, <2>1, <2>2, SameLife, Retiring
<1> QED BY <1>1, <1>2 DEF Promote

LEMMA PurgeStep ==
  ASSUME Inv, NEW m \in Monitors, Purge(m)
  PROVE  Inv'
<1>0. Becomes(m, NoPass) /\ UNCHANGED <<lease, obj>> /\ (Faulted \/ UNCHANGED bounds)
  BY DEF Purge
<1>1. CASE UNCHANGED ep
  BY <1>0, <1>1, SameRecord, Retiring
<1>2. CASE ep' = NoRecord
  <2>1. BoundsTyped' /\ lives' = lives
    BY <1>0, Counting DEF Inv
  <2>2. RecordTyped'
    BY <1>2, NoRecordTyped DEF RecordTyped
  <2>3. ep'.state = "absent"
    BY <1>2, NoRecordTyped
  <2>4. lives \in Nat
    BY DEF Inv, TypeOK
  <2>5. RestKept
    BY <1>0, <2>1, <2>2, <2>3, <2>4, Typed
       DEF Inv, RestKept, Forward, LeaseForward, LeasesTyped, RecordOK, ObjectsOK
  <2> QED BY <1>0, <2>5, Retiring
<1> QED BY <1>1, <1>2 DEF Purge

LEMMA DeployStep ==
  ASSUME Inv, NEW targets \in SUBSET Regions, Deploy(targets)
  PROVE  Inv'
<1>0. /\ lives' = lives + 1 /\ UNCHANGED <<lease, obj, mon, moves, faults, overruns>>
      /\ lives \in Nat
  BY DEF Deploy, Inv, TypeOK
<1> DEFINE gen == [r \in Regions |-> IF r \in targets THEN 1 ELSE 0]
<1>1. /\ ep' = [NoRecord EXCEPT !.state = "deploying", !.life = lives + 1, !.targets = targets,
                                !.cleanup = targets, !.gen = gen]
      /\ gen \in [Regions -> Nat]
  BY DEF Deploy
<1>2. /\ ep'.state = "deploying" /\ ep'.life = lives + 1 /\ ep'.targets = targets
      /\ ep'.cleanup = targets /\ ep'.gen = gen
  BY <1>1 DEF NoRecord
<1>3. targets = {r \in Regions : gen[r] > 0}
  OBVIOUS
<1>4. RecordTyped'
  <2> HIDE DEF gen
  <2>1. lives + 1 \in Nat /\ "deploying" \in Live
    BY <1>0 DEF Live
  <2>2. ep' \in [state: Live \union {"absent", "deleted"}, life: Nat, targets: SUBSET Regions,
                 cleanup: SUBSET Regions, doomed: SUBSET Regions, gen: [Regions -> Nat],
                 status: [Regions -> Statuses]]
    BY <1>1, <2>1, NoRecordTyped
  <2> QED BY <1>2, <1>3, <2>2 DEF RecordTyped
<1>5. BoundsTyped'
  BY <1>0 DEF Inv, TypeOK, BoundsTyped
<1>6. Forward /\ RecordOK'
  BY <1>0, <1>2 DEF Forward, RecordOK
<1>7. ObjectsOK'
  <2>1. ASSUME NEW r \in Regions, obj[r].here
        PROVE  obj[r].life \in Nat /\ obj[r].life <= lives
    BY <2>1 DEF Inv, TypeOK, Objects, ObjectsOK
  <2> QED BY <1>0, <1>2, <2>1 DEF ObjectsOK
<1>8. RestKept
  BY <1>0, <1>4, <1>5, <1>6, <1>7, Typed DEF Inv, RestKept, LeaseForward, LeasesTyped
<1> QED BY <1>0, <1>8, Standing

LEMMA ChangeStep ==
  ASSUME Inv, StopEndpoint \/ StartEndpoint \/ UpdateSpec \/ DeleteEndpoint
  PROVE  Inv'
<1>0. UNCHANGED <<lease, obj, mon, bounds>> /\ ep.state \in Live
  BY DEF StopEndpoint, StartEndpoint, UpdateSpec, DeleteEndpoint, Change
<1>1. PICK state \in Live \union {"deleted"}, doomed \in SUBSET Regions :
        ep' = [ep EXCEPT !.state = state, !.doomed = doomed]
  <2>1. ep = [ep EXCEPT !.doomed = ep.doomed] /\ ep.doomed \in SUBSET Regions
           /\ ep.cleanup \in SUBSET Regions
    BY DEF Inv, TypeOK
  <2>2. ASSUME NEW state \in Live, Change(state)
        PROVE  ep' = [ep EXCEPT !.state = state, !.doomed = ep.doomed]
    BY <2>1, <2>2 DEF Change, Inv, TypeOK
  <2>3. {"stopped", "running", "deploying"} \subseteq Live
    BY DEF Live
  <2>4. CASE StopEndpoint
    BY <2>1, <2>2, <2>3, <2>4 DEF StopEndpoint
  <2>5. CASE StartEndpoint
    BY <2>1, <2>2, <2>3, <2>5 DEF StartEndpoint
  <2>6. CASE UpdateSpec
    BY <2>1, <2>2, <2>3, <2>6 DEF UpdateSpec
  <2>7. CASE DeleteEndpoint
    BY <2>1, <2>7 DEF DeleteEndpoint
  <2> QED BY <2>4, <2>5, <2>6, <2>7
<1>2. /\ ep'.state = state /\ ep'.life = ep.life /\ ep'.targets = ep.targets
      /\ ep'.cleanup = ep.cleanup /\ ep'.gen = ep.gen
  BY <1>1 DEF Inv, TypeOK
<1>3. RecordTyped'
  BY <1>1, <1>2 DEF Inv, TypeOK, RecordTyped
<1>4. ep.state # "absent" /\ ep.state # "deleted" /\ ep'.state # "absent"
  BY <1>0, <1>1, <1>2 DEF Live
<1>5. RestKept
  BY <1>0, <1>2, <1>3, <1>4, SameLife
<1> QED BY <1>0, <1>5, Standing

LEMMA MoveStep ==
  ASSUME Inv, NEW r \in Regions, NEW targets \in SUBSET Regions, Move(targets, r),
         targets \ {r} = ep.targets \ {r}
  PROVE  Inv'
<1>0. /\ moves' = moves + 1 /\ UNCHANGED <<lease, obj, mon, lives, faults, overruns>>
      /\ ep.state \in Live
      /\ ep' = [ep EXCEPT !.targets = targets, !.cleanup = @ \union {r}, !.gen[r] = @ + 1]
  BY DEF Move
<1>1. /\ ep'.state = ep.state /\ ep'.life = ep.life /\ ep'.targets = targets
      /\ ep'.cleanup = ep.cleanup \union {r} /\ ep'.gen = [ep.gen EXCEPT ![r] = @ + 1]
      /\ ep.gen \in [Regions -> Nat]
  BY <1>0 DEF Inv, TypeOK
<1>2. ASSUME NEW q \in Regions
      PROVE  /\ ep.gen[q] \in Nat /\ ep'.gen[q] = IF q = r THEN ep.gen[q] + 1 ELSE ep.gen[q]
  BY <1>1
<1>3. RecordTyped'
  <2>1. ep' \in [state: Live \union {"absent", "deleted"}, life: Nat, targets: SUBSET Regions,
                 cleanup: SUBSET Regions, doomed: SUBSET Regions, gen: [Regions -> Nat],
                 status: [Regions -> Statuses]]
    <3> DEFINE gen == [ep.gen EXCEPT ![r] = @ + 1]
               cleanup == ep.cleanup \union {r}
    <3>1. gen \in [Regions -> Nat]
      BY <1>1
    <3>2. cleanup \in SUBSET Regions
      BY DEF Inv, TypeOK
    <3>3. ep' = [ep EXCEPT !.targets = targets, !.cleanup = cleanup, !.gen = gen]
      BY <1>0 DEF Inv, TypeOK
    <3> HIDE DEF gen, cleanup
    <3> QED BY <3>1, <3>2, <3>3 DEF Inv, TypeOK
  <2>2. ep.targets \subseteq ep.cleanup /\ ep.cleanup = {q \in Regions : ep.gen[q] > 0}
    BY DEF Inv, TypeOK
  <2>3. ep'.targets \subseteq ep'.cleanup
    BY <1>1, <2>2
  <2>4. ep'.cleanup = {q \in Regions : ep'.gen[q] > 0}
    BY <1>1, <1>2, <2>2
  <2> QED BY <2>1, <2>3, <2>4 DEF RecordTyped
<1>4. BoundsTyped' /\ lives \in Nat
  BY <1>0 DEF Inv, TypeOK, BoundsTyped
<1>5. ep.state # "absent" /\ ep.state # "deleted"
  BY <1>0 DEF Live
<1>6. Forward
  BY <1>0, <1>1, <1>2, <1>4, <1>5 DEF Forward
<1>7. ObjectsOK'
  <2>1. ASSUME NEW q \in Regions PROVE obj[q].gen \in Nat
    BY DEF Inv, TypeOK, Objects
  <2> QED BY <1>0, <1>1, <1>2, <2>1 DEF Inv, ObjectsOK
<1>8. RecordOK'
  BY <1>0, <1>1 DEF Inv, RecordOK
<1>9. RestKept
  BY <1>0, <1>3, <1>4, <1>6, <1>7, <1>8, Typed DEF Inv, RestKept, LeaseForward, LeasesTyped
<1> QED BY <1>0, <1>9, Standing
-----------------------------------------------------------------------------
(* Leases, crashes and collection *)

LEMMA AcquireStep ==
  ASSUME Inv, NEW m \in Monitors, Acquire(m)
  PROVE  Inv'
<1> DEFINE r == RegionOf[m]
           won == IF lease[r].holder = m THEN lease[r]
                  ELSE [holder |-> m, epoch |-> lease[r].epoch + 1]
<1>0. /\ r \in Regions /\ lease[r].holder \in {m, Nobody} /\ m # Nobody
      /\ lease' = [lease EXCEPT ![r] = won] /\ UNCHANGED <<ep, obj, bounds>>
      /\ Becomes(m, [NoPass EXCEPT !.pc = "list", !.epoch = won.epoch])
      /\ lease \in [Regions -> [holder: Monitors \union {Nobody}, epoch: Nat]]
  BY EndpointAssumption DEF Acquire, Inv, TypeOK
<1>1. /\ won \in [holder: Monitors \union {Nobody}, epoch: Nat]
      /\ won.holder = m
      /\ won = lease[r] \/ (lease[r].holder = Nobody /\ won.epoch = lease[r].epoch + 1)
  BY <1>0
<1> HIDE DEF won
<1>2. /\ lease' \in [Regions -> [holder: Monitors \union {Nobody}, epoch: Nat]]
      /\ lease'[r] = won /\ \A q \in Regions : q # r => lease'[q] = lease[q]
  BY <1>0, <1>1
<1>3. \A q \in Regions : LeaseForward(q)
  BY <1>1, <1>2 DEF LeaseForward
<1>4. PICK h : Becomes(m, h) /\ h \in Passes /\ h.pc = "list" /\ h.epoch = won.epoch
  <2> DEFINE g == [NoPass EXCEPT !.pc = "list", !.epoch = won.epoch]
  <2>1. g \in Passes /\ g.pc = "list" /\ g.epoch = won.epoch
    BY <1>1 DEF NoPass, NoObject, Passes, Objects, Pcs, Duties
  <2>2. Becomes(m, g)
    BY <1>0
  <2> HIDE DEF g
  <2> QED BY <2>1, <2>2
<1>5. PassOK(m, h)'
  BY <1>1, <1>2, <1>4 DEF PassOK, TermOK, SnapshotOK, SeenOK
<1>6. BoundsTyped' /\ lives' = lives
  BY <1>0, Counting DEF Inv
<1>7. Forward
  BY <1>0, <1>6 DEF Inv, TypeOK, Forward, RecordOK
<1>8. RecordTyped' /\ LeasesTyped' /\ RecordOK' /\ ObjectsOK' /\ obj' \in [Regions -> Objects]
  BY <1>0, <1>2, <1>6, Typed DEF Inv, RecordTyped, LeasesTyped, RecordOK, ObjectsOK
<1> QED BY <1>3, <1>4, <1>5, <1>6, <1>7, <1>8, Advance

LEMMA CrashStep ==
  ASSUME Inv, NEW m \in Monitors, Crash(m)
  PROVE  Inv'
<1>1. Becomes(m, NoPass) /\ Faulted /\ UNCHANGED <<ep, lease, obj>>
  BY DEF Crash
<1>2. obj' \in [Regions -> Objects] /\ ObjectsOK'
  BY <1>1, Counting DEF Inv, TypeOK, ObjectsOK
<1> QED BY <1>1, <1>2, RestOK, Quiet

LEMMA LapseStep ==
  ASSUME Inv, NEW r \in Regions, Lapse(r)
  PROVE  Inv'
<1>0. lease' = [lease EXCEPT ![r].holder = Nobody] /\ UNCHANGED <<ep, obj, mon>>
  BY DEF Lapse
<1>1. BoundsTyped' /\ lives' = lives
  BY DEF Lapse, Faulted, Inv, TypeOK, BoundsTyped
<1>2. LeasesTyped' /\ \A q \in Regions : LeaseForward(q)
  BY <1>0 DEF Inv, TypeOK, LeasesTyped, LeaseForward
<1>3. Forward
  BY <1>0, <1>1 DEF Inv, TypeOK, Forward, RecordOK
<1>4. RecordTyped' /\ RecordOK' /\ ObjectsOK' /\ obj' \in [Regions -> Objects]
  BY <1>0, <1>1, Typed DEF Inv, RecordTyped, RecordOK, ObjectsOK
<1> QED BY <1>0, <1>1, <1>2, <1>3, <1>4, Standing DEF RestKept

LEMMA CollectStep ==
  ASSUME Inv, NEW r \in Regions, Collect(r)
  PROVE  Inv'
<1>0. obj' = [obj EXCEPT ![r] = NoObject] /\ UNCHANGED <<ep, lease, mon, bounds>>
  BY DEF Collect
<1>1. BoundsTyped' /\ lives' = lives
  BY <1>0, Counting DEF Inv
<1>2. Forward /\ \A q \in Regions : LeaseForward(q)
  BY <1>0, <1>1 DEF Inv, TypeOK, Forward, RecordOK, LeaseForward
<1>3. RecordTyped' /\ LeasesTyped' /\ RecordOK'
  BY <1>0, <1>1, Typed DEF Inv, RecordTyped, LeasesTyped, RecordOK
<1>4. obj' \in [Regions -> Objects]
  BY <1>0 DEF Inv, TypeOK, NoObject, Objects
<1>5. ASSUME NEW q \in Regions, obj'[q].here PROVE obj'[q] = obj[q]
  BY <1>0, <1>5 DEF Inv, TypeOK, NoObject
<1>6. ObjectsOK'
  BY <1>0, <1>1, <1>5 DEF Inv, ObjectsOK
<1> QED BY <1>0, <1>1, <1>2, <1>3, <1>4, <1>6, Standing DEF RestKept
-----------------------------------------------------------------------------
LEMMA InitInv == Init => Inv
<1> SUFFICES ASSUME Init PROVE Inv
  OBVIOUS
<1>1. TypeOK
  <2>1. RecordTyped
    BY NoRecordTyped DEF Init, RecordTyped
  <2>2. LeasesTyped /\ BoundsTyped
    BY DEF Init, LeasesTyped, BoundsTyped
  <2>3. obj \in [Regions -> Objects]
    BY DEF Init, NoObject, Objects
  <2>4. mon \in [Monitors -> Passes]
    BY DEF Init, NoPass, NoObject, Passes, Objects, Pcs, Duties
  <2> QED BY <2>1, <2>2, <2>3, <2>4, Typed
<1>2. RecordOK /\ ObjectsOK
  BY NoRecordTyped DEF Init, RecordOK, ObjectsOK, NoObject
<1>3. \A m \in Monitors : PassOK(m, mon[m])
  BY RestOK DEF Init
<1> QED BY <1>1, <1>2, <1>3 DEF Inv

LEMMA ClientStep ==
  ASSUME Inv, Client
  PROVE  Inv'
<1>1. CASE \E targets \in SUBSET Regions : Deploy(targets)
  BY <1>1, DeployStep
<1>2. CASE StopEndpoint \/ StartEndpoint \/ UpdateSpec \/ DeleteEndpoint
  BY <1>2, ChangeStep
<1>3. ASSUME NEW r \in Regions, AddRegion(r) PROVE Inv'
  <2>1. ep.targets \union {r} \in SUBSET Regions /\ (ep.targets \union {r}) \ {r} = ep.targets \ {r}
    BY DEF Inv, TypeOK
  <2> QED BY <1>3, <2>1, MoveStep DEF AddRegion
<1>4. ASSUME NEW r \in Regions, RemoveRegion(r) PROVE Inv'
  <2>1. ep.targets \ {r} \in SUBSET Regions /\ (ep.targets \ {r}) \ {r} = ep.targets \ {r}
    BY DEF Inv, TypeOK
  <2> QED BY <1>4, <2>1, MoveStep DEF RemoveRegion
<1> QED BY <1>1, <1>2, <1>3, <1>4 DEF Client

LEMMA NextInv == Inv /\ [Next]_vars => Inv'
<1> SUFFICES ASSUME Inv, [Next]_vars PROVE Inv'
  OBVIOUS
<1>1. CASE UNCHANGED vars
  <2>1. UNCHANGED mon /\ RestKept
    BY <1>1, SameRecord DEF vars, bounds
  <2> QED BY <2>1, Standing
<1>2. CASE Client
  BY <1>2, ClientStep
<1>3. ASSUME NEW m \in Monitors, Acquire(m) \/ Step(m) \/ Crash(m) PROVE Inv'
  <2>1. CASE Acquire(m) \/ Crash(m)
    BY <2>1, AcquireStep, CrashStep
  <2>2. CASE List(m) \/ ReadObject(m) \/ ClaimObject(m) \/ DeleteObject(m) \/ ConfirmCreated(m)
    BY <2>2, ListStep, ReadStep, ClaimStep, DeleteStep, ConfirmStep
  <2>3. CASE HandOff(m) \/ UndoCreate(m) \/ CreateObject(m)
    BY <2>3, HandOffStep, CreateStep
  <2>4. CASE Observe(m) \/ Report(m) \/ Note(m) \/ Promote(m) \/ Purge(m)
    BY <2>4, StatusStep, PromoteStep, PurgeStep
  <2> QED BY <1>3, <2>1, <2>2, <2>3, <2>4 DEF Step
<1>4. ASSUME NEW r \in Regions, Lapse(r) \/ Collect(r) PROVE Inv'
  BY <1>4, LapseStep, CollectStep
<1> QED BY <1>1, <1>2, <1>3, <1>4 DEF Next

(* In every reachable state a pass is never ahead of the record or of its  *)
(* region's lease, and is never about to delete what may be served.        *)
THEOREM PassesFollow == Spec => []Inv
BY InitInv, NextInv, PTL DEF Spec

(* Every reachable state is well typed: the targets are among the regions  *)
(* to clean up, and those are the ones with a generation.                  *)
THEOREM TypeCorrect == Spec => []TypeOK
<1>1. Inv => TypeOK
  BY DEF Inv
<1> QED BY <1>1, PassesFollow, PTL
-----------------------------------------------------------------------------
(* Deletion *)

(* What DeletionIsFinal says of one step. *)
StaysDeleted ==
  ep.state = "deleted" =>
    \/ ep'.state = "absent" /\ \A r \in ep.doomed : Terminal(ep, r)
    \/ /\ ep'.state = "deleted" /\ ep'.life = ep.life /\ ep'.doomed = ep.doomed
       /\ \A r \in ep.doomed : Terminal(ep, r) => Terminal(ep', r)

LEMMA WriteStays ==
  ASSUME TypeOK, NEW m \in Monitors, NEW state, NEW obs, WriteStatus(m, state, obs)
  PROVE  StaysDeleted
<1> DEFINE r == RegionOf[m]
           s == StatusOf(m, state, obs)
<1> SUFFICES ASSUME ep.state = "deleted" PROVE StaysDeleted
  BY DEF StaysDeleted
<1>1. CASE UNCHANGED ep
  BY <1>1 DEF StaysDeleted
<1>2. CASE Admitted(m) /\ ep' = [ep EXCEPT !.status[r] = s]
  <2>1. ep.status[r].state # "deleted"
    BY <1>2 DEF Admitted
  <2>2. /\ ep'.state = ep.state /\ ep'.life = ep.life /\ ep'.doomed = ep.doomed
        /\ ep'.gen = ep.gen /\ ep'.status = [ep.status EXCEPT ![r] = s]
    BY <1>2 DEF TypeOK
  <2>3. ASSUME NEW q \in ep.doomed, Terminal(ep, q) PROVE Terminal(ep', q)
    <3>1. q # r
      BY <2>1, <2>3 DEF Terminal
    <3>2. q \in Regions /\ ep.status \in [Regions -> Statuses]
      BY DEF TypeOK
    <3>3. ep'.status[q] = ep.status[q]
      BY <2>2, <3>1, <3>2
    <3> QED BY <2>2, <2>3, <3>3 DEF Terminal
  <2> QED BY <2>2, <2>3 DEF StaysDeleted
<1> QED BY <1>1, <1>2 DEF WriteStatus

LEMMA DeletionStep ==
  ASSUME TypeOK, [Next]_vars
  PROVE  StaysDeleted
<1>1. CASE UNCHANGED ep
  BY <1>1 DEF StaysDeleted
<1>2. CASE Client
  BY <1>2 DEF Client, Deploy, StopEndpoint, StartEndpoint, UpdateSpec, DeleteEndpoint, Change,
              AddRegion, RemoveRegion, Move, Live, StaysDeleted
<1>3. ASSUME NEW m \in Monitors, Observe(m) \/ Report(m) \/ Note(m) PROVE StaysDeleted
  <2>1. PICK state, obs : WriteStatus(m, state, obs)
    BY <1>3 DEF Observe, Report, Note
  <2> QED BY <2>1, WriteStays
<1>4. ASSUME NEW m \in Monitors, Promote(m) PROVE StaysDeleted
  BY <1>1, <1>4 DEF Promote, StaysDeleted
<1>5. ASSUME NEW m \in Monitors, Purge(m) PROVE StaysDeleted
  BY <1>1, <1>5, NoRecordTyped DEF Purge, StaysDeleted
<1>6. ASSUME NEW m \in Monitors,
             \/ Acquire(m) \/ List(m) \/ ReadObject(m) \/ ClaimObject(m) \/ DeleteObject(m)
             \/ HandOff(m) \/ CreateObject(m) \/ ConfirmCreated(m) \/ UndoCreate(m) \/ Crash(m)
      PROVE  UNCHANGED ep
  BY <1>6 DEF Acquire, List, ReadObject, ClaimObject, DeleteObject, HandOff, CreateObject,
              ConfirmCreated, UndoCreate, Crash
<1>7. ASSUME NEW r \in Regions, Lapse(r) \/ Collect(r) PROVE UNCHANGED ep
  BY <1>7 DEF Lapse, Collect
<1>8. UNCHANGED vars => UNCHANGED ep
  BY DEF vars
<1> QED BY <1>1, <1>2, <1>3, <1>4, <1>5, <1>6, <1>7, <1>8 DEF Next, Step

(* Whatever late writers do, deletion is final, an acknowledgement of it   *)
(* stays, and only a purge that has them all removes the record.           *)
THEOREM DeletionStays == Spec => DeletionIsFinal
<1>1. TypeOK /\ [Next]_vars => [StaysDeleted]_vars
  BY DeletionStep
<1> QED BY <1>1, TypeCorrect, PTL DEF Spec, DeletionIsFinal, StaysDeleted
-----------------------------------------------------------------------------
(* Serving *)

(* What ServingSurvives says of one step, in one region. *)
Keeps(r) ==
  /\ Serving(r) => obj'[r].here /\ ~obj'[r].dying
  /\ obj[r].here /\ obj'[r].here => obj'[r].life = obj[r].life

LEMMA Untouched ==
  ASSUME NEW r \in Regions, obj'[r] = obj[r]
  PROVE  Keeps(r)
BY DEF Keeps, Serving

(* What a pass is about to delete is not what the leader serves.           *)
LEMMA NeverServed ==
  ASSUME Inv, NEW m \in Monitors, mon[m].pc \in {"delete", "handoff", "undo"},
         obj[RegionOf[m]] = mon[m].seen
  PROVE  ~Serving(RegionOf[m])
<1> DEFINE r == RegionOf[m]
           h == mon[m]
<1> SUFFICES ASSUME Serving(r) PROVE FALSE
  OBVIOUS
<1>0. h \in Passes /\ SnapshotOK(m, h) /\ SeenOK(m, h) /\ r \in Regions
  BY AtWork
<1>1. /\ ep.state # "absent" /\ ep.state # "deleted" /\ ep.state \in Live /\ r \in ep.targets
      /\ h.seen.life = ep.life /\ h.seen.gen = ep.gen[r] /\ h.seen.epoch = lease[r].epoch
      /\ lease[r].holder # Nobody
  BY DEF Serving, Live
<1>2. /\ h.life <= lives /\ ep.life = lives
      /\ ep.life = h.life => h.duty # "delete" /\ h.gen <= ep.gen[r]
      /\ ep.life = h.life /\ h.duty = "remove" => ep.gen[r] # h.gen
  BY <1>0, <1>1 DEF Inv, RecordOK, SnapshotOK
<1>3. h.life \in Nat /\ h.gen \in Nat /\ lives \in Nat /\ ep.gen[r] \in Nat
  BY <1>0 DEF Inv, TypeOK, Passes
<1>4. CASE h.pc = "delete"
  BY <1>0, <1>1, <1>2, <1>4 DEF SeenOK
<1>5. CASE h.pc = "handoff"
  BY <1>0, <1>1, <1>2, <1>3, <1>5 DEF SeenOK
<1>6. CASE h.pc = "undo"
  BY <1>0, <1>1, <1>6 DEF SeenOK, Lost
<1> QED BY <1>4, <1>5, <1>6

LEMMA DeletionKeeps ==
  ASSUME Inv, NEW m \in Monitors, mon[m].pc \in {"delete", "handoff", "undo"},
         DeletedAsSeen(m) \/ UNCHANGED obj, NEW r \in Regions
  PROVE  Keeps(r)
<1>1. CASE UNCHANGED obj
  BY <1>1, Untouched
<1>2. CASE DeletedAsSeen(m) /\ r # RegionOf[m]
  BY <1>2, Untouched DEF DeletedAsSeen, Inv, TypeOK
<1>3. CASE DeletedAsSeen(m) /\ r = RegionOf[m]
  <2>1. ~Serving(r)
    BY <1>3, NeverServed DEF DeletedAsSeen
  <2>2. obj'[r] = Dying(obj[r]) \/ obj'[r] = NoObject
    BY <1>3 DEF DeletedAsSeen, Inv, TypeOK
  <2>3. obj[r] \in Objects
    BY DEF Inv, TypeOK
  <2>4. obj'[r].here => obj'[r].life = obj[r].life
    BY <2>2, <2>3 DEF Dying, NoObject, Objects
  <2> QED BY <2>1, <2>4 DEF Keeps
<1> QED BY <1>1, <1>2, <1>3

LEMMA ClaimKeeps ==
  ASSUME Inv, NEW m \in Monitors, ClaimObject(m), NEW r \in Regions
  PROVE  Keeps(r)
<1>1. CASE obj'[r] = obj[r]
  BY <1>1, Untouched
<1>2. CASE obj'[r] # obj[r]
  <2>1. /\ r = RegionOf[m] /\ obj[r] = mon[m].seen /\ obj'[r] = Claimed(m)
        /\ mon[m].pc = "claim"
    BY <1>2 DEF ClaimObject, Inv, TypeOK
  <2>2. mon[m].seen \in Objects /\ mon[m].seen.here /\ mon[m].seen.life = mon[m].life
    BY <2>1, AtWork DEF SeenOK, Passes
  <2>3. /\ Claimed(m).here = mon[m].seen.here /\ Claimed(m).dying = mon[m].seen.dying
        /\ Claimed(m).life = mon[m].life
    BY <2>2 DEF Claimed, Objects
  <2> QED BY <2>1, <2>2, <2>3 DEF Keeps, Serving
<1> QED BY <1>1, <1>2

LEMMA CreateKeeps ==
  ASSUME Inv, NEW m \in Monitors, CreateObject(m), NEW r \in Regions
  PROVE  Keeps(r)
<1>1. CASE obj'[r] = obj[r]
  BY <1>1, Untouched
<1>2. CASE obj'[r] # obj[r]
  <2>1. ~obj[r].here
    BY <1>2 DEF CreateObject, Inv, TypeOK
  <2> QED BY <2>1 DEF Keeps, Serving
<1> QED BY <1>1, <1>2

LEMMA CollectKeeps ==
  ASSUME Inv, NEW q \in Regions, Collect(q), NEW r \in Regions
  PROVE  Keeps(r)
<1>1. CASE r # q
  BY <1>1, Untouched DEF Collect, Inv, TypeOK
<1>2. CASE r = q
  BY <1>2 DEF Collect, Inv, TypeOK, NoObject, Keeps, Serving
<1> QED BY <1>1, <1>2

LEMMA ServingStep ==
  ASSUME Inv, [Next]_vars, NEW r \in Regions
  PROVE  Keeps(r)
<1>1. CASE UNCHANGED obj
  BY <1>1, Untouched
<1>2. ASSUME NEW m \in Monitors, DeleteObject(m) \/ HandOff(m) \/ UndoCreate(m) PROVE Keeps(r)
  BY <1>2, DeletionKeeps DEF DeleteObject, HandOff, UndoCreate
<1>3. ASSUME NEW m \in Monitors, ClaimObject(m) \/ CreateObject(m) PROVE Keeps(r)
  BY <1>3, ClaimKeeps, CreateKeeps
<1>4. ASSUME NEW q \in Regions, Collect(q) PROVE Keeps(r)
  BY <1>4, CollectKeeps
<1>5. ASSUME NEW m \in Monitors,
             \/ Acquire(m) \/ List(m) \/ ReadObject(m) \/ ConfirmCreated(m) \/ Observe(m)
             \/ Report(m) \/ Note(m) \/ Promote(m) \/ Purge(m) \/ Crash(m)
      PROVE  UNCHANGED obj
  BY <1>5 DEF Acquire, List, ReadObject, ConfirmCreated, Observe, Report, Note, WriteStatus,
              Promote, Purge, Crash
<1>6. ASSUME NEW q \in Regions, Lapse(q) PROVE UNCHANGED obj
  BY <1>6 DEF Lapse
<1>7. Client => UNCHANGED obj
  BY DEF Client, Deploy, StopEndpoint, StartEndpoint, UpdateSpec, DeleteEndpoint, Change,
         AddRegion, RemoveRegion, Move
<1>8. UNCHANGED vars => UNCHANGED obj
  BY DEF vars
<1> QED BY <1>1, <1>2, <1>3, <1>4, <1>5, <1>6, <1>7, <1>8 DEF Next, Step

(* An object never changes hands between lives, and no pass, however late, *)
(* takes away what the present leader has claimed for the present          *)
(* generation.                                                             *)
THEOREM LeaderUndisturbed == Spec => ServingSurvives
<1>1. Inv /\ [Next]_vars => [\A r \in Regions : Keeps(r)]_vars
  BY ServingStep
<1> QED BY <1>1, PassesFollow, PTL DEF Spec, ServingSurvives, Keeps
-----------------------------------------------------------------------------
(* Deletion reaches everything *)

(* While no lease lapsed in the middle of a pass: a region has one pass at *)
(* a time, its endpoint lives and has not been given up there while it is  *)
(* worked on, and so what a cluster has is of that life.  The predicates   *)
(* take the state they speak of as arguments: the record e, a lease l, an  *)
(* object o, a pass h, all passes f.                                       *)
RecordTidy(e) ==
  /\ e.state = "absent" => e.cleanup = {}
  /\ e.state = "deleted" => e.doomed = e.cleanup

(* A status that says deleted is of the present generation or of one that  *)
(* is past, so a region that was given up is no member.                    *)
RegionTidy(e, o, r) ==
  /\ o.here => o.life = e.life /\ r \in e.cleanup
  /\ e.state # "absent" /\ Terminal(e, r) => ~o.here
  /\ e.state \in Live =>
       /\ e.status[r].state = "deleted" /\ e.status[r].life = e.life =>
            ~e.status[r].del /\ e.status[r].gen <= e.gen[r]
       /\ r \in e.targets => ~Terminal(e, r)

PassTidy(e, l, o, h, m) ==
  /\ h.pc # "idle" => l.holder = m
  /\ h.duty = "none" <=> h.pc \in {"idle", "list", "purge"}
  /\ h.pc = "observe" => h.duty \in {"remove", "delete"}
  /\ h.complete => h.pc = "observe" /\ ~o.here
  /\ h.duty # "none" =>
       /\ e.state # "absent" /\ h.life = e.life
       /\ RegionOf[m] \in e.cleanup /\ ~Terminal(e, RegionOf[m])

Tidy(e, l, o, f) ==
  /\ RecordTidy(e)
  /\ \A r \in Regions : RegionTidy(e, o[r], r)
  /\ \A m \in Monitors : PassTidy(e, l[RegionOf[m]], o[RegionOf[m]], f[m], m)

TidyInv == overruns = 0 => Tidy(ep, lease, obj, mon)

(* Records that are the same for a region. *)
SameFor(e, f, r) ==
  /\ f.life = e.life /\ f.gen[r] = e.gen[r] /\ f.status[r] = e.status[r]
  /\ r \in f.targets <=> r \in e.targets
  /\ r \in f.cleanup <=> r \in e.cleanup
  /\ f.state = e.state \/ (f.state \in Live /\ e.state \in Live)

LEMMA Alike ==
  ASSUME NEW e, NEW f, NEW r, SameFor(e, f, r)
  PROVE  /\ Terminal(f, r) <=> Terminal(e, r)
         /\ f.state = "absent" <=> e.state = "absent"
         /\ f.state \in Live <=> e.state \in Live
BY DEF SameFor, Terminal, Live

LEMMA AlikeTidy ==
  ASSUME NEW e, NEW f, NEW r, SameFor(e, f, r)
  PROVE  /\ \A o : RegionTidy(e, o, r) => RegionTidy(f, o, r)
         /\ \A l, o, h, m : RegionOf[m] = r /\ PassTidy(e, l, o, h, m) => PassTidy(f, l, o, h, m)
<1>1. /\ Terminal(f, r) <=> Terminal(e, r)
      /\ f.state = "absent" <=> e.state = "absent"
      /\ f.state \in Live <=> e.state \in Live
  BY Alike
<1>2. ASSUME NEW o, RegionTidy(e, o, r) PROVE RegionTidy(f, o, r)
  BY <1>1, <1>2 DEF RegionTidy, SameFor
<1>3. ASSUME NEW l, NEW o, NEW h, NEW m, RegionOf[m] = r, PassTidy(e, l, o, h, m)
      PROVE  PassTidy(f, l, o, h, m)
  BY <1>1, <1>3 DEF PassTidy, SameFor
<1> QED BY <1>2, <1>3

(* A region has one pass at a time. *)
LEMMA Alone ==
  ASSUME NEW e, NEW l, NEW o, NEW f, Tidy(e, l, o, f), NEW m \in Monitors, NEW n \in Monitors,
         n # m, RegionOf[n] = RegionOf[m], l[RegionOf[m]].holder = m
  PROVE  f[n].pc = "idle" /\ f[n].duty = "none" /\ ~f[n].complete
BY DEF Tidy, PassTidy

LEMMA AtRest ==
  ASSUME NEW e, NEW l, NEW o, NEW h, NEW m, h.pc = "idle", h.duty = "none", ~h.complete
  PROVE  PassTidy(e, l, o, h, m)
BY DEF PassTidy

(* What every step of a pass comes to: what it does in its region, while   *)
(* the record says to the others what it said before.                      *)
LEMMA Tending ==
  ASSUME Inv, Tidy(ep, lease, obj, mon), NEW m \in Monitors, mon[m].pc # "idle",
         NEW h, Becomes(m, h), UNCHANGED lease,
         NEW x, obj' = [obj EXCEPT ![RegionOf[m]] = x], RecordTidy(ep'),
         \A q \in Regions : q # RegionOf[m] => SameFor(ep, ep', q),
         RegionTidy(ep', x, RegionOf[m]), PassTidy(ep', lease[RegionOf[m]], x, h, m)
  PROVE  Tidy(ep', lease', obj', mon')
<1> DEFINE r == RegionOf[m]
<1>1. /\ r \in Regions /\ mon' = [mon EXCEPT ![m] = h]
      /\ mon \in [Monitors -> Passes] /\ obj \in [Regions -> Objects]
  BY EndpointAssumption DEF Inv, TypeOK, Becomes
<1>2. /\ obj'[r] = x /\ mon'[m] = h
      /\ \A q \in Regions : q # r => obj'[q] = obj[q]
      /\ \A n \in Monitors : n # m => mon'[n] = mon[n]
  BY <1>1
<1>3. ASSUME NEW q \in Regions PROVE RegionTidy(ep', obj'[q], q)
  <2>1. CASE q = r
    BY <1>2, <2>1
  <2>2. CASE q # r
    <3>1. RegionTidy(ep, obj[q], q)
      BY DEF Tidy
    <3> QED BY <1>2, <2>2, <3>1, AlikeTidy
  <2> QED BY <2>1, <2>2
<1>4. ASSUME NEW n \in Monitors
      PROVE  PassTidy(ep', lease'[RegionOf[n]], obj'[RegionOf[n]], mon'[n], n)
  <2>1. CASE n = m
    BY <1>2, <2>1
  <2>2. CASE n # m /\ RegionOf[n] = r
    <3>1. lease[r].holder = m
      BY DEF Tidy, PassTidy
    <3>2. mon[n].pc = "idle" /\ mon[n].duty = "none" /\ ~mon[n].complete
      BY <2>2, <3>1, Alone
    <3> QED BY <1>2, <2>2, <3>2, AtRest
  <2>3. CASE RegionOf[n] # r
    <3>1. PassTidy(ep, lease[RegionOf[n]], obj[RegionOf[n]], mon[n], n)
      BY DEF Tidy
    <3>2. RegionOf[n] \in Regions /\ n # m
      BY <2>3, EndpointAssumption
    <3> QED BY <1>2, <2>3, <3>1, <3>2, AlikeTidy
  <2> QED BY <2>1, <2>2, <2>3
<1> QED BY <1>3, <1>4 DEF Tidy

(* A pass ends with its duty or goes on with it, and what it leaves in its *)
(* region is of the life it works for or was there.                        *)
Onward(m, h, x) ==
  /\ \/ h = NoPass \/ h = Rest(m)
     \/ /\ h.duty = mon[m].duty /\ h.life = mon[m].life
        /\ h.pc \notin {"idle", "list", "purge"}
        /\ h.pc = "observe" => Cleaning(m)
        /\ h.complete => h.pc = "observe" /\ ~x.here
  /\ x.here => x.life = mon[m].life \/ (obj[RegionOf[m]].here /\ x.life = obj[RegionOf[m]].life)

Works(m) ==
  \E h, x : /\ Becomes(m, h) /\ obj' = [obj EXCEPT ![RegionOf[m]] = x] /\ Onward(m, h, x)

LEMMA RestTidy ==
  ASSUME NEW m, NEW e, NEW l, NEW o, l.holder = m
  PROVE  PassTidy(e, l, o, NoPass, m) /\ PassTidy(e, l, o, Rest(m), m)
<1>1. NoPass.pc = "idle" /\ NoPass.duty = "none" /\ ~NoPass.complete
  BY DEF NoPass
<1>2. Rest(m).duty = "none" /\ Rest(m).pc \in {"idle", "purge"} /\ ~Rest(m).complete
  BY DEF Rest, NoPass
<1> QED BY <1>1, <1>2 DEF PassTidy

LEMMA WorksTidy ==
  ASSUME Inv, Tidy(ep, lease, obj, mon), NEW m \in Monitors, mon[m].duty # "none",
         UNCHANGED <<ep, lease>>, Works(m)
  PROVE  Tidy(ep', lease', obj', mon')
<1> DEFINE r == RegionOf[m]
<1>1. PICK h, x : /\ Becomes(m, h) /\ obj' = [obj EXCEPT ![RegionOf[m]] = x] /\ Onward(m, h, x)
  BY DEF Works
<1>2. /\ r \in Regions /\ RegionTidy(ep, obj[r], r)
      /\ PassTidy(ep, lease[r], obj[r], mon[m], m) /\ RecordTidy(ep)
  BY EndpointAssumption DEF Tidy
<1>3. /\ mon[m].pc # "idle" /\ lease[r].holder = m
      /\ ep.state # "absent" /\ mon[m].life = ep.life /\ r \in ep.cleanup /\ ~Terminal(ep, r)
  BY <1>2 DEF PassTidy
<1>4. RegionTidy(ep, x, r)
  BY <1>1, <1>2, <1>3 DEF RegionTidy, Onward
<1>5. PassTidy(ep, lease[r], x, h, m)
  <2>1. CASE h = NoPass \/ h = Rest(m)
    BY <1>3, <2>1, RestTidy
  <2>2. CASE ~(h = NoPass \/ h = Rest(m))
    BY <1>1, <1>3, <2>2 DEF PassTidy, Onward, Cleaning
  <2> QED BY <2>1, <2>2
<1>6. \A q \in Regions : SameFor(ep, ep, q)
  BY DEF SameFor
<1> QED BY <1>1, <1>2, <1>3, <1>4, <1>5, <1>6, Tending

(* A pass that goes on with its duty. *)
LEMMA SameDuty ==
  ASSUME NEW m, mon[m] \in Passes, NEW pc, NEW o, NEW c
  PROVE  /\ [mon[m] EXCEPT !.pc = pc].duty = mon[m].duty
         /\ [mon[m] EXCEPT !.pc = pc].life = mon[m].life
         /\ [mon[m] EXCEPT !.pc = pc].pc = pc
         /\ [mon[m] EXCEPT !.pc = pc].complete = mon[m].complete
         /\ [mon[m] EXCEPT !.pc = pc, !.seen = o].duty = mon[m].duty
         /\ [mon[m] EXCEPT !.pc = pc, !.seen = o].life = mon[m].life
         /\ [mon[m] EXCEPT !.pc = pc, !.seen = o].pc = pc
         /\ [mon[m] EXCEPT !.pc = pc, !.seen = o].complete = mon[m].complete
         /\ [mon[m] EXCEPT !.pc = pc, !.complete = c].duty = mon[m].duty
         /\ [mon[m] EXCEPT !.pc = pc, !.complete = c].life = mon[m].life
         /\ [mon[m] EXCEPT !.pc = pc, !.complete = c].pc = pc
         /\ [mon[m] EXCEPT !.pc = pc, !.complete = c].complete = c
BY DEF Passes

(* The shapes a step of a pass has. *)
LEMMA Onwards ==
  ASSUME NEW m, mon[m] \in Passes, ~mon[m].complete, NEW x,
         x.here => x.life = mon[m].life \/ (obj[RegionOf[m]].here /\ x.life = obj[RegionOf[m]].life)
  PROVE  /\ Onward(m, NoPass, x) /\ Onward(m, Rest(m), x)
         /\ \A pc : pc \notin {"idle", "list", "purge"} /\ (pc = "observe" => Cleaning(m)) =>
              /\ Onward(m, [mon[m] EXCEPT !.pc = pc], x)
              /\ \A o : Onward(m, [mon[m] EXCEPT !.pc = pc, !.seen = o], x)
         /\ \A c : Cleaning(m) /\ (c => ~x.here) =>
              Onward(m, [mon[m] EXCEPT !.pc = "observe", !.complete = c], x)
<1>1. Onward(m, NoPass, x) /\ Onward(m, Rest(m), x)
  BY DEF Onward
<1>2. ASSUME NEW pc, pc \notin {"idle", "list", "purge"}, pc = "observe" => Cleaning(m)
      PROVE  /\ Onward(m, [mon[m] EXCEPT !.pc = pc], x)
             /\ \A o : Onward(m, [mon[m] EXCEPT !.pc = pc, !.seen = o], x)
  <2>1. Onward(m, [mon[m] EXCEPT !.pc = pc], x)
    <3> DEFINE h == [mon[m] EXCEPT !.pc = pc]
    <3>1. /\ h.duty = mon[m].duty /\ h.life = mon[m].life /\ h.pc = pc
          /\ h.complete = mon[m].complete
      BY SameDuty
    <3> HIDE DEF h
    <3> QED BY <1>2, <3>1 DEF Onward
  <2>2. ASSUME NEW o PROVE Onward(m, [mon[m] EXCEPT !.pc = pc, !.seen = o], x)
    <3> DEFINE h == [mon[m] EXCEPT !.pc = pc, !.seen = o]
    <3>1. /\ h.duty = mon[m].duty /\ h.life = mon[m].life /\ h.pc = pc
          /\ h.complete = mon[m].complete
      BY SameDuty
    <3> HIDE DEF h
    <3> QED BY <1>2, <3>1 DEF Onward
  <2> QED BY <2>1, <2>2
<1>3. ASSUME NEW c, Cleaning(m), c => ~x.here
      PROVE  Onward(m, [mon[m] EXCEPT !.pc = "observe", !.complete = c], x)
  <2> DEFINE h == [mon[m] EXCEPT !.pc = "observe", !.complete = c]
  <2>1. h.duty = mon[m].duty /\ h.life = mon[m].life /\ h.pc = "observe" /\ h.complete = c
    BY SameDuty
  <2> HIDE DEF h
  <2> QED BY <1>3, <2>1 DEF Onward
<1> QED BY <1>1, <1>2, <1>3

(* What a delete leaves. *)
LEMMA DeleteLeaves ==
  ASSUME Inv, NEW m \in Monitors, DeletedAsSeen(m) \/ UNCHANGED obj
  PROVE  \E x : /\ obj' = [obj EXCEPT ![RegionOf[m]] = x] /\ obj'[RegionOf[m]] = x
                /\ x.here => obj[RegionOf[m]].here /\ x.life = obj[RegionOf[m]].life
<1> DEFINE r == RegionOf[m]
<1>1. r \in Regions /\ obj \in [Regions -> Objects] /\ obj[r] \in Objects
  BY EndpointAssumption DEF Inv, TypeOK
<1>2. CASE UNCHANGED obj
  <2>1. obj' = [obj EXCEPT ![r] = obj[r]] /\ obj'[r] = obj[r]
    BY <1>1, <1>2
  <2> QED BY <2>1
<1>3. CASE obj' = [obj EXCEPT ![r] = Dying(@)]
  <2>1. /\ obj' = [obj EXCEPT ![r] = Dying(obj[r])] /\ obj'[r] = Dying(obj[r])
        /\ Dying(obj[r]).here = obj[r].here /\ Dying(obj[r]).life = obj[r].life
    BY <1>1, <1>3 DEF Dying, Objects
  <2> QED BY <2>1
<1>4. CASE obj' = [obj EXCEPT ![r] = NoObject]
  <2>1. obj'[r] = NoObject /\ ~NoObject.here
    BY <1>1, <1>4 DEF NoObject
  <2> QED BY <1>4, <2>1
<1> QED BY <1>2, <1>3, <1>4 DEF DeletedAsSeen

LEMMA ReadWorks ==
  ASSUME Inv, NEW m \in Monitors, mon[m].duty # "none", ~mon[m].complete, ReadObject(m)
  PROVE  Works(m)
<1> DEFINE r == RegionOf[m]
           o == obj[r]
<1>1. mon[m].pc = "read" /\ mon[m] \in Passes /\ UNCHANGED <<ep, lease, obj>>
  BY AtWork DEF ReadObject
<1>2. obj' = [obj EXCEPT ![r] = o]
  BY <1>1, EndpointAssumption DEF Inv, TypeOK
<1>3. /\ Onward(m, NoPass, o) /\ Onward(m, Rest(m), o)
      /\ \A pc : pc \notin {"idle", "list", "purge"} /\ (pc = "observe" => Cleaning(m)) =>
           /\ Onward(m, [mon[m] EXCEPT !.pc = pc], o)
           /\ \A v : Onward(m, [mon[m] EXCEPT !.pc = pc, !.seen = v], o)
      /\ \A c : Cleaning(m) /\ (c => ~o.here) =>
           Onward(m, [mon[m] EXCEPT !.pc = "observe", !.complete = c], o)
  BY <1>1, Onwards
<1>4. CASE EndEndpoint(m)
  BY <1>2, <1>3, <1>4 DEF Works, EndEndpoint
<1>5. ASSUME NEW pc, pc \notin {"idle", "list", "purge"}, pc = "observe" => Cleaning(m), Goto(m, pc)
      PROVE  Works(m)
  BY <1>2, <1>3, <1>5 DEF Works, Goto
<1>6. ASSUME NEW pc \in {"status", "delete", "handoff", "claim"},
             Becomes(m, [mon[m] EXCEPT !.pc = pc, !.seen = o])
      PROVE  Works(m)
  BY <1>2, <1>3, <1>6 DEF Works
<1>7. CASE Present(m, o)
  <2>1. CASE Authorized(m, o)
    <3>1. \/ EndEndpoint(m)
          \/ \E pc \in {"status", "delete"} : Becomes(m, [mon[m] EXCEPT !.pc = pc, !.seen = o])
      BY <2>1 DEF Authorized
    <3> QED BY <1>4, <1>6, <3>1
  <2>2. CASE Becomes(m, [mon[m] EXCEPT !.pc = IF Stale(m, o) THEN "handoff" ELSE "claim",
                                       !.seen = o])
    <3>1. \E pc \in {"handoff", "claim"} : Becomes(m, [mon[m] EXCEPT !.pc = pc, !.seen = o])
      BY <2>2
    <3> QED BY <1>6, <3>1
  <2> QED BY <1>4, <1>7, <2>1, <2>2 DEF Present
<1>8. CASE ~o.here /\ Missing(m)
  <2>1. CASE mon[m].duty = "serve"
    BY <1>4, <1>5, <1>8, <2>1 DEF Missing
  <2>2. CASE mon[m].duty = "stop"
    BY <1>5, <1>8, <2>2 DEF Missing
  <2>3. CASE mon[m].duty \notin {"serve", "stop"}
    <3>1. Cleaning(m)
      BY <1>1, <2>3 DEF Cleaning, Passes, Duties
    <3>2. Becomes(m, [mon[m] EXCEPT !.pc = "observe", !.complete = TRUE])
      BY <1>8, <2>3 DEF Missing
    <3> QED BY <1>2, <1>3, <1>8, <3>1, <3>2 DEF Works
  <2> QED BY <2>1, <2>2, <2>3
<1>9. CASE Goto(m, IF Cleaning(m) THEN "observe" ELSE "note")
  BY <1>5, <1>9
<1> QED BY <1>7, <1>8, <1>9 DEF ReadObject

LEMMA ClaimWorks ==
  ASSUME Inv, NEW m \in Monitors, ~mon[m].complete, ClaimObject(m)
  PROVE  Works(m)
<1> DEFINE r == RegionOf[m]
<1>1. mon[m].pc = "claim" /\ mon[m] \in Passes /\ r \in Regions /\ obj \in [Regions -> Objects]
  BY AtWork DEF ClaimObject, Inv, TypeOK
<1>2. CASE EndEndpoint(m) /\ UNCHANGED obj
  <2>1. obj' = [obj EXCEPT ![r] = obj[r]]
    BY <1>1, <1>2
  <2> QED BY <1>1, <1>2, <2>1, Onwards DEF Works, EndEndpoint
<1>3. CASE obj' = [obj EXCEPT ![r] = Claimed(m)] /\ Authorized(m, Claimed(m))
  <2>1. Claimed(m).life = mon[m].life
    BY <1>1 DEF Claimed, Passes, Objects
  <2>2. /\ Onward(m, Rest(m), Claimed(m))
        /\ \A pc : pc \notin {"idle", "list", "purge", "observe"} =>
             \A v : Onward(m, [mon[m] EXCEPT !.pc = pc, !.seen = v], Claimed(m))
    BY <1>1, <2>1, Onwards
  <2> QED BY <1>3, <2>2 DEF Works, Authorized, EndEndpoint
<1> QED BY <1>2, <1>3 DEF ClaimObject

LEMMA DeleteWorks ==
  ASSUME Inv, NEW m \in Monitors, ~mon[m].complete, DeleteObject(m)
  PROVE  Works(m)
<1> DEFINE r == RegionOf[m]
<1>1. /\ mon[m].pc = "delete" /\ mon[m] \in Passes /\ r \in Regions /\ obj \in [Regions -> Objects]
      /\ Cleaning(m)
  BY AtWork DEF DeleteObject, Inv, TypeOK, SeenOK, Cleaning
<1>2. PICK x : /\ obj' = [obj EXCEPT ![r] = x] /\ obj'[r] = x
               /\ x.here => obj[r].here /\ x.life = obj[r].life
  BY DeleteLeaves DEF DeleteObject
<1>3. \E c : Observing(m, c) /\ (c => ~x.here)
  <2>1. CASE Observing(m, ~obj'[r].here)
    BY <1>2, <2>1
  <2>2. CASE ~obj[r].here /\ Observing(m, TRUE)
    BY <1>2, <2>2
  <2>3. CASE Observing(m, FALSE)
    BY <2>3
  <2> QED BY <2>1, <2>2, <2>3 DEF DeleteObject
<1>4. \A c : (c => ~x.here) => Onward(m, [mon[m] EXCEPT !.pc = "observe", !.complete = c], x)
  BY <1>1, <1>2, Onwards
<1> QED BY <1>2, <1>3, <1>4 DEF Works, Observing

LEMMA HandOffWorks ==
  ASSUME Inv, NEW m \in Monitors, ~mon[m].complete, HandOff(m) \/ UndoCreate(m)
  PROVE  Works(m)
<1> DEFINE r == RegionOf[m]
<1>1. mon[m] \in Passes
  BY AtWork DEF HandOff, UndoCreate
<1>2. PICK x : obj' = [obj EXCEPT ![r] = x] /\ (x.here => obj[r].here /\ x.life = obj[r].life)
  BY DeleteLeaves DEF HandOff, UndoCreate
<1>3. EndEndpoint(m) \/ Goto(m, "note")
  BY DEF HandOff, UndoCreate
<1> QED BY <1>1, <1>2, <1>3, Onwards DEF Works, EndEndpoint, Goto

LEMMA CreateWorks ==
  ASSUME Inv, NEW m \in Monitors, ~mon[m].complete, CreateObject(m) \/ ConfirmCreated(m)
  PROVE  Works(m)
<1> DEFINE r == RegionOf[m]
<1>1. mon[m] \in Passes /\ r \in Regions /\ obj \in [Regions -> Objects]
  BY AtWork DEF CreateObject, ConfirmCreated, Inv, TypeOK
<1>2. PICK x : /\ obj' = [obj EXCEPT ![r] = x]
               /\ x.here => x.life = mon[m].life \/ (obj[r].here /\ x.life = obj[r].life)
  <2>1. UNCHANGED obj => obj' = [obj EXCEPT ![r] = obj[r]]
    BY <1>1
  <2>2. Created(m).life = mon[m].life
    BY DEF Created
  <2>3. UNCHANGED obj \/ obj' = [obj EXCEPT ![r] = Created(m)]
    BY DEF CreateObject, ConfirmCreated
  <2> QED BY <2>1, <2>2, <2>3
<1>3. \/ EndEndpoint(m)
      \/ \E pc \in {"note", "confirm"} : Goto(m, pc)
      \/ \E pc \in {"note", "undo"} : Becomes(m, [mon[m] EXCEPT !.pc = pc, !.seen = obj[r]])
  BY DEF CreateObject, ConfirmCreated
<1>4. /\ Onward(m, Rest(m), x)
      /\ \A pc : pc \notin {"idle", "list", "purge"} /\ (pc = "observe" => Cleaning(m)) =>
           /\ Onward(m, [mon[m] EXCEPT !.pc = pc], x)
           /\ \A o : Onward(m, [mon[m] EXCEPT !.pc = pc, !.seen = o], x)
  BY <1>1, <1>2, Onwards
<1>5. CASE EndEndpoint(m)
  BY <1>2, <1>4, <1>5 DEF Works, EndEndpoint
<1>6. ASSUME NEW pc \in {"note", "confirm"}, Goto(m, pc) PROVE Works(m)
  BY <1>2, <1>4, <1>6 DEF Works, Goto
<1>7. ASSUME NEW pc \in {"note", "undo"}, Becomes(m, [mon[m] EXCEPT !.pc = pc, !.seen = obj[r]])
      PROVE  Works(m)
  BY <1>2, <1>4, <1>7 DEF Works
<1> QED BY <1>3, <1>5, <1>6, <1>7

LEMMA ListTidy ==
  ASSUME Inv, Tidy(ep, lease, obj, mon), NEW m \in Monitors, List(m)
  PROVE  Tidy(ep', lease', obj', mon')
<1> DEFINE r == RegionOf[m]
           duty == Duty(ep, r)
           obs == IF duty \in {"remove", "delete"} THEN Observations(ep, r) ELSE 0
           lone == duty = "serve" /\ LastToRun(ep, r)
           h == [mon[m] EXCEPT !.pc = "read", !.duty = duty, !.life = ep.life,
                               !.gen = ep.gen[r], !.obs = obs, !.lone = lone]
<1>1. /\ mon[m].pc = "list" /\ mon[m] \in Passes /\ r \in Regions
      /\ obj' = [obj EXCEPT ![r] = obj[r]] /\ UNCHANGED <<ep, lease>>
  BY EndpointAssumption DEF List, Inv, TypeOK
<1>2. /\ RecordTidy(ep) /\ RegionTidy(ep, obj[r], r)
      /\ PassTidy(ep, lease[r], obj[r], mon[m], m)
      /\ \A q \in Regions : SameFor(ep, ep, q)
  BY <1>1 DEF Tidy, SameFor
<1>3. lease[r].holder = m /\ ~mon[m].complete
  BY <1>1, <1>2 DEF PassTidy
<1>4. \E g : Becomes(m, g) /\ PassTidy(ep, lease[r], obj[r], g, m)
  <2>1. CASE duty # "none"
    <3>1. Becomes(m, h)
      BY <2>1 DEF List
    <3>2. h.pc = "read" /\ h.duty = duty /\ h.life = ep.life /\ h.complete = mon[m].complete
      BY <1>1 DEF Passes
    <3>3. ep.targets \subseteq ep.cleanup /\ ep.state \in Live \union {"absent", "deleted"}
      BY DEF Inv, TypeOK
    <3>4. ep.state # "absent" /\ r \in ep.cleanup /\ ~Terminal(ep, r)
      BY <1>2, <2>1, <3>3 DEF Duty, RecordTidy, RegionTidy
    <3> HIDE DEF h, duty
    <3> QED BY <1>3, <2>1, <3>1, <3>2, <3>4 DEF PassTidy
  <2>2. CASE duty = "none" /\ ep.state = "deleted"
    <3> DEFINE g == [NoPass EXCEPT !.pc = "purge"]
    <3>1. g.pc = "purge" /\ g.duty = "none" /\ ~g.complete
      BY DEF NoPass
    <3>2. Becomes(m, g)
      BY <2>2 DEF List
    <3> HIDE DEF g
    <3> QED BY <1>3, <3>1, <3>2 DEF PassTidy
  <2>3. CASE duty = "none" /\ ep.state # "deleted"
    BY <1>3, <2>3, RestTidy DEF List
  <2> QED BY <2>1, <2>2, <2>3
<1> QED BY <1>1, <1>2, <1>4, Tending

(* A status says deleted only of a region that has nothing and that its    *)
(* pass has to clean.                                                      *)
LEMMA WriteTidy ==
  ASSUME Inv, Tidy(ep, lease, obj, mon), NEW m \in Monitors, mon[m].duty # "none",
         NEW state, NEW obs, WriteStatus(m, state, obs),
         state = "deleted" => ~obj[RegionOf[m]].here /\ Cleaning(m)
  PROVE  /\ RecordTidy(ep') /\ \A q \in Regions : q # RegionOf[m] => SameFor(ep, ep', q)
         /\ RegionTidy(ep', obj[RegionOf[m]], RegionOf[m])
         /\ ep'.state # "absent" /\ mon[m].life = ep'.life /\ RegionOf[m] \in ep'.cleanup
         /\ state # "deleted" => ~Terminal(ep', RegionOf[m])
<1> DEFINE r == RegionOf[m]
           s == StatusOf(m, state, obs)
<1>1. /\ r \in Regions /\ RegionTidy(ep, obj[r], r) /\ RecordTidy(ep)
      /\ PassTidy(ep, lease[r], obj[r], mon[m], m)
  BY EndpointAssumption DEF Tidy
<1>2. ep.state # "absent" /\ mon[m].life = ep.life /\ r \in ep.cleanup /\ ~Terminal(ep, r)
  BY <1>1 DEF PassTidy
<1>3. CASE UNCHANGED ep
  BY <1>1, <1>2, <1>3 DEF SameFor
<1>4. CASE Admitted(m) /\ ep' = [ep EXCEPT !.status[r] = s]
  <2>1. /\ ep'.state = ep.state /\ ep'.life = ep.life /\ ep'.targets = ep.targets
        /\ ep'.cleanup = ep.cleanup /\ ep'.doomed = ep.doomed /\ ep'.gen = ep.gen
        /\ ep'.status = [ep.status EXCEPT ![r] = s] /\ ep.status \in [Regions -> Statuses]
    BY <1>4 DEF Inv, TypeOK
  <2>2. ep'.status[r] = s /\ \A q \in Regions : q # r => ep'.status[q] = ep.status[q]
    BY <1>1, <2>1
  <2>3. /\ s.state = state /\ s.life = mon[m].life /\ s.del = (mon[m].duty = "delete")
        /\ mon[m].duty # "delete" => s.gen = mon[m].gen
    BY DEF StatusOf
  <2>4. RecordTidy(ep') /\ \A q \in Regions : q # r => SameFor(ep, ep', q)
    BY <1>1, <2>1, <2>2 DEF RecordTidy, SameFor
  <2>5. state # "deleted" => ~Terminal(ep', r)
    BY <2>2, <2>3 DEF Terminal
  <2>6. ep.state \in Live => mon[m].duty # "delete" /\ ep.gen[r] = mon[m].gen
    BY <1>4 DEF Admitted, Live
  <2>7. ep.state \in Live /\ mon[m].duty = "remove" => r \notin ep.targets
    <3>1. SnapshotOK(m, mon[m]) /\ mon[m].pc \notin {"idle", "purge", "list"}
      BY <1>1, AtWork DEF PassTidy
    <3> QED BY <1>2, <2>6, <3>1 DEF SnapshotOK
  <2>8. ep.gen[r] \in Nat
    BY <1>1 DEF Inv, TypeOK
  <2>9. RegionTidy(ep', obj[r], r)
    <3>1. obj[r].here => obj[r].life = ep'.life /\ r \in ep'.cleanup
      BY <1>1, <2>1 DEF RegionTidy
    <3>2. Terminal(ep', r) => ~obj[r].here
      BY <2>5
    <3>3. ASSUME ep'.state \in Live
          PROVE  /\ ep'.status[r].state = "deleted" =>
                      ~ep'.status[r].del /\ ep'.status[r].gen <= ep'.gen[r]
                 /\ r \in ep'.targets => ~Terminal(ep', r)
      <4>1. mon[m].duty # "delete" /\ s.gen = ep.gen[r] /\ ~s.del
        BY <2>1, <2>3, <2>6, <3>3
      <4>2. state = "deleted" => r \notin ep.targets
        BY <2>1, <2>7, <3>3, <4>1 DEF Cleaning
      <4> QED BY <2>1, <2>2, <2>5, <2>8, <4>1, <4>2
    <3> QED BY <3>1, <3>2, <3>3 DEF RegionTidy
  <2> QED BY <1>2, <2>1, <2>4, <2>5, <2>9
<1> QED BY <1>3, <1>4 DEF WriteStatus

LEMMA StatusTidy ==
  ASSUME Inv, Tidy(ep, lease, obj, mon), NEW m \in Monitors, Observe(m) \/ Report(m) \/ Note(m)
  PROVE  Tidy(ep', lease', obj', mon')
<1> DEFINE r == RegionOf[m]
<1>1. /\ mon[m].pc \in {"observe", "status", "note"} /\ mon[m] \in Passes /\ r \in Regions
      /\ UNCHANGED <<lease, obj>> /\ obj' = [obj EXCEPT ![r] = obj[r]]
  BY AtWork DEF Observe, Report, Note, WriteStatus, Inv, TypeOK
<1>2. /\ PassTidy(ep, lease[r], obj[r], mon[m], m) /\ mon[m].duty # "none"
      /\ lease[r].holder = m
  BY <1>1 DEF Tidy, PassTidy
<1>3. CASE EndEndpoint(m)
  <2>1. PICK state, obs : /\ WriteStatus(m, state, obs)
                          /\ state = "deleted" => ~obj[r].here /\ Cleaning(m)
    <3>1. CASE Observe(m)
      <4>1. WriteStatus(m, IF Counted(m) >= 2 THEN "deleted" ELSE "pending", Counted(m))
        BY <3>1 DEF Observe
      <4>2. Counted(m) >= 2 => mon[m].complete
        BY DEF Counted
      <4>3. mon[m].pc = "observe"
        BY <3>1 DEF Observe
      <4> QED BY <1>2, <4>1, <4>2, <4>3 DEF PassTidy, Cleaning
    <3>2. CASE Report(m)
      <4>1. PICK state \in {"running", "pending"} : WriteStatus(m, state, 0)
        BY <3>2 DEF Report
      <4> QED BY <4>1
    <3>3. CASE Note(m)
      BY <3>3 DEF Note
    <3> QED BY <3>1, <3>2, <3>3
  <2>2. /\ RecordTidy(ep') /\ \A q \in Regions : q # r => SameFor(ep, ep', q)
        /\ RegionTidy(ep', obj[r], r)
    BY <1>2, <2>1, WriteTidy
  <2>3. PassTidy(ep', lease[r], obj[r], Rest(m), m)
    BY <1>2, RestTidy
  <2> QED BY <1>1, <1>3, <2>2, <2>3, Tending DEF EndEndpoint
<1>4. CASE Goto(m, "promote") /\ Report(m)
  <2> DEFINE h == [mon[m] EXCEPT !.pc = "promote"]
  <2>1. PICK state \in {"running", "pending"} : WriteStatus(m, state, 0)
    BY <1>4 DEF Report
  <2>2. /\ RecordTidy(ep') /\ \A q \in Regions : q # r => SameFor(ep, ep', q)
        /\ RegionTidy(ep', obj[r], r) /\ ~Terminal(ep', r)
        /\ ep'.state # "absent" /\ mon[m].life = ep'.life /\ r \in ep'.cleanup
    BY <1>2, <2>1, WriteTidy
  <2>3. /\ h.duty = mon[m].duty /\ h.life = mon[m].life /\ h.pc = "promote"
        /\ h.complete = mon[m].complete
    BY <1>1, SameDuty
  <2>4. ~mon[m].complete
    BY <1>2, <1>4 DEF PassTidy, Report
  <2>5. Becomes(m, h)
    BY <1>4 DEF Goto
  <2> HIDE DEF h
  <2>6. PassTidy(ep', lease[r], obj[r], h, m)
    BY <1>2, <2>2, <2>3, <2>4 DEF PassTidy
  <2> QED BY <1>1, <2>2, <2>5, <2>6, Tending
<1> QED BY <1>3, <1>4 DEF Observe, Report, Note

LEMMA PromoteTidy ==
  ASSUME Inv, Tidy(ep, lease, obj, mon), NEW m \in Monitors, Promote(m)
  PROVE  Tidy(ep', lease', obj', mon')
<1> DEFINE r == RegionOf[m]
<1>1. /\ mon[m].pc = "promote" /\ r \in Regions /\ Becomes(m, Rest(m))
      /\ UNCHANGED <<lease, obj>> /\ obj' = [obj EXCEPT ![r] = obj[r]]
  BY EndpointAssumption DEF Promote, EndEndpoint, Inv, TypeOK
<1>2. \A q \in Regions : SameFor(ep, ep', q)
  <2>1. CASE UNCHANGED ep
    BY <2>1 DEF SameFor
  <2>2. CASE ep.state = "deploying" /\ ep' = [ep EXCEPT !.state = "running"]
    BY <2>2 DEF SameFor, Live, Inv, TypeOK
  <2> QED BY <2>1, <2>2 DEF Promote
<1>3. RecordTidy(ep')
  BY DEF Promote, Tidy, RecordTidy, Inv, TypeOK
<1>4. lease[r].holder = m /\ RegionTidy(ep', obj[r], r)
  BY <1>1, <1>2, AlikeTidy DEF Tidy, PassTidy
<1> QED BY <1>1, <1>2, <1>3, <1>4, RestTidy, Tending

(* A purge finds every region given up, so nothing anywhere and nobody at  *)
(* work.                                                                   *)
LEMMA PurgeTidy ==
  ASSUME Inv, Tidy(ep, lease, obj, mon), NEW m \in Monitors, Purge(m)
  PROVE  Tidy(ep', lease', obj', mon')
<1> DEFINE r == RegionOf[m]
<1>1. /\ mon[m].pc = "purge" /\ r \in Regions /\ Becomes(m, NoPass)
      /\ UNCHANGED <<lease, obj>> /\ obj' = [obj EXCEPT ![r] = obj[r]]
  BY EndpointAssumption DEF Purge, Inv, TypeOK
<1>2. lease[r].holder = m /\ RegionTidy(ep, obj[r], r) /\ RecordTidy(ep)
  BY <1>1 DEF Tidy, PassTidy
<1>3. CASE UNCHANGED ep
  <2>1. \A q \in Regions : SameFor(ep, ep', q)
    BY <1>3 DEF SameFor
  <2> QED BY <1>1, <1>2, <1>3, <2>1, RestTidy, Tending
<1>4. CASE ep.state = "deleted" /\ (\A q \in ep.doomed : Terminal(ep, q)) /\ ep' = NoRecord
  <2>1. ep.doomed = ep.cleanup
    BY <1>2, <1>4 DEF RecordTidy
  <2>2. ASSUME NEW q \in Regions PROVE ~obj[q].here
    BY <1>4, <2>1, <2>2 DEF Tidy, RegionTidy
  <2>3. ASSUME NEW n \in Monitors PROVE mon[n].duty = "none"
    BY <1>4, <2>1 DEF Tidy, PassTidy
  <2>4. ep'.state = "absent" /\ ep'.cleanup = {}
    BY <1>4, NoRecordTyped
  <2>5. ASSUME NEW q \in Regions PROVE RegionTidy(ep', obj[q], q)
    BY <2>2, <2>4 DEF RegionTidy, Live
  <2>6. ASSUME NEW n \in Monitors
        PROVE  PassTidy(ep', lease[RegionOf[n]], obj[RegionOf[n]], mon'[n], n)
    <3>1. CASE n = m
      <4>1. mon'[n] = NoPass
        BY <1>1, <3>1 DEF Becomes, Inv, TypeOK
      <4> QED BY <1>2, <3>1, <4>1, RestTidy
    <3>2. CASE n # m
      <4>1. mon'[n] = mon[n]
        BY <1>1, <3>2 DEF Becomes, Inv, TypeOK
      <4> QED BY <2>3, <4>1 DEF Tidy, PassTidy
    <3> QED BY <3>1, <3>2
  <2> QED BY <1>1, <2>4, <2>5, <2>6 DEF Tidy, RecordTidy
<1> QED BY <1>3, <1>4 DEF Purge

LEMMA AcquireTidy ==
  ASSUME Inv, Tidy(ep, lease, obj, mon), NEW m \in Monitors, Acquire(m)
  PROVE  Tidy(ep', lease', obj', mon')
<1> DEFINE r == RegionOf[m]
           won == IF lease[r].holder = m THEN lease[r]
                  ELSE [holder |-> m, epoch |-> lease[r].epoch + 1]
           h == [NoPass EXCEPT !.pc = "list", !.epoch = won.epoch]
<1>1. /\ r \in Regions /\ lease[r].holder \in {m, Nobody} /\ mon[m].pc = "idle"
      /\ lease' = [lease EXCEPT ![r] = won] /\ UNCHANGED <<ep, obj>> /\ Becomes(m, h)
      /\ won.holder = m
  BY EndpointAssumption DEF Acquire
<1>2. h.pc = "list" /\ h.duty = "none" /\ ~h.complete
  BY DEF NoPass
<1> HIDE DEF won, h
<1>3. /\ lease'[r] = won /\ mon'[m] = h
      /\ \A q \in Regions : q # r => lease'[q] = lease[q]
      /\ \A n \in Monitors : n # m => mon'[n] = mon[n]
  BY <1>1 DEF Inv, TypeOK, Becomes
<1>4. ASSUME NEW n \in Monitors
      PROVE  PassTidy(ep, lease'[RegionOf[n]], obj[RegionOf[n]], mon'[n], n)
  <2>0. PassTidy(ep, lease[RegionOf[n]], obj[RegionOf[n]], mon[n], n)
    BY DEF Tidy
  <2>1. CASE n = m
    BY <1>1, <1>2, <1>3, <2>1 DEF PassTidy
  <2>2. CASE n # m /\ RegionOf[n] = r
    <3>1. mon[n].pc = "idle"
      BY <1>1, <2>0, <2>2, EndpointAssumption DEF PassTidy
    <3> QED BY <1>3, <2>0, <2>2, <3>1 DEF PassTidy
  <2>3. CASE RegionOf[n] # r
    <3>1. RegionOf[n] \in Regions /\ n # m
      BY <2>3, EndpointAssumption
    <3> QED BY <1>3, <2>0, <2>3, <3>1
  <2> QED BY <2>1, <2>2, <2>3
<1> QED BY <1>1, <1>4 DEF Tidy

LEMMA CrashTidy ==
  ASSUME Inv, Tidy(ep, lease, obj, mon), NEW m \in Monitors, Crash(m)
  PROVE  Tidy(ep', lease', obj', mon')
<1> DEFINE r == RegionOf[m]
<1>1. /\ mon[m].pc # "idle" /\ r \in Regions /\ Becomes(m, NoPass)
      /\ UNCHANGED <<ep, lease, obj>> /\ obj' = [obj EXCEPT ![r] = obj[r]]
  BY EndpointAssumption DEF Crash, Inv, TypeOK
<1>2. lease[r].holder = m /\ RegionTidy(ep, obj[r], r) /\ RecordTidy(ep)
      /\ \A q \in Regions : SameFor(ep, ep, q)
  BY <1>1 DEF Tidy, PassTidy, SameFor
<1> QED BY <1>1, <1>2, RestTidy, Tending

(* What an idle monitor's lapse, a collection and a client leave alone.    *)
LEMMA LapseTidy ==
  ASSUME Inv, Tidy(ep, lease, obj, mon), NEW r \in Regions, Lapse(r), overruns' = overruns
  PROVE  Tidy(ep', lease', obj', mon')
<1>1. /\ lease' = [lease EXCEPT ![r].holder = Nobody] /\ UNCHANGED <<ep, obj, mon>>
      /\ lease[r].holder # Nobody /\ lease[r].holder \in Monitors
      /\ mon[lease[r].holder].pc = "idle"
  BY DEF Lapse, Inv, TypeOK
<1>2. \A q \in Regions : q # r => lease'[q] = lease[q]
  BY <1>1 DEF Inv, TypeOK
<1>3. ASSUME NEW n \in Monitors
      PROVE  PassTidy(ep, lease'[RegionOf[n]], obj[RegionOf[n]], mon[n], n)
  <2>0. PassTidy(ep, lease[RegionOf[n]], obj[RegionOf[n]], mon[n], n) /\ RegionOf[n] \in Regions
    BY EndpointAssumption DEF Tidy
  <2>1. CASE RegionOf[n] = r
    <3>1. mon[n].pc = "idle"
      BY <1>1, <2>0, <2>1 DEF PassTidy
    <3> QED BY <2>0, <3>1 DEF PassTidy
  <2>2. CASE RegionOf[n] # r
    BY <1>2, <2>0, <2>2
  <2> QED BY <2>1, <2>2
<1> QED BY <1>1, <1>3 DEF Tidy

LEMMA CollectTidy ==
  ASSUME Inv, Tidy(ep, lease, obj, mon), NEW r \in Regions, Collect(r)
  PROVE  Tidy(ep', lease', obj', mon')
<1>1. obj' = [obj EXCEPT ![r] = NoObject] /\ UNCHANGED <<ep, lease, mon>>
  BY DEF Collect
<1>2. ASSUME NEW q \in Regions PROVE obj'[q] = obj[q] \/ ~obj'[q].here
  BY <1>1 DEF Inv, TypeOK, NoObject
<1>3. ASSUME NEW q \in Regions PROVE RegionTidy(ep, obj'[q], q)
  BY <1>2 DEF Tidy, RegionTidy
<1>4. ASSUME NEW n \in Monitors
      PROVE  PassTidy(ep, lease[RegionOf[n]], obj'[RegionOf[n]], mon[n], n)
  <2>1. RegionOf[n] \in Regions /\ PassTidy(ep, lease[RegionOf[n]], obj[RegionOf[n]], mon[n], n)
    BY EndpointAssumption DEF Tidy
  <2> QED BY <1>2, <2>1 DEF PassTidy
<1> QED BY <1>1, <1>3, <1>4 DEF Tidy

(* The record changes for some regions only, and for those it says that    *)
(* nothing was given up.                                                   *)
LEMMA Changing ==
  ASSUME Inv, Tidy(ep, lease, obj, mon), UNCHANGED <<lease, obj, mon>>, RecordTidy(ep'),
         ep'.state # "absent",
         \A q \in Regions :
           \/ SameFor(ep, ep', q)
           \/ /\ RegionTidy(ep', obj[q], q) /\ ~Terminal(ep', q)
              /\ q \in ep.cleanup => q \in ep'.cleanup /\ ep'.life = ep.life
  PROVE  Tidy(ep', lease', obj', mon')
<1>1. ASSUME NEW q \in Regions PROVE RegionTidy(ep', obj[q], q)
  BY AlikeTidy DEF Tidy
<1>2. ASSUME NEW n \in Monitors
      PROVE  PassTidy(ep', lease[RegionOf[n]], obj[RegionOf[n]], mon[n], n)
  <2>1. PassTidy(ep, lease[RegionOf[n]], obj[RegionOf[n]], mon[n], n) /\ RegionOf[n] \in Regions
    BY EndpointAssumption DEF Tidy
  <2>2. CASE SameFor(ep, ep', RegionOf[n])
    BY <2>1, <2>2, AlikeTidy
  <2>3. CASE ~SameFor(ep, ep', RegionOf[n])
    BY <2>1, <2>3 DEF PassTidy
  <2> QED BY <2>2, <2>3
<1> QED BY <1>1, <1>2 DEF Tidy

LEMMA DeployTidy ==
  ASSUME Inv, Tidy(ep, lease, obj, mon), NEW targets \in SUBSET Regions, Deploy(targets)
  PROVE  Tidy(ep', lease', obj', mon')
<1> DEFINE gen == [r \in Regions |-> IF r \in targets THEN 1 ELSE 0]
<1>1. /\ ep' = [NoRecord EXCEPT !.state = "deploying", !.life = lives + 1, !.targets = targets,
                                !.cleanup = targets, !.gen = gen]
      /\ ep.state = "absent" /\ UNCHANGED <<lease, obj, mon>>
  BY DEF Deploy
<1>2. /\ ep'.state = "deploying" /\ ep'.status = [r \in Regions |-> NoStatus]
      /\ ep'.cleanup = targets
  BY <1>1 DEF NoRecord
<1>3. ep.cleanup = {}
  BY <1>1 DEF Tidy, RecordTidy
<1>4. ASSUME NEW q \in Regions PROVE RegionTidy(ep', obj[q], q) /\ ~Terminal(ep', q)
  <2>1. ~obj[q].here
    BY <1>3 DEF Tidy, RegionTidy
  <2>2. ep'.status[q].state = "pending"
    BY <1>2 DEF NoStatus
  <2> QED BY <2>1, <2>2 DEF RegionTidy, Terminal
<1> QED BY <1>1, <1>2, <1>3, <1>4, Changing DEF RecordTidy

LEMMA ChangeTidy ==
  ASSUME Inv, Tidy(ep, lease, obj, mon), NEW state \in Live, Change(state)
  PROVE  Tidy(ep', lease', obj', mon')
<1>1. /\ ep' = [ep EXCEPT !.state = state] /\ ep.state \in Live
      /\ UNCHANGED <<lease, obj, mon>>
  BY DEF Change
<1>2. ep'.state = state /\ \A q \in Regions : SameFor(ep, ep', q)
  BY <1>1 DEF SameFor, Inv, TypeOK
<1> QED BY <1>1, <1>2, Changing DEF RecordTidy, Live

LEMMA DeleteEndpointTidy ==
  ASSUME Inv, Tidy(ep, lease, obj, mon), DeleteEndpoint
  PROVE  Tidy(ep', lease', obj', mon')
<1>1. /\ ep' = [ep EXCEPT !.state = "deleted", !.doomed = ep.cleanup] /\ ep.state \in Live
      /\ UNCHANGED <<lease, obj, mon>>
  BY DEF DeleteEndpoint
<1>2. /\ ep'.state = "deleted" /\ ep'.life = ep.life /\ ep'.cleanup = ep.cleanup
      /\ ep'.doomed = ep.cleanup /\ ep'.status = ep.status
  BY <1>1 DEF Inv, TypeOK
<1>3. ASSUME NEW q \in Regions PROVE RegionTidy(ep', obj[q], q) /\ ~Terminal(ep', q)
  <2>1. RegionTidy(ep, obj[q], q)
    BY DEF Tidy
  <2>2. ~Terminal(ep', q)
    BY <1>1, <1>2, <2>1 DEF RegionTidy, Terminal
  <2> QED BY <1>2, <2>1, <2>2 DEF RegionTidy, Live
<1> QED BY <1>1, <1>2, <1>3, Changing DEF RecordTidy

LEMMA MoveTidy ==
  ASSUME Inv, Tidy(ep, lease, obj, mon), NEW r \in Regions, NEW targets \in SUBSET Regions,
         Move(targets, r), targets \ {r} = ep.targets \ {r}
  PROVE  Tidy(ep', lease', obj', mon')
<1>1. /\ ep' = [ep EXCEPT !.targets = targets, !.cleanup = @ \union {r}, !.gen[r] = @ + 1]
      /\ ep.state \in Live /\ UNCHANGED <<lease, obj, mon>>
  BY DEF Move
<1>2. /\ ep'.state = ep.state /\ ep'.life = ep.life /\ ep'.targets = targets
      /\ ep'.cleanup = ep.cleanup \union {r} /\ ep'.status = ep.status
      /\ ep'.gen = [ep.gen EXCEPT ![r] = @ + 1]
      /\ ep.gen \in [Regions -> Nat] /\ ep.status \in [Regions -> Statuses]
  BY <1>1 DEF Inv, TypeOK
<1>3. ASSUME NEW q \in Regions, q # r PROVE SameFor(ep, ep', q)
  BY <1>2, <1>3 DEF SameFor
<1>4. RegionTidy(ep', obj[r], r) /\ ~Terminal(ep', r)
  <2>1. RegionTidy(ep, obj[r], r)
    BY DEF Tidy
  <2>2. ep'.gen[r] = ep.gen[r] + 1 /\ ep.gen[r] \in Nat /\ ep.status[r].gen \in Nat
    BY <1>2 DEF Statuses
  <2>3. ep.state # "deleted"
    BY <1>1 DEF Live
  <2>4. ~Terminal(ep', r)
    BY <1>1, <1>2, <2>1, <2>2, <2>3 DEF RegionTidy, Terminal
  <2> QED BY <1>1, <1>2, <2>1, <2>2, <2>4 DEF RegionTidy
<1>5. RecordTidy(ep') /\ ep'.state # "absent"
  BY <1>1, <1>2 DEF RecordTidy, Live
<1> QED BY <1>1, <1>2, <1>3, <1>4, <1>5, Changing

LEMMA ClientTidy ==
  ASSUME Inv, Tidy(ep, lease, obj, mon), Client
  PROVE  Tidy(ep', lease', obj', mon')
<1>1. CASE \E targets \in SUBSET Regions : Deploy(targets)
  BY <1>1, DeployTidy
<1>2. CASE StopEndpoint \/ StartEndpoint \/ UpdateSpec
  <2>1. {"stopped", "running", "deploying"} \subseteq Live
    BY DEF Live
  <2> QED BY <1>2, <2>1, ChangeTidy DEF StopEndpoint, StartEndpoint, UpdateSpec
<1>3. CASE DeleteEndpoint
  BY <1>3, DeleteEndpointTidy
<1>4. ASSUME NEW r \in Regions, AddRegion(r) PROVE Tidy(ep', lease', obj', mon')
  <2>1. ep.targets \union {r} \in SUBSET Regions /\ (ep.targets \union {r}) \ {r} = ep.targets \ {r}
    BY DEF Inv, TypeOK
  <2> QED BY <1>4, <2>1, MoveTidy DEF AddRegion
<1>5. ASSUME NEW r \in Regions, RemoveRegion(r) PROVE Tidy(ep', lease', obj', mon')
  <2>1. ep.targets \ {r} \in SUBSET Regions /\ (ep.targets \ {r}) \ {r} = ep.targets \ {r}
    BY DEF Inv, TypeOK
  <2> QED BY <1>5, <2>1, MoveTidy DEF RemoveRegion
<1> QED BY <1>1, <1>2, <1>3, <1>4, <1>5 DEF Client

(* Only a lapse in the middle of a pass is an overrun. *)
LEMMA Overruns ==
  ASSUME Inv, [Next]_vars, overruns' = 0
  PROVE  overruns = 0
<1>1. overruns \in Nat
  BY DEF Inv, TypeOK
<1>2. UNCHANGED vars => overruns' = overruns
  BY DEF vars
<1>3. Client => overruns' = overruns
  BY DEF Client, Deploy, StopEndpoint, StartEndpoint, UpdateSpec, DeleteEndpoint, Change,
         AddRegion, RemoveRegion, Move, bounds
<1>4. ASSUME NEW m \in Monitors, Acquire(m) \/ Step(m) \/ Crash(m) PROVE overruns' = overruns
  BY <1>4 DEF Acquire, Step, Crash, List, ReadObject, ClaimObject, DeleteObject, HandOff,
              CreateObject, ConfirmCreated, UndoCreate, Observe, Report, Note, WriteStatus,
              Promote, Purge, Faulted, bounds
<1>5. ASSUME NEW r \in Regions, Lapse(r) \/ Collect(r)
      PROVE  overruns' = overruns \/ overruns' = overruns + 1
  BY <1>5 DEF Lapse, Collect, Faulted, bounds
<1> QED BY <1>1, <1>2, <1>3, <1>4, <1>5 DEF Next

LEMMA InitTidy == Init => TidyInv
<1> SUFFICES ASSUME Init PROVE Tidy(ep, lease, obj, mon)
  BY DEF TidyInv
<1>1. ep.state = "absent" /\ ep.cleanup = {}
  BY NoRecordTyped DEF Init
<1>2. ASSUME NEW r \in Regions PROVE RegionTidy(ep, obj[r], r)
  BY <1>1 DEF Init, NoObject, RegionTidy, Live
<1>3. ASSUME NEW m \in Monitors
      PROVE  PassTidy(ep, lease[RegionOf[m]], obj[RegionOf[m]], mon[m], m)
  BY AtRest DEF Init, NoPass
<1> QED BY <1>1, <1>2, <1>3 DEF Tidy, RecordTidy

LEMMA StepTidy ==
  ASSUME Inv, Tidy(ep, lease, obj, mon), NEW m \in Monitors, Step(m)
  PROVE  Tidy(ep', lease', obj', mon')
<1>1. CASE \/ ReadObject(m) \/ ClaimObject(m) \/ DeleteObject(m) \/ HandOff(m)
           \/ CreateObject(m) \/ ConfirmCreated(m) \/ UndoCreate(m)
  <2>1. /\ UNCHANGED <<ep, lease>>
        /\ mon[m].pc \in {"read", "claim", "delete", "handoff", "create", "confirm", "undo"}
    BY <1>1 DEF ReadObject, ClaimObject, DeleteObject, HandOff, CreateObject, ConfirmCreated,
                UndoCreate
  <2>2. mon[m].duty # "none" /\ ~mon[m].complete
    BY <2>1 DEF Tidy, PassTidy
  <2>3. Works(m)
    BY <1>1, <2>2, ReadWorks, ClaimWorks, DeleteWorks, HandOffWorks, CreateWorks
  <2> QED BY <2>1, <2>2, <2>3, WorksTidy
<1>2. CASE List(m) \/ Observe(m) \/ Report(m) \/ Note(m) \/ Promote(m) \/ Purge(m)
  BY <1>2, ListTidy, StatusTidy, PromoteTidy, PurgeTidy
<1> QED BY <1>1, <1>2 DEF Step

LEMMA NextTidy == Inv /\ TidyInv /\ [Next]_vars => TidyInv'
<1> SUFFICES ASSUME Inv, TidyInv, [Next]_vars, overruns' = 0
             PROVE  Tidy(ep', lease', obj', mon')
  BY DEF TidyInv
<1>1. overruns = 0 /\ Tidy(ep, lease, obj, mon)
  BY Overruns DEF TidyInv
<1>2. CASE UNCHANGED vars
  BY <1>1, <1>2 DEF vars
<1>3. CASE Client
  BY <1>1, <1>3, ClientTidy
<1>4. ASSUME NEW m \in Monitors, Acquire(m) \/ Step(m) \/ Crash(m)
      PROVE  Tidy(ep', lease', obj', mon')
  BY <1>1, <1>4, AcquireTidy, StepTidy, CrashTidy
<1>5. ASSUME NEW r \in Regions, Lapse(r) \/ Collect(r) PROVE Tidy(ep', lease', obj', mon')
  BY <1>1, <1>5, LapseTidy, CollectTidy
<1> QED BY <1>2, <1>3, <1>4, <1>5 DEF Next

LEMMA AlwaysTidy == Spec => []TidyInv
<1>1. Init => Inv /\ TidyInv
  BY InitInv, InitTidy
<1>2. (Inv /\ TidyInv) /\ [Next]_vars => (Inv /\ TidyInv)'
  BY NextInv, NextTidy
<1> QED BY <1>1, <1>2, PTL DEF Spec

(* Nothing of an endpoint is left behind: unless a lease lapsed in the     *)
(* middle of a pass, whatever a cluster has is of the record's present     *)
(* life and in a region that its deletion will reach.                      *)
THEOREM DeletionReachesAll == Spec => []NothingLeftBehind
<1>1. TidyInv => NothingLeftBehind
  BY DEF TidyInv, Tidy, RecordTidy, RegionTidy, NothingLeftBehind
<1> QED BY <1>1, AlwaysTidy, PTL

(* A terminal acknowledgement is true and stays true: the region has       *)
(* nothing, also when it was removed, added and removed again.             *)
THEOREM AcksAreTrue == Spec => []AckedIsEmpty
<1>1. TidyInv => AckedIsEmpty
  BY DEF TidyInv, Tidy, RegionTidy, AckedIsEmpty
<1> QED BY <1>1, AlwaysTidy, PTL
=============================================================================

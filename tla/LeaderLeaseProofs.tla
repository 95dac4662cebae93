-------------------------- MODULE LeaderLeaseProofs --------------------------
(***************************************************************************)
(* The election keeps at most one leader, for any set of replicas and any  *)
(* number of faults and overruns; the webhook dispatcher, whatever its     *)
(* duty does in between, is a client of that election; and what it         *)
(* delivers are transitions that happened, each once.                      *)
(***************************************************************************)
EXTENDS WebhookDispatcher, SequenceTheorems, TLAPS

(* What a live term and a read that is still fresh say about the Lease.    *)
TermBacked ==
  \A p \in Replicas : term[p] = "live" => lease.live /\ lease.holder = p
ReadBacked ==
  \A p \in Replicas :
    call[p] = "fresh" => lease.holder \in {p, NoReplica} \/ ~lease.live

LeaseInv == LeaseTypeOK /\ TermBacked /\ ReadBacked

-----------------------------------------------------------------------------
LEMMA InitialLease == LeaseInit => LeaseInv
  BY LeaseAssumption DEF LeaseInit, LeaseInv, LeaseTypeOK, TermBacked, ReadBacked, Calls, Terms

(* An answer of False ends p's term, and touches nobody else. *)
LEMMA RefusalKeeps ==
  ASSUME LeaseInv, NEW p \in Replicas, Refuse(p), UNCHANGED <<lease, overruns>>,
         NoFault \/ Fault
  PROVE  LeaseInv'
  BY LeaseAssumption
     DEF LeaseInv, LeaseTypeOK, TermBacked, ReadBacked, Refuse, NoFault, Fault, Calls, Terms

LEMMA LeaseStepKeeps ==
  ASSUME LeaseInv, NEW p \in Replicas, LeaseStep(p)
  PROVE  LeaseInv'
<1>1. CASE ReadLease(p)
  <2>1. CASE Takeable(p) /\ NoFault /\ call' = [call EXCEPT ![p] = "fresh"] /\ UNCHANGED term
    BY <1>1, <2>1
       DEF ReadLease, LeaseInv, LeaseTypeOK, TermBacked, ReadBacked, Takeable, NoFault, Calls
  <2>2. CASE Refuse(p) /\ (NoFault \/ Fault)
    BY <1>1, <2>2, RefusalKeeps DEF ReadLease
  <2> QED BY <1>1, <2>1, <2>2 DEF ReadLease
<1>2. CASE ReplaceLease(p)
  <2>1. CASE Written(p) /\ NoFault
    BY <1>2, <2>1, LeaseAssumption
       DEF ReplaceLease, Written, LeaseInv, LeaseTypeOK, TermBacked, ReadBacked, NoFault,
           Calls, Terms
  <2>2. CASE WrittenUnknown(p) /\ Fault
    BY <1>2, <2>2, LeaseAssumption
       DEF ReplaceLease, WrittenUnknown, LeaseInv, LeaseTypeOK, TermBacked, ReadBacked, Fault,
           Calls, Terms
  <2>3. CASE Refuse(p) /\ UNCHANGED lease /\ (NoFault \/ Fault)
    BY <1>2, <2>3, RefusalKeeps DEF ReplaceLease
  <2> QED BY <1>2, <2>1, <2>2, <2>3 DEF ReplaceLease
<1>3. CASE LeaveElection(p)
  BY <1>3, LeaseAssumption
     DEF LeaveElection, Fault, LeaseInv, LeaseTypeOK, TermBacked, ReadBacked, Calls, Terms
<1>4. CASE Answered(p) /\ (NoFault \/ Fault)
  BY <1>4, LeaseAssumption
     DEF Answered, NoFault, Fault, LeaseInv, LeaseTypeOK, TermBacked, ReadBacked, Calls
<1> QED BY <1>1, <1>2, <1>3, <1>4 DEF LeaseStep

LEMMA LeaseNextKeeps == LeaseInv /\ [LeaseNext]_leaseVars => LeaseInv'
<1> SUFFICES ASSUME LeaseInv, [LeaseNext]_leaseVars PROVE LeaseInv'
  OBVIOUS
<1>1. CASE LeaseRunsOut
  <2>1. lease' = [lease EXCEPT !.live = FALSE] /\ ~lease'.live
    BY <1>1 DEF LeaseRunsOut, LeaseInv, LeaseTypeOK
  <2>2. \A p \in Replicas : term'[p] \in Terms /\ term'[p] # "live"
    BY <1>1 DEF LeaseRunsOut, LeaseInv, LeaseTypeOK, TermBacked, Terms
  <2>3. overruns' \in Nat
    BY <1>1 DEF LeaseRunsOut, LeaseInv, LeaseTypeOK
  <2>4. LeaseTypeOK'
    BY <1>1, <2>1, <2>2, <2>3 DEF LeaseRunsOut, LeaseInv, LeaseTypeOK
  <2> QED BY <2>1, <2>2, <2>4 DEF LeaseInv, TermBacked, ReadBacked
<1>2. CASE \E p \in Replicas : LeaseStep(p)
  BY <1>2, LeaseStepKeeps
<1>3. CASE Fault /\ UNCHANGED <<lease, call, term, overruns>>
  BY <1>3, LeaseAssumption DEF Fault, LeaseInv, LeaseTypeOK, TermBacked, ReadBacked
<1>4. CASE UNCHANGED leaseVars
  BY <1>4 DEF leaseVars, LeaseInv, LeaseTypeOK, TermBacked, ReadBacked
<1> QED BY <1>1, <1>2, <1>3, <1>4 DEF LeaseNext

(* A live term names the holder of the Lease, and the Lease has one.       *)
LEMMA BackedTermsAgree == LeaseInv => OneLeader
  BY DEF LeaseInv, TermBacked, OneLeader

(* At most one replica at a time holds an unexpired True answer of         *)
(* try_acquire_lease, for any replicas, faults and overruns.               *)
THEOREM ElectsOneLeader == LeaseSpec => []OneLeader
  BY InitialLease, LeaseNextKeeps, BackedTermsAgree, PTL DEF LeaseSpec
-----------------------------------------------------------------------------
LEMMA DispatcherStepsElect == [Next]_vars => [LeaseNext]_leaseVars
<1> SUFFICES ASSUME [Next]_vars PROVE [LeaseNext]_leaseVars
  OBVIOUS
<1>1. CASE TimePasses
  BY <1>1 DEF TimePasses, LeaseNext
<1>2. ASSUME NEW p \in Replicas, Step(p) \/ Crash(p)
      PROVE  [LeaseNext]_leaseVars
  <2>1. CASE CallLease(p)
    BY <2>1 DEF CallLease, LeaseNext, LeaseStep
  <2>2. CASE AcquireLeadership(p)
    <3>1. Answered(p) /\ (NoFault \/ Fault)
      BY <2>2 DEF AcquireLeadership, Lead
    <3> QED BY <3>1 DEF LeaseNext, LeaseStep
  <2>3. CASE CloseWatch(p)
    BY <2>3 DEF CloseWatch, LeaseNext, leaseVars, NoFault
  <2>4. CASE ProcessEvent(p)
    <3>1. (NoFault \/ Fault) /\ UNCHANGED <<lease, call, term, overruns>>
      BY <2>4 DEF ProcessEvent
    <3> QED BY <3>1 DEF LeaseNext, leaseVars, NoFault
  <2>5. CASE Crash(p)
    BY <2>5 DEF Crash, LeaseNext, LeaseStep
  <2>6. CASE OpenWatch(p) \/ Restart(p)
    BY <2>6 DEF OpenWatch, Restart
  <2> QED BY <1>2, <2>1, <2>2, <2>3, <2>4, <2>5, <2>6 DEF Step
<1>3. ASSUME NEW j \in Jobs, JobDeleted(j) \/ \E status \in Computed : JobChanges(j, status)
      PROVE  UNCHANGED leaseVars
  BY <1>3 DEF JobDeleted, JobChanges
<1>4. CASE UNCHANGED vars
  BY <1>4 DEF vars
<1> QED BY <1>1, <1>2, <1>3, <1>4 DEF Next

(* The dispatcher implements the election: watching, delivering, crashing  *)
(* and failing never touch the Lease except as try_acquire_lease does.     *)
THEOREM DispatcherElects == Spec => LeaseSpec
  BY DispatcherStepsElect, PTL DEF Spec, Init, LeaseSpec

(* So no two dispatchers hold a live term at once. *)
THEOREM OneDeliverer == Spec => []OneLeader
  BY ElectsOneLeader, DispatcherElects, PTL
-----------------------------------------------------------------------------
(* Deliveries *)

Views == Computed \union {"unknown"}
Remembers(e) == IF e.status = "deleted" THEN "unknown" ELSE e.status

(* What a replica that remembers v of the Job j and has the events e       *)
(* before it will remember after each of them, and how many turns of the   *)
(* kind k there were by then, the c it announced among them; o is the Job  *)
(* as it is now.                                                           *)
Replay(view, made, c, v, e, j, k, o) ==
  /\ view[0] = v /\ c <= made[0]
  /\ \A i \in 1..Len(e) : view[i] = IF e[i].job = j THEN Remembers(e[i]) ELSE view[i - 1]
  /\ \A i1, i2 \in 0..Len(e) : i1 <= i2 =>
       /\ made[i1] <= made[i2]
       /\ k \in KindOf(view[i2]) /\ view[i1] # view[i2] => made[i1] < made[i2]
  /\ \A i \in 0..Len(e) :
       /\ made[i] <= o.turns[k]
       /\ k \in KindOf(o.status) /\ view[i] # o.status => made[i] < o.turns[k]

(* Neither the events a replica has yet to process nor the Job as it is    *)
(* now can take its announcements beyond the turns there were.             *)
Ledger(c, v, e, j, k, o) ==
  \E view \in [0..Len(e) -> Views], made \in [0..Len(e) -> Nat] :
    Replay(view, made, c, v, e, j, k, o)

Counted == \A j \in Jobs : \A k \in KindOf(job[j].status) : job[j].turns[k] > 0

Quiet ==
  \A p \in Replicas :
    /\ rep[p].pc \in {"down", "elect", "watch"} => rep[p].events = <<>>
    /\ rep[p].pc = "process" => rep[p].events # <<>>

OwnLedger ==
  \A p \in Replicas, j \in Jobs, k \in Kinds :
    Ledger(rep[p].sent[j][k], rep[p].cache[j], rep[p].events, j, k, job[j])

(* As long as no lease ran out under a leader, whoever is about the duty,  *)
(* or believes to be the leader and was not refused, holds the Lease.      *)
Elected ==
  /\ overruns = 0 => \A p \in Replicas :
       /\ term[p] # "over"
       /\ call[p] = "yes" => term[p] = "live"
       /\ rep[p].leader /\ call[p] # "no" => term[p] = "live"
  /\ \A p \in Replicas :
       /\ rep[p].pc \in {"watch", "watching", "process"} => rep[p].leader
       /\ rep[p].pc # "elect" => call[p] = "none"
       /\ rep[p].pc = "down" => ~rep[p].leader

TeamLedger ==
  overruns = 0 /\ ~blind =>
    \A j \in Jobs, k \in Kinds :
      /\ posted[j][k] <= job[j].turns[k]
      /\ \A p \in Replicas :
           rep[p].leader /\ term[p] = "live" =>
             Ledger(posted[j][k], rep[p].cache[j], rep[p].events, j, k, job[j])

HookInv == Counted /\ Quiet /\ OwnLedger /\ Elected /\ TeamLedger
-----------------------------------------------------------------------------
(* Types *)

JobType == [status: Computed \union {"absent", "deleted"}, turns: [Kinds -> 0..MaxTurns]]
RepType ==
  [pc: Pcs, leader: BOOLEAN, cache: [Jobs -> Computed \union {"unknown"}],
   events: Seq(Events), sent: [Jobs -> [Kinds -> Nat]]]

LEMMA HookTypes ==
  TypeOK <=> /\ LeaseTypeOK
             /\ job \in [Jobs -> JobType]
             /\ rep \in [Replicas -> RepType]
             /\ posted \in [Jobs -> [Kinds -> Nat]]
             /\ blind \in BOOLEAN
  BY Zenon DEF TypeOK, JobType, RepType

LEMMA NextHookTypes ==
  TypeOK' <=> /\ LeaseTypeOK'
              /\ job' \in [Jobs -> JobType]
              /\ rep' \in [Replicas -> RepType]
              /\ posted' \in [Jobs -> [Kinds -> Nat]]
              /\ blind' \in BOOLEAN
  BY Zenon DEF TypeOK, JobType, RepType

LEMMA HookFields ==
  ASSUME TypeOK
  PROVE  /\ \A j \in Jobs :
              /\ job[j].status \in Computed \union {"absent", "deleted"}
              /\ job[j].turns \in [Kinds -> 0..MaxTurns]
              /\ \A k \in Kinds : job[j].turns[k] \in Nat
         /\ \A p \in Replicas :
              /\ rep[p] \in RepType
              /\ rep[p].pc \in Pcs /\ rep[p].leader \in BOOLEAN
              /\ rep[p].cache \in [Jobs -> Views] /\ rep[p].events \in Seq(Events)
              /\ rep[p].sent \in [Jobs -> [Kinds -> Nat]]
         /\ \A j \in Jobs, k \in Kinds : posted[j][k] \in Nat
<1>1. job \in [Jobs -> JobType] /\ rep \in [Replicas -> RepType] /\ posted \in [Jobs -> [Kinds -> Nat]]
  BY HookTypes
<1>2. ASSUME NEW j \in Jobs
      PROVE  /\ job[j].status \in Computed \union {"absent", "deleted"}
             /\ job[j].turns \in [Kinds -> 0..MaxTurns]
  BY <1>1 DEF JobType
<1>3. ASSUME NEW p \in Replicas
      PROVE  /\ rep[p] \in RepType
             /\ rep[p].pc \in Pcs /\ rep[p].leader \in BOOLEAN
             /\ rep[p].cache \in [Jobs -> Views] /\ rep[p].events \in Seq(Events)
             /\ rep[p].sent \in [Jobs -> [Kinds -> Nat]]
  BY <1>1 DEF RepType, Views
<1>4. \A j \in Jobs, k \in Kinds : job[j].turns[k] \in Nat /\ posted[j][k] \in Nat
  BY <1>1, <1>2, WatchAssumption
<1> QED BY <1>2, <1>3, <1>4

-----------------------------------------------------------------------------
(* The ledger *)

(* What is announced of a status is a turn of its kind, and it is not      *)
(* announced again to one who remembers it.                                *)
LEMMA Determined ==
  /\ \A v, status : DetermineEvent(v, status) \subseteq KindOf(status)
  /\ \A status : DetermineEvent(status, status) = {}
  /\ \A v : DetermineEvent(v, "deleted") = {} /\ DetermineEvent(v, "absent") = {}
  /\ \A status : KindOf(status) \subseteq Kinds
  BY DEF DetermineEvent, KindOf, Kinds

LEMMA EventFields ==
  ASSUME NEW e \in Seq(Events)
  PROVE  /\ Len(e) \in Nat
         /\ \A i \in 1..Len(e) : /\ e[i].job \in Jobs /\ e[i].status \in Computed \union {"deleted"}
                                 /\ Remembers(e[i]) \in Views
<1>1. \A i \in 1..Len(e) : e[i] \in Events
  OBVIOUS
<1> QED BY <1>1 DEF Events, Remembers, Views

(* A ledger bounds what was announced, whatever becomes of the events. *)
LEMMA LedgerBounds ==
  ASSUME NEW c \in Nat, NEW v, NEW e \in Seq(Events), NEW j \in Jobs, NEW k \in Kinds,
         NEW o, o.turns[k] \in Nat, Ledger(c, v, e, j, k, o)
  PROVE  /\ c <= o.turns[k]
         /\ k \in KindOf(o.status) /\ v # o.status => c < o.turns[k]
<1>1. PICK view \in [0..Len(e) -> Views], made \in [0..Len(e) -> Nat] :
        Replay(view, made, c, v, e, j, k, o)
  BY DEF Ledger
<1>2. 0 \in 0..Len(e)
  BY EventFields
<1>3. /\ c <= made[0] /\ made[0] <= o.turns[k] /\ made[0] \in Nat
      /\ k \in KindOf(o.status) /\ v # o.status => made[0] < o.turns[k]
  BY <1>1, <1>2 DEF Replay
<1> QED BY <1>3

LEMMA LedgerOfNone ==
  ASSUME NEW c \in Nat, NEW v \in Views, NEW j \in Jobs, NEW k \in Kinds, NEW o,
         c <= o.turns[k], k \in KindOf(o.status) /\ v # o.status => c < o.turns[k]
  PROVE  Ledger(c, v, <<>>, j, k, o)
<1> DEFINE view == [i \in 0..0 |-> v]
           made == [i \in 0..0 |-> c]
<1>1. /\ view \in [0..0 -> Views] /\ made \in [0..0 -> Nat] /\ view[0] = v /\ made[0] = c
      /\ \A i \in 0..0 : i = 0
  OBVIOUS
<1>2. Len(<<>>) = 0
  OBVIOUS
<1> HIDE DEF view, made
<1>3. Replay(view, made, c, v, <<>>, j, k, o)
  BY <1>1, <1>2 DEF Replay
<1> QED BY <1>1, <1>2, <1>3 DEF Ledger

(* The events are lost. *)
LEMMA LedgerLost ==
  ASSUME NEW c \in Nat, NEW v \in Views, NEW e \in Seq(Events), NEW j \in Jobs, NEW k \in Kinds,
         NEW o, o.turns[k] \in Nat, Ledger(c, v, e, j, k, o)
  PROVE  Ledger(c, v, <<>>, j, k, o)
  BY LedgerBounds, LedgerOfNone

(* The Job changes, and the replica does not see it. *)
LEMMA LedgerUnseen ==
  ASSUME NEW c \in Nat, NEW v, NEW e \in Seq(Events), NEW j \in Jobs, NEW k \in Kinds,
         NEW o, NEW n, o.turns[k] \in Nat, n.turns[k] \in Nat, Ledger(c, v, e, j, k, o),
         n.turns[k] >= o.turns[k], k \in KindOf(n.status) => n.turns[k] > o.turns[k]
  PROVE  Ledger(c, v, e, j, k, n)
<1>1. PICK view \in [0..Len(e) -> Views], made \in [0..Len(e) -> Nat] :
        Replay(view, made, c, v, e, j, k, o)
  BY DEF Ledger
<1>2. \A i \in 0..Len(e) : made[i] \in Nat /\ made[i] <= o.turns[k]
  BY <1>1 DEF Replay
<1>3. \A i \in 0..Len(e) : /\ made[i] <= n.turns[k]
                           /\ k \in KindOf(n.status) => made[i] < n.turns[k]
  BY <1>2
<1>4. Replay(view, made, c, v, e, j, k, n)
  BY <1>1, <1>3 DEF Replay
<1> QED BY <1>4 DEF Ledger

(* The Job changes or is deleted, and the replica's watch sees it. *)
LEMMA LedgerSeen ==
  ASSUME NEW c \in Nat, NEW v, NEW e \in Seq(Events), NEW j \in Jobs, NEW k \in Kinds,
         NEW o, NEW n, o.turns[k] \in Nat, n.turns[k] \in Nat, Ledger(c, v, e, j, k, o),
         NEW x \in Events, n.turns[k] >= o.turns[k],
         x.job = j => n.status = x.status /\ (k \in KindOf(n.status) => n.turns[k] > o.turns[k]),
         x.job # j => n = o
  PROVE  Ledger(c, v, Append(e, x), j, k, n)
<1>1. PICK view \in [0..Len(e) -> Views], made \in [0..Len(e) -> Nat] :
        Replay(view, made, c, v, e, j, k, o)
  BY DEF Ledger
<1> DEFINE len == Len(e)
           last == IF x.job = j THEN Remembers(x) ELSE view[len]
           total == IF x.job = j THEN n.turns[k] ELSE made[len]
           view2 == [i \in 0..(len + 1) |-> IF i = len + 1 THEN last ELSE view[i]]
           made2 == [i \in 0..(len + 1) |-> IF i = len + 1 THEN total ELSE made[i]]
<1>2. /\ len \in Nat /\ view[len] \in Views /\ \A i \in 0..len : made[i] \in Nat
      /\ \A i \in 0..(len + 1) : i \in 0..len \/ i = len + 1
  BY EventFields
<1>3. last \in Views /\ total \in Nat
  <2>1. Remembers(x) \in Views
    BY DEF Events, Remembers, Views
  <2> QED BY <1>2, <2>1
<1>4. /\ Append(e, x) \in Seq(Events) /\ Len(Append(e, x)) = len + 1
      /\ Append(e, x)[len + 1] = x /\ \A i \in 1..len : Append(e, x)[i] = e[i]
  OBVIOUS
<1>5. view2 \in [0..(len + 1) -> Views] /\ made2 \in [0..(len + 1) -> Nat]
  <2> HIDE DEF last, total
  <2> QED BY <1>2, <1>3
<1>6. /\ \A i \in 0..len : view2[i] = view[i] /\ made2[i] = made[i]
      /\ view2[len + 1] = last /\ made2[len + 1] = total
  <2> HIDE DEF last, total
  <2> QED BY <1>2
<1>7. \A i \in 0..len : /\ made[i] <= o.turns[k]
                        /\ k \in KindOf(o.status) /\ view[i] # o.status => made[i] < o.turns[k]
  BY <1>1 DEF Replay
<1>8. ASSUME NEW i \in 0..len
      PROVE  /\ made[i] <= n.turns[k]
             /\ k \in KindOf(n.status) /\ view[i] # n.status => made[i] < n.turns[k]
  BY <1>2, <1>7
<1>9. \A i \in 0..len : /\ made[i] <= total
                        /\ k \in KindOf(last) /\ view[i] # last => made[i] < total
  <2>1. CASE x.job = j
    <3>1. k \in KindOf(last) => k \in KindOf(n.status) /\ last = n.status
      BY <2>1 DEF Remembers, KindOf
    <3> QED BY <1>8, <2>1, <3>1
  <2>2. CASE x.job # j
    <3>1. len \in 0..len /\ \A i \in 0..len : i <= len
      BY <1>2
    <3> QED BY <1>1, <2>2, <3>1 DEF Replay
  <2> QED BY <2>1, <2>2
<1>10. /\ total <= n.turns[k]
       /\ k \in KindOf(n.status) /\ last # n.status => total < n.turns[k]
  <2>1. CASE x.job = j
    <3>1. k \in KindOf(n.status) => last = n.status
      BY <2>1 DEF Remembers, KindOf
    <3> QED BY <2>1, <3>1
  <2>2. CASE x.job # j
    <3>1. len \in 0..len
      BY <1>2
    <3> QED BY <1>8, <2>2, <3>1
  <2> QED BY <2>1, <2>2
<1>11. Replay(view2, made2, c, v, Append(e, x), j, k, n)
  <2>1. view2[0] = v /\ c <= made2[0]
    <3>1. 0 \in 0..len
      BY <1>2
    <3> QED BY <1>1, <1>6, <3>1 DEF Replay
  <2>2. ASSUME NEW i \in 1..(len + 1)
        PROVE  view2[i] = IF Append(e, x)[i].job = j THEN Remembers(Append(e, x)[i]) ELSE view2[i - 1]
    <3>1. CASE i = len + 1
      <4>1. i - 1 = len /\ view2[len] = view[len]
        BY <1>2, <1>6, <3>1
      <4> HIDE DEF view2, made2
      <4> QED BY <1>4, <1>6, <3>1, <4>1
    <3>2. CASE i # len + 1
      <4>1. i \in 1..len /\ i - 1 \in 0..len /\ i \in 0..len
        BY <1>2, <3>2
      <4>2. view2[i] = view[i] /\ view2[i - 1] = view[i - 1] /\ Append(e, x)[i] = e[i]
        BY <1>4, <1>6, <4>1
      <4> HIDE DEF view2, made2
      <4> QED BY <1>1, <4>1, <4>2 DEF Replay
    <3> QED BY <3>1, <3>2
  <2>3. ASSUME NEW i1 \in 0..(len + 1), NEW i2 \in 0..(len + 1), i1 <= i2
        PROVE  /\ made2[i1] <= made2[i2]
               /\ k \in KindOf(view2[i2]) /\ view2[i1] # view2[i2] => made2[i1] < made2[i2]
    <3>1. CASE i2 \in 0..len
      <4>1. i1 \in 0..len
        BY <1>2, <2>3, <3>1
      <4>2. /\ made[i1] <= made[i2]
            /\ k \in KindOf(view[i2]) /\ view[i1] # view[i2] => made[i1] < made[i2]
        BY <1>1, <2>3, <3>1, <4>1 DEF Replay
      <4> HIDE DEF view2, made2
      <4> QED BY <1>6, <3>1, <4>1, <4>2
    <3>2. CASE i2 = len + 1 /\ i1 \in 0..len
      <4> HIDE DEF view2, made2, total, last
      <4> QED BY <1>6, <1>9, <3>2
    <3>3. CASE i2 = len + 1 /\ i1 = len + 1
      <4> HIDE DEF view2, made2, total, last
      <4> QED BY <1>3, <1>6, <3>3
    <3> QED BY <1>2, <3>1, <3>2, <3>3
  <2>4. ASSUME NEW i \in 0..(len + 1)
        PROVE  /\ made2[i] <= n.turns[k]
               /\ k \in KindOf(n.status) /\ view2[i] # n.status => made2[i] < n.turns[k]
    <3> HIDE DEF view2, made2, total, last
    <3> QED BY <1>2, <1>6, <1>8, <1>10
  <2> HIDE DEF view2, made2, last, total
  <2> QED BY <1>4, <2>1, <2>2, <2>3, <2>4 DEF Replay
<1> HIDE DEF view2, made2
<1> QED BY <1>4, <1>5, <1>11 DEF Ledger

(* A watch starts with what exists. *)
LEMMA LedgerOpens ==
  ASSUME NEW c \in Nat, NEW v \in Views, NEW j \in Jobs, NEW k \in Kinds, NEW o,
         o.turns[k] \in Nat, Ledger(c, v, <<>>, j, k, o),
         NEW e \in Seq(Events), \A i \in 1..Len(e) : e[i].job = j => e[i].status = o.status /\ o.status \in Computed
  PROVE  Ledger(c, v, e, j, k, o)
<1> DEFINE len == Len(e)
           Told(i) == \E i1 \in 1..i : e[i1].job = j
           view == [i \in 0..len |-> IF Told(i) THEN o.status ELSE v]
           made == [i \in 0..len |-> IF Told(i) THEN o.turns[k] ELSE c]
<1>1. len \in Nat
  BY EventFields
<1>2. c <= o.turns[k] /\ (k \in KindOf(o.status) /\ v # o.status => c < o.turns[k])
  <2>1. <<>> \in Seq(Events)
    BY EmptySeq
  <2> QED BY <2>1, LedgerBounds
<1>3. \A i \in 0..len : Told(i) => o.status \in Computed
  BY <1>1
<1>4. view \in [0..len -> Views] /\ made \in [0..len -> Nat]
  <2> HIDE DEF Told
  <2> QED BY <1>3 DEF Views
<1>5. \A i \in 0..len : /\ view[i] = IF Told(i) THEN o.status ELSE v
                        /\ made[i] = IF Told(i) THEN o.turns[k] ELSE c
  <2> HIDE DEF Told
  <2> QED OBVIOUS
<1>6. ~Told(0) /\ \A i1, i2 \in 0..len : i1 <= i2 /\ Told(i1) => Told(i2)
  BY <1>1
<1>7. Replay(view, made, c, v, e, j, k, o)
  <2>1. view[0] = v /\ made[0] = c
    BY <1>1, <1>5, <1>6
  <2>2. ASSUME NEW i \in 1..len
        PROVE  view[i] = IF e[i].job = j THEN Remembers(e[i]) ELSE view[i - 1]
    <3>1. i \in 0..len /\ i - 1 \in 0..len
      BY <1>1
    <3>2. Told(i) <=> Told(i - 1) \/ e[i].job = j
      BY <1>1
    <3>3. e[i].job = j => Remembers(e[i]) = o.status
      BY DEF Remembers, Computed
    <3> HIDE DEF view, made, Told
    <3> QED BY <1>5, <3>1, <3>2, <3>3
  <2>3. ASSUME NEW i1 \in 0..len, NEW i2 \in 0..len, i1 <= i2
        PROVE  /\ made[i1] <= made[i2]
               /\ k \in KindOf(view[i2]) /\ view[i1] # view[i2] => made[i1] < made[i2]
    <3> HIDE DEF view, made, Told
    <3> QED BY <1>2, <1>5, <1>6, <2>3
  <2>4. \A i \in 0..len : /\ made[i] <= o.turns[k]
                          /\ k \in KindOf(o.status) /\ view[i] # o.status => made[i] < o.turns[k]
    <3> HIDE DEF view, made, Told
    <3> QED BY <1>2, <1>5
  <2> HIDE DEF view, made, Told
  <2> QED BY <2>1, <2>2, <2>3, <2>4 DEF Replay
<1> HIDE DEF view, made
<1> QED BY <1>4, <1>7 DEF Ledger

(* The first event is processed: it is announced, if it is worth it, or    *)
(* the announcement fails.                                                 *)
LEMMA LedgerTakes ==
  ASSUME NEW c \in Nat, NEW v \in Views, NEW e \in Seq(Events), NEW j \in Jobs, NEW k \in Kinds,
         NEW o, o.turns[k] \in Nat, Ledger(c, v, e, j, k, o), e # <<>>,
         NEW w, w = IF Head(e).job = j THEN Remembers(Head(e)) ELSE v,
         NEW d \in Nat, d <= c + 1,
         d > c => Head(e).job = j /\ k \in DetermineEvent(v, Head(e).status)
  PROVE  Ledger(d, w, Tail(e), j, k, o)
<1>1. PICK view \in [0..Len(e) -> Views], made \in [0..Len(e) -> Nat] :
        Replay(view, made, c, v, e, j, k, o)
  BY DEF Ledger
<1> DEFINE len == Len(Tail(e))
           view2 == [i \in 0..len |-> view[i + 1]]
           made2 == [i \in 0..len |-> made[i + 1]]
<1>2. /\ Tail(e) \in Seq(Events) /\ len \in Nat /\ Len(e) = len + 1 /\ Head(e) = e[1]
      /\ \A i \in 1..len : Tail(e)[i] = e[i + 1]
  <2>1. Len(e) \in Nat /\ Len(e) # 0
    BY EmptySeq
  <2> QED BY <2>1, HeadTailProperties
<1>3. \A i \in 0..len : i + 1 \in 0..Len(e) /\ view[i + 1] \in Views /\ made[i + 1] \in Nat
  BY <1>2
<1>4. view2 \in [0..len -> Views] /\ made2 \in [0..len -> Nat]
  BY <1>3
<1>5. \A i \in 0..len : view2[i] = view[i + 1] /\ made2[i] = made[i + 1]
  OBVIOUS
<1>6. view[1] = w /\ d <= made[1]
  <2>1. 0 \in 0..Len(e) /\ 1 \in 0..Len(e) /\ 1 \in 1..Len(e) /\ 1 - 1 = 0 /\ 0 <= 1
    BY <1>2
  <2>2. /\ view[0] = v /\ c <= made[0] /\ made[0] \in Nat /\ made[1] \in Nat
        /\ view[1] = (IF e[1].job = j THEN Remembers(e[1]) ELSE view[0])
        /\ made[0] <= made[1] /\ (k \in KindOf(view[1]) /\ view[0] # view[1] => made[0] < made[1])
    BY <1>1, <2>1 DEF Replay
  <2>3. CASE d <= c
    BY <1>2, <2>2, <2>3
  <2>4. CASE d > c
    <3>1. e[1].job = j /\ k \in DetermineEvent(v, e[1].status)
      BY <1>2, <2>4
    <3>2. Remembers(e[1]) = e[1].status /\ k \in KindOf(e[1].status) /\ v # e[1].status
      BY <3>1, Determined DEF Remembers
    <3> QED BY <1>2, <2>2, <3>1, <3>2
  <2> QED BY <2>3, <2>4
<1>7. Replay(view2, made2, d, w, Tail(e), j, k, o)
  <2>1. view2[0] = w /\ d <= made2[0]
    BY <1>2, <1>5, <1>6
  <2>2. ASSUME NEW i \in 1..len
        PROVE  view2[i] = IF Tail(e)[i].job = j THEN Remembers(Tail(e)[i]) ELSE view2[i - 1]
    <3>1. i + 1 \in 1..Len(e) /\ (i + 1) - 1 = i /\ i \in 0..len /\ i - 1 \in 0..len /\ (i - 1) + 1 = i
      BY <1>2
    <3>2. view[i + 1] = IF e[i + 1].job = j THEN Remembers(e[i + 1]) ELSE view[i]
      BY <1>1, <3>1 DEF Replay
    <3>3. view2[i] = view[i + 1] /\ view2[i - 1] = view[i] /\ Tail(e)[i] = e[i + 1]
      BY <1>2, <1>5, <3>1
    <3> HIDE DEF view2, made2
    <3> QED BY <3>2, <3>3
  <2>3. ASSUME NEW i1 \in 0..len, NEW i2 \in 0..len, i1 <= i2
        PROVE  /\ made2[i1] <= made2[i2]
               /\ k \in KindOf(view2[i2]) /\ view2[i1] # view2[i2] => made2[i1] < made2[i2]
    <3>1. i1 + 1 \in 0..Len(e) /\ i2 + 1 \in 0..Len(e) /\ i1 + 1 <= i2 + 1
      BY <1>2, <2>3
    <3>2. /\ made[i1 + 1] <= made[i2 + 1]
          /\ k \in KindOf(view[i2 + 1]) /\ view[i1 + 1] # view[i2 + 1] => made[i1 + 1] < made[i2 + 1]
      BY <1>1, <3>1 DEF Replay
    <3> HIDE DEF view2, made2
    <3> QED BY <1>5, <3>2
  <2>4. \A i \in 0..len : /\ made2[i] <= o.turns[k]
                          /\ k \in KindOf(o.status) /\ view2[i] # o.status => made2[i] < o.turns[k]
    <3> HIDE DEF view2, made2
    <3> QED BY <1>1, <1>3, <1>5 DEF Replay
  <2> HIDE DEF view2, made2
  <2> QED BY <2>1, <2>2, <2>3, <2>4 DEF Replay
<1> HIDE DEF view2, made2
<1> QED BY <1>4, <1>7 DEF Ledger

-----------------------------------------------------------------------------
(* What each step does to the replica that takes it *)

LEMMA PlaceAt ==
  ASSUME TypeOK, NEW p \in Replicas, NEW pc \in Pcs, At(p, pc)
  PROVE  /\ rep' \in [Replicas -> RepType] /\ \A q \in Replicas \ {p} : rep'[q] = rep[q]
         /\ rep'[p].pc = pc /\ rep'[p].leader = rep[p].leader /\ rep'[p].cache = rep[p].cache
         /\ rep'[p].events = rep[p].events /\ rep'[p].sent = rep[p].sent
<1>1. rep \in [Replicas -> RepType]
  BY HookTypes
<1> QED BY <1>1 DEF At, RepType

LEMMA EventsAt ==
  ASSUME TypeOK, NEW p \in Replicas, NEW pc \in Pcs, NEW e \in Seq(Events),
         rep' = [rep EXCEPT ![p].pc = pc, ![p].events = e]
  PROVE  /\ rep' \in [Replicas -> RepType] /\ \A q \in Replicas \ {p} : rep'[q] = rep[q]
         /\ rep'[p].pc = pc /\ rep'[p].leader = rep[p].leader /\ rep'[p].cache = rep[p].cache
         /\ rep'[p].events = e /\ rep'[p].sent = rep[p].sent
<1>1. rep \in [Replicas -> RepType]
  BY HookTypes
<1> QED BY <1>1 DEF RepType

LEMMA LeadAt ==
  ASSUME TypeOK, NEW p \in Replicas, Lead(p)
  PROVE  /\ rep' \in [Replicas -> RepType] /\ \A q \in Replicas \ {p} : rep'[q] = rep[q]
         /\ rep'[p].pc = "watch" /\ rep'[p].leader
         /\ rep'[p].events = rep[p].events /\ rep'[p].sent = rep[p].sent
         /\ \/ rep[p].leader /\ rep'[p].cache = rep[p].cache /\ UNCHANGED blind
            \/ rep'[p].cache = Listed(rep[p].cache) /\ UNCHANGED blind
            \/ rep'[p].cache = rep[p].cache /\ blind' = TRUE
<1>1. rep \in [Replicas -> RepType] /\ rep[p].cache \in [Jobs -> Views] /\ rep[p].leader \in BOOLEAN
  BY HookTypes, HookFields
<1>2. Listed(rep[p].cache) \in [Jobs -> Computed \union {"unknown"}]
  BY <1>1 DEF Listed, Exists, Views
<1>3. CASE rep[p].leader /\ At(p, "watch") /\ UNCHANGED blind
  BY <1>3, PlaceAt DEF Pcs
<1>4. CASE rep' = [rep EXCEPT ![p].pc = "watch", ![p].leader = TRUE, ![p].cache = Listed(@)] /\ UNCHANGED blind
  <2> DEFINE new == Listed(rep[p].cache)
  <2>1. rep' = [rep EXCEPT ![p].pc = "watch", ![p].leader = TRUE, ![p].cache = new]
    BY <1>1, <1>4 DEF RepType
  <2> HIDE DEF new
  <2>2. new \in [Jobs -> Computed \union {"unknown"}]
    BY <1>2 DEF new
  <2>3. /\ rep' \in [Replicas -> RepType] /\ \A q \in Replicas \ {p} : rep'[q] = rep[q]
        /\ rep'[p].pc = "watch" /\ rep'[p].leader
        /\ rep'[p].events = rep[p].events /\ rep'[p].sent = rep[p].sent /\ rep'[p].cache = new
    BY <1>1, <2>1, <2>2 DEF RepType, Pcs
  <2> QED BY <1>4, <2>3 DEF new
<1>5. CASE rep' = [rep EXCEPT ![p].pc = "watch", ![p].leader = TRUE] /\ blind' = TRUE
  BY <1>1, <1>5 DEF RepType, Pcs
<1> QED BY <1>3, <1>4, <1>5 DEF Lead

LEMMA RefusedAt ==
  ASSUME TypeOK, NEW p \in Replicas, rep' = [rep EXCEPT ![p].leader = FALSE]
  PROVE  /\ rep' \in [Replicas -> RepType] /\ \A q \in Replicas \ {p} : rep'[q] = rep[q]
         /\ rep'[p].pc = rep[p].pc /\ rep'[p].leader = FALSE /\ rep'[p].cache = rep[p].cache
         /\ rep'[p].events = rep[p].events /\ rep'[p].sent = rep[p].sent
<1>1. rep \in [Replicas -> RepType]
  BY HookTypes
<1> QED BY <1>1 DEF RepType

LEMMA CrashAt ==
  ASSUME TypeOK, NEW p \in Replicas, rep' = [rep EXCEPT ![p] = Fresh("down")]
  PROVE  /\ rep' \in [Replicas -> RepType] /\ \A q \in Replicas \ {p} : rep'[q] = rep[q]
         /\ rep'[p] = Fresh("down")
         /\ rep'[p].pc = "down" /\ rep'[p].leader = FALSE /\ rep'[p].events = <<>>
         /\ \A j \in Jobs : rep'[p].cache[j] = "unknown" /\ \A k \in Kinds : rep'[p].sent[j][k] = 0
<1>1. rep \in [Replicas -> RepType]
  BY HookTypes
<1>2. Fresh("down") \in RepType
  BY DEF Fresh, RepType, Pcs, NoTurns
<1>3. rep' \in [Replicas -> RepType] /\ rep'[p] = Fresh("down") /\ \A q \in Replicas \ {p} : rep'[q] = rep[q]
  BY <1>1, <1>2
<1> QED BY <1>3 DEF Fresh, NoTurns

(* What is opened is a batch of the Jobs there are, as they are. *)
LEMMA ListingTyped ==
  ASSUME TypeOK, NEW s \in Listings
  PROVE  LET e == [i \in 1..Len(s) |-> [job |-> s[i], status |-> job[s[i]].status]] IN
         /\ e \in Seq(Events)
         /\ \A i \in 1..Len(e) : e[i].status = job[e[i].job].status /\ e[i].status \in Computed
<1>1. PICK n \in 0..BatchSize : s \in [1..n -> {j \in Jobs : Exists(j)}]
  BY Zenon DEF Listings
<1>2. n \in Nat /\ Len(s) = n
  BY <1>1, WatchAssumption
<1>3. \A i \in 1..n : s[i] \in Jobs /\ job[s[i]].status \in Computed
  BY <1>1 DEF Exists
<1> DEFINE e == [i \in 1..Len(s) |-> [job |-> s[i], status |-> job[s[i]].status]]
<1>4. e \in [1..n -> Events]
  BY <1>2, <1>3 DEF Events
<1>5. e \in Seq(Events) /\ Len(e) = n
  <2> HIDE DEF e
  <2> QED BY <1>2, <1>4
<1>6. \A i \in 1..n : e[i] = [job |-> s[i], status |-> job[s[i]].status]
  BY <1>2
<1>7. \A i \in 1..Len(e) : e[i].status = job[e[i].job].status /\ e[i].status \in Computed
  <2> HIDE DEF e
  <2> QED BY <1>3, <1>5, <1>6
<1> QED BY <1>5, <1>7

LEMMA OpenAt ==
  ASSUME TypeOK, NEW p \in Replicas, OpenWatch(p)
  PROVE  /\ rep' \in [Replicas -> RepType] /\ \A q \in Replicas \ {p} : rep'[q] = rep[q]
         /\ rep'[p].pc = "watching" /\ rep'[p].leader = rep[p].leader
         /\ rep'[p].cache = rep[p].cache /\ rep'[p].sent = rep[p].sent
         /\ rep'[p].events \in Seq(Events)
         /\ \A i \in 1..Len(rep'[p].events) :
              /\ rep'[p].events[i].status = job[rep'[p].events[i].job].status
              /\ rep'[p].events[i].status \in Computed
<1>1. PICK s \in Listings :
        rep' = [rep EXCEPT ![p].pc = "watching",
                  ![p].events = [i \in 1..Len(s) |-> [job |-> s[i], status |-> job[s[i]].status]]]
  BY Zenon DEF OpenWatch
<1> DEFINE e == [i \in 1..Len(s) |-> [job |-> s[i], status |-> job[s[i]].status]]
<1>2. e \in Seq(Events) /\ \A i \in 1..Len(e) : e[i].status = job[e[i].job].status /\ e[i].status \in Computed
  BY ListingTyped
<1>3. rep' = [rep EXCEPT ![p].pc = "watching", ![p].events = e]
  BY <1>1
<1> HIDE DEF e
<1>4. /\ rep' \in [Replicas -> RepType] /\ \A q \in Replicas \ {p} : rep'[q] = rep[q]
      /\ rep'[p].pc = "watching" /\ rep'[p].leader = rep[p].leader
      /\ rep'[p].cache = rep[p].cache /\ rep'[p].sent = rep[p].sent /\ rep'[p].events = e
  BY <1>2, <1>3, EventsAt DEF Pcs
<1> QED BY <1>2, <1>4

LEMMA CloseAt ==
  ASSUME TypeOK, NEW p \in Replicas, CloseWatch(p)
  PROVE  /\ rep' \in [Replicas -> RepType] /\ \A q \in Replicas \ {p} : rep'[q] = rep[q]
         /\ rep'[p].leader = rep[p].leader /\ rep'[p].cache = rep[p].cache /\ rep'[p].sent = rep[p].sent
         /\ \/ rep'[p].pc = "elect" /\ rep'[p].events = <<>>
            \/ rep'[p].pc = "process" /\ rep'[p].events = rep[p].events /\ rep[p].events # <<>>
<1>1. CASE At(p, IF rep[p].events = <<>> THEN "elect" ELSE "process")
  <2>1. (IF rep[p].events = <<>> THEN "elect" ELSE "process") \in Pcs
    BY DEF Pcs
  <2> QED BY <1>1, <2>1, PlaceAt
<1>2. CASE rep' = [rep EXCEPT ![p].pc = "elect", ![p].events = <<>>]
  <2>1. rep \in [Replicas -> RepType] /\ <<>> \in Seq(Events)
    BY HookTypes, EmptySeq
  <2> QED BY <1>2, <2>1 DEF RepType, Pcs
<1> QED BY <1>1, <1>2 DEF CloseWatch

LEMMA ProcessAt ==
  ASSUME TypeOK, NEW p \in Replicas, ProcessEvent(p), rep[p].events # <<>>
  PROVE  LET e == Head(rep[p].events)
             kinds == IF e.status = "deleted" THEN {} ELSE DetermineEvent(rep[p].cache[e.job], e.status)
         IN  /\ e \in Events /\ Tail(rep[p].events) \in Seq(Events)
             /\ rep' \in [Replicas -> RepType] /\ \A q \in Replicas \ {p} : rep'[q] = rep[q]
             /\ rep'[p].pc = (IF Tail(rep[p].events) = <<>> THEN "elect" ELSE "process")
             /\ rep'[p].leader = rep[p].leader /\ rep'[p].events = Tail(rep[p].events)
             /\ rep'[p].cache = [rep[p].cache EXCEPT ![e.job] = Remembers(e)]
             /\ posted' \in [Jobs -> [Kinds -> Nat]]
             /\ \/ /\ \A j \in Jobs, k \in Kinds :
                        /\ rep'[p].sent[j][k] = rep[p].sent[j][k] + (IF j = e.job /\ k \in kinds THEN 1 ELSE 0)
                        /\ posted'[j][k] = posted[j][k] + (IF j = e.job /\ k \in kinds THEN 1 ELSE 0)
                \/ rep'[p].sent = rep[p].sent /\ posted' = posted
<1> DEFINE e == Head(rep[p].events)
           rest == Tail(rep[p].events)
           kinds == IF e.status = "deleted" THEN {} ELSE DetermineEvent(rep[p].cache[e.job], e.status)
           Count(counts) == [k \in Kinds |-> IF k \in kinds THEN counts[k] + 1 ELSE counts[k]]
           pc == IF rest = <<>> THEN "elect" ELSE "process"
           seen == IF e.status = "deleted" THEN "unknown" ELSE e.status
           cache == [rep[p].cache EXCEPT ![e.job] = seen]
           sent == [rep[p].sent EXCEPT ![e.job] = Count(rep[p].sent[e.job])]
           next == [rep[p] EXCEPT !.events = rest, !.cache[e.job] = seen, !.pc = pc]
<1>1. /\ rep \in [Replicas -> RepType] /\ rep[p] \in RepType /\ rep[p].events \in Seq(Events)
      /\ rep[p].cache \in [Jobs -> Views] /\ rep[p].sent \in [Jobs -> [Kinds -> Nat]]
      /\ posted \in [Jobs -> [Kinds -> Nat]]
  BY HookTypes, HookFields
<1>2. e \in Events /\ rest \in Seq(Events) /\ e.job \in Jobs /\ e.status \in Computed \union {"deleted"}
  <2>1. e \in Events /\ rest \in Seq(Events)
    BY <1>1, HeadTailProperties
  <2> HIDE DEF e
  <2> QED BY <2>1 DEF Events
<1>3. seen = Remembers(e) /\ seen \in Views /\ cache \in [Jobs -> Views] /\ pc \in Pcs
  <2>1. seen = Remembers(e) /\ pc \in Pcs
    BY DEF Remembers, Pcs
  <2> HIDE DEF e, pc
  <2> QED BY <1>1, <1>2, <2>1 DEF Views
<1>4. ASSUME NEW f \in [Jobs -> [Kinds -> Nat]]
      PROVE  /\ [f EXCEPT ![e.job] = Count(f[e.job])] \in [Jobs -> [Kinds -> Nat]]
             /\ \A j \in Jobs, k \in Kinds :
                  [f EXCEPT ![e.job] = Count(f[e.job])][j][k] = f[j][k] + (IF j = e.job /\ k \in kinds THEN 1 ELSE 0)
  <2> HIDE DEF e, kinds
  <2>1. f[e.job] \in [Kinds -> Nat]
    BY <1>2
  <2>2. Count(f[e.job]) \in [Kinds -> Nat]
    BY <2>1
  <2>3. \A k \in Kinds : Count(f[e.job])[k] = f[e.job][k] + (IF k \in kinds THEN 1 ELSE 0)
    BY <2>1
  <2> HIDE DEF Count
  <2> QED BY <1>2, <2>1, <2>2, <2>3
<1>5. next = [rep[p] EXCEPT !.events = rest, !.cache = cache, !.pc = pc]
  BY <1>1 DEF RepType
<1>6. sent \in [Jobs -> [Kinds -> Nat]]
  BY <1>1, <1>4
<1> HIDE DEF cache, sent, pc, rest
<1>7. /\ next \in RepType /\ next.pc = pc /\ next.leader = rep[p].leader /\ next.events = rest
      /\ next.cache = cache /\ next.sent = rep[p].sent
  BY <1>1, <1>2, <1>3, <1>5 DEF RepType, Views
<1> HIDE DEF next
<1>8. CASE /\ rep' = [rep EXCEPT ![p] = [next EXCEPT !.sent[e.job] = Count(@)]]
           /\ posted' = [posted EXCEPT ![e.job] = Count(@)]
  <2> DEFINE done == [next EXCEPT !.sent = sent]
  <2>1. [next EXCEPT !.sent[e.job] = Count(@)] = done
    BY <1>1, <1>2, <1>7 DEF RepType, sent
  <2>2. /\ done \in RepType /\ done.pc = pc /\ done.leader = rep[p].leader /\ done.events = rest
        /\ done.cache = cache /\ done.sent = sent
    BY <1>6, <1>7 DEF RepType
  <2>3. posted' = [posted EXCEPT ![e.job] = Count(posted[e.job])]
    BY <1>1, <1>2, <1>8
  <2>4. posted' \in [Jobs -> [Kinds -> Nat]] /\ \A j \in Jobs, k \in Kinds :
          posted'[j][k] = posted[j][k] + (IF j = e.job /\ k \in kinds THEN 1 ELSE 0)
    BY <1>1, <1>4, <2>3
  <2>5. \A j \in Jobs, k \in Kinds :
          sent[j][k] = rep[p].sent[j][k] + (IF j = e.job /\ k \in kinds THEN 1 ELSE 0)
    BY <1>1, <1>4 DEF sent
  <2>6. rep' = [rep EXCEPT ![p] = done]
    BY <1>8, <2>1
  <2> HIDE DEF done, e, kinds
  <2>7. rep' \in [Replicas -> RepType] /\ rep'[p] = done /\ \A q \in Replicas \ {p} : rep'[q] = rep[q]
    BY <1>1, <2>2, <2>6
  <2> QED BY <1>2, <1>3, <2>2, <2>4, <2>5, <2>7 DEF cache, rest, pc, e, kinds
<1>9. CASE rep' = [rep EXCEPT ![p] = next] /\ UNCHANGED posted
  <2> HIDE DEF e, kinds
  <2>1. rep' \in [Replicas -> RepType] /\ rep'[p] = next /\ \A q \in Replicas \ {p} : rep'[q] = rep[q]
    BY <1>1, <1>7, <1>9
  <2> QED BY <1>1, <1>2, <1>3, <1>7, <1>9, <2>1 DEF cache, rest, pc, e, kinds
<1> QED BY <1>8, <1>9 DEF ProcessEvent, next, rest, pc, seen
-----------------------------------------------------------------------------
(* The cluster's changes *)

LEMMA NotifyAt ==
  ASSUME TypeOK, NEW j \in Jobs, NEW status \in Computed \union {"deleted"}, Notify(j, status)
  PROVE  /\ rep' \in [Replicas -> RepType]
         /\ \A p \in Replicas :
              /\ rep'[p].pc = rep[p].pc /\ rep'[p].leader = rep[p].leader
              /\ rep'[p].cache = rep[p].cache /\ rep'[p].sent = rep[p].sent
              /\ \/ rep'[p].events = rep[p].events
                 \/ /\ rep[p].pc = "watching"
                    /\ rep'[p].events = Append(rep[p].events, [job |-> j, status |-> status])
<1>1. rep \in [Replicas -> RepType]
  BY HookTypes
<1>2. [job |-> j, status |-> status] \in Events
  BY DEF Events
<1>3. ASSUME NEW p \in Replicas
      PROVE  /\ rep'[p] \in RepType
             /\ rep'[p].pc = rep[p].pc /\ rep'[p].leader = rep[p].leader
             /\ rep'[p].cache = rep[p].cache /\ rep'[p].sent = rep[p].sent
             /\ \/ rep'[p].events = rep[p].events
                \/ /\ rep[p].pc = "watching"
                   /\ rep'[p].events = Append(rep[p].events, [job |-> j, status |-> status])
  <2> DEFINE new == Append(rep[p].events, [job |-> j, status |-> status])
  <2>1. rep[p] \in RepType /\ rep[p].events \in Seq(Events)
    BY HookFields
  <2>2. new \in Seq(Events)
    BY <1>2, <2>1
  <2>3. rep'[p] = IF rep[p].pc = "watching" /\ Len(rep[p].events) < BatchSize
                    THEN [rep[p] EXCEPT !.events = new] ELSE rep[p]
    BY <2>1 DEF Notify, RepType
  <2> HIDE DEF new
  <2>4. [rep[p] EXCEPT !.events = new] \in RepType
    BY <2>1, <2>2 DEF RepType
  <2>5. CASE rep'[p] = rep[p]
    BY <2>1, <2>5
  <2>6. CASE rep[p].pc = "watching" /\ rep'[p] = [rep[p] EXCEPT !.events = new]
    BY <2>1, <2>4, <2>6 DEF RepType, new
  <2> QED BY <2>3, <2>5, <2>6
<1>4. rep' = [p \in Replicas |-> rep'[p]]
  BY Zenon DEF Notify
<1> QED BY <1>3, <1>4

(* A Job's turns only grow, and by one of the kind of what it becomes.     *)
LEMMA JobChangesAt ==
  ASSUME TypeOK, NEW j \in Jobs, NEW status \in Computed, JobChanges(j, status)
  PROVE  /\ job' \in [Jobs -> JobType] /\ \A i \in Jobs \ {j} : job'[i] = job[i]
         /\ job'[j].status = status
         /\ \A k \in Kinds : /\ job'[j].turns[k] \in Nat /\ job'[j].turns[k] >= job[j].turns[k]
                             /\ k \in KindOf(status) => job'[j].turns[k] > job[j].turns[k]
<1> DEFINE turns == [k \in Kinds |-> job[j].turns[k] + (IF k \in KindOf(status) THEN 1 ELSE 0)]
<1>1. job \in [Jobs -> JobType] /\ \A k \in Kinds : job[j].turns[k] \in Nat
  BY HookTypes, HookFields
<1>2. (\A k \in Kinds : turns[k] <= MaxTurns) /\ job' = [job EXCEPT ![j] = [status |-> status, turns |-> turns]]
  BY Zenon DEF JobChanges
<1>3. \A k \in Kinds : turns[k] = job[j].turns[k] + (IF k \in KindOf(status) THEN 1 ELSE 0)
  OBVIOUS
<1>4. turns \in [Kinds -> 0..MaxTurns]
  <2>1. \A k \in Kinds : turns[k] \in 0..MaxTurns
    <3> HIDE DEF turns
    <3> QED BY <1>1, <1>2, <1>3, WatchAssumption
  <2> QED BY <2>1
<1> HIDE DEF turns
<1>5. [status |-> status, turns |-> turns] \in JobType
  BY <1>4 DEF JobType
<1>6. job' \in [Jobs -> JobType] /\ (\A i \in Jobs \ {j} : job'[i] = job[i])
      /\ job'[j].status = status /\ job'[j].turns = turns
  BY <1>1, <1>2, <1>5
<1> QED BY <1>1, <1>3, <1>6

LEMMA JobDeletedAt ==
  ASSUME TypeOK, NEW j \in Jobs, JobDeleted(j)
  PROVE  /\ job' \in [Jobs -> JobType] /\ \A i \in Jobs \ {j} : job'[i] = job[i]
         /\ job'[j].status = "deleted" /\ job'[j].turns = job[j].turns
<1>1. job \in [Jobs -> JobType]
  BY HookTypes
<1> QED BY <1>1 DEF JobDeleted, JobType

LEMMA CheckTypes ==
  ASSUME TypeOK, LeaseInv, Quiet, [Next]_vars
  PROVE  TypeOK'
<1>0. /\ LeaseTypeOK' /\ job \in [Jobs -> JobType] /\ rep \in [Replicas -> RepType]
      /\ posted \in [Jobs -> [Kinds -> Nat]] /\ blind \in BOOLEAN
  BY HookTypes, DispatcherStepsElect, LeaseNextKeeps DEF LeaseInv
<1>1. CASE UNCHANGED hookVars
  BY <1>0, <1>1, NextHookTypes DEF hookVars
<1>2. CASE TimePasses
  BY <1>1, <1>2 DEF TimePasses
<1>3. ASSUME NEW p \in Replicas, Step(p) \/ Crash(p) PROVE TypeOK'
  <2>1. CASE CallLease(p)
    BY <1>0, <2>1, NextHookTypes DEF CallLease
  <2>2. CASE AcquireLeadership(p)
    <3>1. rep' \in [Replicas -> RepType] /\ blind' \in BOOLEAN
      BY <1>0, <2>2, LeadAt, RefusedAt DEF AcquireLeadership
    <3> QED BY <1>0, <2>2, <3>1, NextHookTypes DEF AcquireLeadership
  <2>3. CASE OpenWatch(p)
    BY <1>0, <2>3, OpenAt, NextHookTypes DEF OpenWatch
  <2>4. CASE CloseWatch(p)
    BY <1>0, <2>4, CloseAt, NextHookTypes DEF CloseWatch
  <2>5. CASE ProcessEvent(p)
    <3>1. rep[p].events # <<>>
      BY <2>5 DEF ProcessEvent, Quiet
    <3> QED BY <1>0, <2>5, <3>1, ProcessAt, NextHookTypes DEF ProcessEvent
  <2>6. CASE Restart(p)
    BY <1>0, <2>6, PlaceAt, NextHookTypes DEF Restart, Pcs
  <2>7. CASE Crash(p)
    BY <1>0, <2>7, CrashAt, NextHookTypes DEF Crash
  <2> QED BY <1>3, <2>1, <2>2, <2>3, <2>4, <2>5, <2>6, <2>7 DEF Step
<1>4. ASSUME NEW j \in Jobs, JobDeleted(j) PROVE TypeOK'
  BY <1>0, <1>4, JobDeletedAt, NotifyAt, NextHookTypes DEF JobDeleted
<1>5. ASSUME NEW j \in Jobs, NEW status \in Computed, JobChanges(j, status) PROVE TypeOK'
  BY <1>0, <1>5, JobChangesAt, NotifyAt, NextHookTypes DEF JobChanges
<1> QED BY <1>1, <1>2, <1>3, <1>4, <1>5 DEF Next, vars
-----------------------------------------------------------------------------
(* Every step keeps every ledger *)

(* A step of p that processes nothing. *)
LEMMA LedgerKept ==
  ASSUME TypeOK, Quiet, NEW p \in Replicas, NEW j \in Jobs, NEW k \in Kinds, NEW c \in Nat,
         \/ UNCHANGED rep \/ AcquireLeadership(p) \/ OpenWatch(p) \/ CloseWatch(p) \/ Restart(p),
         UNCHANGED job, Ledger(c, rep[p].cache[j], rep[p].events, j, k, job[j])
  PROVE  Ledger(c, rep'[p].cache[j], rep'[p].events, j, k, job'[j])
<1>1. /\ job[j].turns[k] \in Nat /\ rep[p].cache[j] \in Views /\ rep[p].events \in Seq(Events)
      /\ rep[p].leader \in BOOLEAN /\ rep[p].cache \in [Jobs -> Views]
  BY HookFields
<1>2. /\ c <= job[j].turns[k]
      /\ k \in KindOf(job[j].status) /\ rep[p].cache[j] # job[j].status => c < job[j].turns[k]
  BY <1>1, LedgerBounds
<1>3. CASE rep'[p].cache = rep[p].cache /\ rep'[p].events = rep[p].events
  BY <1>3
<1>4. CASE AcquireLeadership(p)
  <2>1. rep[p].events = <<>>
    BY <1>4 DEF AcquireLeadership, Quiet
  <2>2. /\ rep'[p].events = rep[p].events
        /\ rep'[p].cache = rep[p].cache \/ rep'[p].cache = Listed(rep[p].cache)
    BY <1>4, LeadAt, RefusedAt DEF AcquireLeadership
  <2>3. CASE rep'[p].cache = Listed(rep[p].cache)
    <3>1. rep'[p].cache[j] = IF Exists(j) THEN job[j].status ELSE rep[p].cache[j]
      BY <2>3 DEF Listed
    <3>2. rep'[p].cache[j] \in Views
      BY <1>1, <3>1 DEF Exists, Views
    <3> QED BY <1>2, <2>1, <2>2, <3>1, <3>2, LedgerOfNone
  <2> QED BY <1>3, <2>2, <2>3
<1>5. CASE OpenWatch(p)
  <2>1. rep[p].events = <<>>
    BY <1>5 DEF OpenWatch, Quiet
  <2>2. /\ rep'[p].cache = rep[p].cache /\ rep'[p].events \in Seq(Events)
        /\ \A i \in 1..Len(rep'[p].events) :
             /\ rep'[p].events[i].status = job[rep'[p].events[i].job].status
             /\ rep'[p].events[i].status \in Computed
    BY <1>5, OpenAt
  <2>3. Ledger(c, rep[p].cache[j], rep'[p].events, j, k, job[j])
    BY <1>1, <2>1, <2>2, LedgerOpens
  <2> QED BY <2>2, <2>3
<1>6. CASE CloseWatch(p)
  <2>1. Ledger(c, rep[p].cache[j], <<>>, j, k, job[j])
    BY <1>1, LedgerLost
  <2> QED BY <1>6, <2>1, CloseAt
<1>7. CASE Restart(p)
  BY <1>3, <1>7, PlaceAt DEF Restart, Pcs
<1> QED BY <1>3, <1>4, <1>5, <1>6, <1>7

LEMMA LedgerProcessed ==
  ASSUME TypeOK, Quiet, NEW p \in Replicas, NEW j \in Jobs, NEW k \in Kinds, NEW c \in Nat,
         ProcessEvent(p), Ledger(c, rep[p].cache[j], rep[p].events, j, k, job[j]),
         NEW d \in Nat,
         LET e == Head(rep[p].events)
             kinds == IF e.status = "deleted" THEN {} ELSE DetermineEvent(rep[p].cache[e.job], e.status)
         IN  d = c \/ d = c + (IF j = e.job /\ k \in kinds THEN 1 ELSE 0)
  PROVE  Ledger(d, rep'[p].cache[j], rep'[p].events, j, k, job'[j])
<1> DEFINE e == Head(rep[p].events)
<1>1. rep[p].events # <<>> /\ UNCHANGED job
  BY DEF ProcessEvent, Quiet
<1>2. /\ job[j].turns[k] \in Nat /\ rep[p].cache \in [Jobs -> Views] /\ rep[p].events \in Seq(Events)
  BY HookFields
<1>3. /\ rep'[p].events = Tail(rep[p].events) /\ e.job \in Jobs
      /\ rep'[p].cache = [rep[p].cache EXCEPT ![e.job] = Remembers(e)]
  BY <1>1, ProcessAt DEF Events
<1>4. rep'[p].cache[j] = IF e.job = j THEN Remembers(e) ELSE rep[p].cache[j]
  <2> HIDE DEF e
  <2> QED BY <1>2, <1>3
<1>5. d <= c + 1 /\ (d > c => e.job = j /\ k \in DetermineEvent(rep[p].cache[j], e.status))
  <2> HIDE DEF e
  <2>1. CASE d = c
    BY <2>1
  <2>2. CASE d = c + (IF j = e.job /\ k \in (IF e.status = "deleted" THEN {} ELSE DetermineEvent(rep[p].cache[e.job], e.status))
                        THEN 1 ELSE 0)
    BY <2>2
  <2> QED BY <2>1, <2>2 DEF e
<1>6. Ledger(d, rep'[p].cache[j], Tail(rep[p].events), j, k, job[j])
  <2>1. rep[p].cache[j] \in Views
    BY <1>2
  <2> QED BY <1>1, <1>2, <1>4, <1>5, <2>1, LedgerTakes
<1> QED BY <1>1, <1>3, <1>6

(* A Job that changes or is deleted. *)
LEMMA LedgerFollows ==
  ASSUME TypeOK, NEW i \in Jobs,
         JobDeleted(i) \/ \E status \in Computed : JobChanges(i, status),
         NEW p \in Replicas, NEW j \in Jobs, NEW k \in Kinds, NEW c \in Nat,
         Ledger(c, rep[p].cache[j], rep[p].events, j, k, job[j])
  PROVE  Ledger(c, rep'[p].cache[j], rep'[p].events, j, k, job'[j])
<1>1. PICK status \in Computed \union {"deleted"} :
        /\ Notify(i, status) /\ job'[i].status = status
        /\ \A i2 \in Jobs \ {i} : job'[i2] = job[i2]
        /\ \A k2 \in Kinds : /\ job'[i].turns[k2] \in Nat /\ job'[i].turns[k2] >= job[i].turns[k2]
                             /\ k2 \in KindOf(status) => job'[i].turns[k2] > job[i].turns[k2]
  <2>1. CASE JobDeleted(i)
    <3>1. Notify(i, "deleted") /\ KindOf("deleted") = {}
      BY <2>1 DEF JobDeleted, KindOf
    <3>2. \A k2 \in Kinds : job[i].turns[k2] \in Nat
      BY HookFields
    <3> QED BY <2>1, <3>1, <3>2, JobDeletedAt
  <2>2. ASSUME NEW status \in Computed, JobChanges(i, status)
        PROVE  Notify(i, status)
    BY <2>2 DEF JobChanges
  <2> QED BY <2>1, <2>2, JobChangesAt
<1>2. /\ job[j].turns[k] \in Nat /\ rep[p].cache[j] \in Views /\ rep[p].events \in Seq(Events)
  BY HookFields
<1>3. [job |-> i, status |-> status] \in Events
  BY DEF Events
<1>4. /\ rep'[p].cache = rep[p].cache
      /\ \/ rep'[p].events = rep[p].events
         \/ rep'[p].events = Append(rep[p].events, [job |-> i, status |-> status])
  BY <1>1, NotifyAt
<1>5. /\ job'[j].turns[k] \in Nat /\ job'[j].turns[k] >= job[j].turns[k]
      /\ i # j => job'[j] = job[j]
      /\ i = j => job'[j].status = status /\ (k \in KindOf(status) => job'[j].turns[k] > job[j].turns[k])
  BY <1>1, <1>2
<1>6. Ledger(c, rep[p].cache[j], rep[p].events, j, k, job'[j])
  <2>1. CASE i # j
    BY <1>5, <2>1
  <2>2. CASE i = j
    BY <1>2, <1>5, <2>2, LedgerUnseen
  <2> QED BY <2>1, <2>2
<1>7. Ledger(c, rep[p].cache[j], Append(rep[p].events, [job |-> i, status |-> status]), j, k, job'[j])
  <2> DEFINE x == [job |-> i, status |-> status]
  <2>1. x.job = i /\ x.status = status /\ x \in Events
    BY <1>3
  <2> HIDE DEF x
  <2>2. Ledger(c, rep[p].cache[j], Append(rep[p].events, x), j, k, job'[j])
    BY <1>2, <1>5, <2>1, LedgerSeen
  <2> QED BY <2>2 DEF x
<1> QED BY <1>4, <1>6, <1>7

LEMMA QuietHolds ==
  ASSUME TypeOK, Quiet, [Next]_vars
  PROVE  Quiet'
<1>1. ASSUME NEW p \in Replicas, Step(p) \/ Crash(p) PROVE Quiet'
  <2>1. ASSUME \A q \in Replicas \ {p} : rep'[q] = rep[q],
               rep'[p].pc \in {"down", "elect", "watch"} => rep'[p].events = <<>>,
               rep'[p].pc = "process" => rep'[p].events # <<>>
        PROVE  Quiet'
    BY <2>1 DEF Quiet
  <2>2. CASE CallLease(p)
    BY <2>2 DEF CallLease, Quiet
  <2>3. CASE AcquireLeadership(p)
    <3>1. rep[p].events = <<>> /\ rep[p].pc = "elect"
      BY <2>3 DEF AcquireLeadership, Quiet
    <3> QED BY <2>1, <2>3, <3>1, LeadAt, RefusedAt DEF AcquireLeadership
  <2>4. CASE OpenWatch(p)
    BY <2>1, <2>4, OpenAt
  <2>5. CASE CloseWatch(p)
    BY <2>1, <2>5, CloseAt
  <2>6. CASE ProcessEvent(p)
    <3>1. rep[p].events # <<>>
      BY <2>6 DEF ProcessEvent, Quiet
    <3> QED BY <2>1, <2>6, <3>1, ProcessAt
  <2>7. CASE Restart(p)
    <3>1. rep[p].events = <<>>
      BY <2>7 DEF Restart, Quiet
    <3> QED BY <2>1, <2>7, <3>1, PlaceAt DEF Restart, Pcs
  <2>8. CASE Crash(p)
    BY <2>1, <2>8, CrashAt DEF Crash
  <2> QED BY <1>1, <2>2, <2>3, <2>4, <2>5, <2>6, <2>7, <2>8 DEF Step
<1>2. ASSUME NEW j \in Jobs, NEW status \in Computed \union {"deleted"}, Notify(j, status) PROVE Quiet'
  BY <1>2, NotifyAt DEF Quiet
<1>3. ASSUME NEW j \in Jobs, JobDeleted(j) \/ \E status \in Computed : JobChanges(j, status)
      PROVE  Quiet'
  BY <1>2, <1>3 DEF JobDeleted, JobChanges
<1>4. CASE UNCHANGED hookVars
  BY <1>4 DEF hookVars, Quiet
<1> QED BY <1>1, <1>3, <1>4 DEF Next, TimePasses, vars

LEMMA CountedHolds ==
  ASSUME TypeOK, Counted, [Next]_vars
  PROVE  Counted'
<1>1. CASE UNCHANGED job
  BY <1>1 DEF Counted
<1>2. ASSUME NEW j \in Jobs, JobDeleted(j) PROVE Counted'
  BY <1>2, JobDeletedAt DEF Counted, KindOf
<1>3. ASSUME NEW j \in Jobs, NEW status \in Computed, JobChanges(j, status) PROVE Counted'
  <2>1. ASSUME NEW k \in KindOf(status) PROVE job'[j].turns[k] > 0
    <3>1. k \in Kinds
      BY Determined
    <3> QED BY <1>3, <3>1, JobChangesAt, HookFields
  <2> QED BY <1>3, <2>1, JobChangesAt DEF Counted
<1>4. ASSUME NEW p \in Replicas, Step(p) \/ Crash(p) PROVE UNCHANGED job
  BY <1>4 DEF Step, CallLease, AcquireLeadership, OpenWatch, CloseWatch, ProcessEvent, Restart, Crash
<1> QED BY <1>1, <1>2, <1>3, <1>4 DEF Next, TimePasses, hookVars, vars

LEMMA OwnLedgerHolds ==
  ASSUME TypeOK, Counted, Quiet, OwnLedger, [Next]_vars
  PROVE  OwnLedger'
<1>0. ASSUME NEW q \in Replicas, NEW j \in Jobs, NEW k \in Kinds
      PROVE  rep[q].sent[j][k] \in Nat /\ Ledger(rep[q].sent[j][k], rep[q].cache[j], rep[q].events, j, k, job[j])
  BY HookFields DEF OwnLedger
<1>1. ASSUME NEW p \in Replicas, Step(p) \/ Crash(p) PROVE OwnLedger'
  <2>1. ASSUME \A q \in Replicas \ {p} : rep'[q] = rep[q], UNCHANGED job,
               \A j \in Jobs, k \in Kinds :
                 Ledger(rep'[p].sent[j][k], rep'[p].cache[j], rep'[p].events, j, k, job'[j])
        PROVE  OwnLedger'
    BY <2>1 DEF OwnLedger
  <2>2. ASSUME UNCHANGED rep \/ AcquireLeadership(p) \/ OpenWatch(p) \/ CloseWatch(p) \/ Restart(p),
               UNCHANGED job, rep'[p].sent = rep[p].sent, \A q \in Replicas \ {p} : rep'[q] = rep[q]
        PROVE  OwnLedger'
    <3>1. ASSUME NEW j \in Jobs, NEW k \in Kinds
          PROVE  Ledger(rep[p].sent[j][k], rep'[p].cache[j], rep'[p].events, j, k, job'[j])
      BY <1>0, <2>2, LedgerKept
    <3> QED BY <2>1, <2>2, <3>1
  <2>3. CASE CallLease(p)
    BY <2>2, <2>3 DEF CallLease
  <2>4. CASE AcquireLeadership(p)
    <3>1. rep'[p].sent = rep[p].sent /\ \A q \in Replicas \ {p} : rep'[q] = rep[q]
      BY <2>4, LeadAt, RefusedAt DEF AcquireLeadership
    <3> QED BY <2>2, <2>4, <3>1 DEF AcquireLeadership
  <2>5. CASE OpenWatch(p)
    BY <2>2, <2>5, OpenAt DEF OpenWatch
  <2>6. CASE CloseWatch(p)
    BY <2>2, <2>6, CloseAt DEF CloseWatch
  <2>7. CASE ProcessEvent(p)
    <3>1. rep[p].events # <<>> /\ UNCHANGED job
      BY <2>7 DEF ProcessEvent, Quiet
    <3>2. rep' \in [Replicas -> RepType] /\ \A q \in Replicas \ {p} : rep'[q] = rep[q]
      BY <2>7, <3>1, ProcessAt
    <3>3. ASSUME NEW j \in Jobs, NEW k \in Kinds
          PROVE  Ledger(rep'[p].sent[j][k], rep'[p].cache[j], rep'[p].events, j, k, job'[j])
      <4> DEFINE e == Head(rep[p].events)
                 kinds == IF e.status = "deleted" THEN {} ELSE DetermineEvent(rep[p].cache[e.job], e.status)
      <4>1. \/ rep'[p].sent[j][k] = rep[p].sent[j][k]
            \/ rep'[p].sent[j][k] = rep[p].sent[j][k] + (IF j = e.job /\ k \in kinds THEN 1 ELSE 0)
        BY <2>7, <3>1, ProcessAt
      <4>2. rep'[p].sent[j][k] \in Nat
        BY <3>2 DEF RepType
      <4> QED BY <1>0, <2>7, <4>1, <4>2, LedgerProcessed
    <3> QED BY <2>1, <3>1, <3>2, <3>3
  <2>8. CASE Restart(p)
    <3>1. rep'[p].sent = rep[p].sent /\ \A q \in Replicas \ {p} : rep'[q] = rep[q]
      BY <2>8, PlaceAt DEF Restart, Pcs
    <3> QED BY <2>2, <2>8, <3>1 DEF Restart
  <2>9. CASE Crash(p)
    <3>1. /\ UNCHANGED job /\ \A q \in Replicas \ {p} : rep'[q] = rep[q]
          /\ rep'[p].events = <<>>
          /\ \A j \in Jobs : rep'[p].cache[j] = "unknown" /\ \A k \in Kinds : rep'[p].sent[j][k] = 0
      BY <2>9, CrashAt DEF Crash
    <3>2. ASSUME NEW j \in Jobs, NEW k \in Kinds PROVE Ledger(0, "unknown", <<>>, j, k, job[j])
      <4>1. job[j].turns[k] \in Nat /\ (k \in KindOf(job[j].status) => 0 < job[j].turns[k])
        BY HookFields DEF Counted
      <4> QED BY <4>1, LedgerOfNone DEF Views
    <3> QED BY <2>1, <3>1, <3>2
  <2> QED BY <1>1, <2>3, <2>4, <2>5, <2>6, <2>7, <2>8, <2>9 DEF Step
<1>2. ASSUME NEW i \in Jobs, JobDeleted(i) \/ \E status \in Computed : JobChanges(i, status)
      PROVE  OwnLedger'
  <2>1. \A p \in Replicas : rep'[p].sent = rep[p].sent
    BY <1>2, NotifyAt DEF JobDeleted, JobChanges
  <2>2. ASSUME NEW p \in Replicas, NEW j \in Jobs, NEW k \in Kinds
        PROVE  Ledger(rep[p].sent[j][k], rep'[p].cache[j], rep'[p].events, j, k, job'[j])
    BY <1>0, <1>2, LedgerFollows
  <2> QED BY <2>1, <2>2 DEF OwnLedger
<1>3. CASE UNCHANGED hookVars
  BY <1>3 DEF hookVars, OwnLedger
<1> QED BY <1>1, <1>2, <1>3 DEF Next, TimePasses, vars

-----------------------------------------------------------------------------
(* The leader's deliveries *)

LEMMA ElectedHolds ==
  ASSUME TypeOK, Elected, [Next]_vars
  PROVE  Elected'
<1>0. /\ overruns \in Nat /\ call \in [Replicas -> Calls] /\ term \in [Replicas -> Terms]
  BY DEF TypeOK, LeaseTypeOK
<1>1. CASE TimePasses
  <2>1. UNCHANGED <<call, rep>>
    BY <1>1 DEF TimePasses, LeaseRunsOut, hookVars
  <2>2. overruns' = 0 => overruns = 0 /\ \A p \in Replicas : term'[p] = term[p]
    BY <1>0, <1>1 DEF TimePasses, LeaseRunsOut
  <2> QED BY <2>1, <2>2 DEF Elected
<1>2. ASSUME NEW p \in Replicas, Step(p) \/ Crash(p) PROVE Elected'
  <2>0. UNCHANGED overruns
    BY <1>2 DEF Step, CallLease, ReadLease, ReplaceLease, AcquireLeadership, Answered, OpenWatch, leaseVars,
                CloseWatch, ProcessEvent, Restart, Crash, LeaveElection
  <2>1. CASE CallLease(p)
    <3>1. /\ UNCHANGED rep /\ rep[p].pc = "elect"
          /\ \A q \in Replicas \ {p} : /\ term'[q] = term[q]
                                       /\ call'[q] = call[q] \/ (call[q] = "fresh" /\ call'[q] = "stale")
          /\ \/ call'[p] = "no" /\ term'[p] = "none"
             \/ call'[p] = "yes" /\ term'[p] = "live"
             \/ call[p] = "none" /\ call'[p] = "fresh" /\ term'[p] = term[p]
      BY <1>0, <2>1 DEF CallLease, ReadLease, ReplaceLease, Written, WrittenUnknown, Refuse
    <3> QED BY <2>0, <3>1 DEF Elected
  <2>2. CASE AcquireLeadership(p)
    <3>1. /\ UNCHANGED term /\ call'[p] = "none" /\ \A q \in Replicas \ {p} : call'[q] = call[q] /\ rep'[q] = rep[q]
          /\ rep[p].pc = "elect"
      BY <1>0, <2>2, LeadAt, RefusedAt DEF AcquireLeadership, Answered
    <3>2. \/ call[p] = "yes" /\ rep'[p].pc = "watch" /\ rep'[p].leader
          \/ rep'[p].pc = rep[p].pc /\ rep'[p].leader = FALSE
      BY <2>2, LeadAt, RefusedAt DEF AcquireLeadership
    <3> QED BY <2>0, <3>1, <3>2 DEF Elected
  <2>3. CASE OpenWatch(p) \/ CloseWatch(p) \/ ProcessEvent(p)
    <3>1. UNCHANGED <<call, term>> /\ rep[p].pc \in {"watch", "watching", "process"}
      BY <2>3 DEF OpenWatch, CloseWatch, ProcessEvent, leaseVars
    <3>2. /\ rep'[p].leader = rep[p].leader /\ rep'[p].pc \in {"elect", "watching", "process"}
          /\ \A q \in Replicas \ {p} : rep'[q] = rep[q]
      <4>1. rep \in [Replicas -> RepType]
        BY HookTypes
      <4>2. CASE OpenWatch(p)
        BY <4>2, OpenAt
      <4>3. CASE CloseWatch(p)
        BY <4>3, CloseAt
      <4>4. CASE ProcessEvent(p)
        <5> DEFINE next == [rep[p] EXCEPT !.events = Tail(@),
                              !.cache[Head(rep[p].events).job] =
                                 IF Head(rep[p].events).status = "deleted" THEN "unknown" ELSE Head(rep[p].events).status,
                              !.pc = IF Tail(rep[p].events) = <<>> THEN "elect" ELSE "process"]
        <5>1. next.leader = rep[p].leader /\ next.pc \in {"elect", "process"}
          BY <4>1 DEF RepType
        <5>2. PICK r : rep' = [rep EXCEPT ![p] = r] /\ r.leader = next.leader /\ r.pc = next.pc
          <6>1. ASSUME NEW f PROVE [next EXCEPT !.sent = f].leader = next.leader /\ [next EXCEPT !.sent = f].pc = next.pc
            BY <4>1 DEF RepType
          <6> QED BY <4>4, <6>1 DEF ProcessEvent
        <5> HIDE DEF next
        <5> QED BY <4>1, <5>1, <5>2
      <4> QED BY <2>3, <4>2, <4>3, <4>4
    <3> QED BY <2>0, <3>1, <3>2 DEF Elected
  <2>4. CASE Restart(p)
    <3>1. UNCHANGED <<call, term>> /\ rep[p].pc = "down"
      BY <2>4 DEF Restart, leaseVars
    <3>2. rep'[p].leader = rep[p].leader /\ rep'[p].pc = "elect" /\ \A q \in Replicas \ {p} : rep'[q] = rep[q]
      BY <2>4, PlaceAt DEF Restart, Pcs
    <3> QED BY <2>0, <3>1, <3>2 DEF Elected
  <2>5. CASE Crash(p)
    <3>1. /\ call'[p] = "none" /\ term'[p] = "none"
          /\ \A q \in Replicas \ {p} : call'[q] = call[q] /\ term'[q] = term[q]
      BY <1>0, <2>5 DEF Crash, LeaveElection
    <3>2. rep'[p].pc = "down" /\ rep'[p].leader = FALSE /\ \A q \in Replicas \ {p} : rep'[q] = rep[q]
      BY <2>5, CrashAt DEF Crash
    <3> QED BY <2>0, <3>1, <3>2 DEF Elected
  <2> QED BY <1>2, <2>1, <2>2, <2>3, <2>4, <2>5 DEF Step
<1>3. ASSUME NEW j \in Jobs, JobDeleted(j) \/ \E status \in Computed : JobChanges(j, status)
      PROVE  Elected'
  <2>1. UNCHANGED leaseVars /\ \A p \in Replicas : rep'[p].pc = rep[p].pc /\ rep'[p].leader = rep[p].leader
    BY <1>3, NotifyAt DEF JobDeleted, JobChanges
  <2> QED BY <2>1 DEF leaseVars, Elected
<1>4. CASE UNCHANGED vars
  BY <1>4 DEF vars, leaseVars, hookVars, Elected
<1> QED BY <1>1, <1>2, <1>3, <1>4 DEF Next

LEMMA TeamLedgerHolds ==
  ASSUME TypeOK, LeaseInv, Quiet, Elected, TeamLedger, [Next]_vars, TypeOK',
         overruns' = 0, ~blind',
         NEW j \in Jobs, NEW k \in Kinds
  PROVE  /\ posted'[j][k] <= job'[j].turns[k]
         /\ \A p \in Replicas :
              rep'[p].leader /\ term'[p] = "live" =>
                Ledger(posted'[j][k], rep'[p].cache[j], rep'[p].events, j, k, job'[j])
<1> DEFINE Goal == /\ posted'[j][k] <= job'[j].turns[k]
                   /\ \A p \in Replicas :
                        rep'[p].leader /\ term'[p] = "live" =>
                          Ledger(posted'[j][k], rep'[p].cache[j], rep'[p].events, j, k, job'[j])
<1>0. /\ overruns \in Nat /\ call \in [Replicas -> Calls] /\ term \in [Replicas -> Terms]
      /\ posted[j][k] \in Nat /\ job[j].turns[k] \in Nat /\ posted'[j][k] \in Nat
  <2>1. /\ overruns \in Nat /\ call \in [Replicas -> Calls] /\ term \in [Replicas -> Terms]
        /\ posted \in [Jobs -> [Kinds -> Nat]] /\ posted' \in [Jobs -> [Kinds -> Nat]]
    BY HookTypes, NextHookTypes DEF LeaseTypeOK
  <2> QED BY <2>1, HookFields
<1>c. ASSUME overruns = 0, ~blind
      PROVE  /\ posted[j][k] <= job[j].turns[k]
             /\ \A p \in Replicas :
                  rep[p].leader /\ term[p] = "live" =>
                    Ledger(posted[j][k], rep[p].cache[j], rep[p].events, j, k, job[j])
  BY <1>c DEF TeamLedger
<1>u. ASSUME UNCHANGED hookVars, overruns = 0,
             \A p \in Replicas : rep[p].leader /\ term'[p] = "live" => term[p] = "live"
      PROVE  Goal
  BY <1>c, <1>u DEF hookVars
<1>1. CASE TimePasses
  <2>1. UNCHANGED hookVars /\ overruns = 0
    BY <1>0, <1>1 DEF TimePasses, LeaseRunsOut
  <2>2. \A p \in Replicas : term'[p] = "live" => term[p] = "live"
    BY <1>0, <1>1 DEF TimePasses, LeaseRunsOut
  <2> QED BY <1>u, <2>1, <2>2
<1>2. ASSUME NEW p \in Replicas, Step(p) \/ Crash(p) PROVE Goal
  <2>0. UNCHANGED <<overruns, job>> /\ overruns = 0
    BY <1>2 DEF Step, CallLease, ReadLease, ReplaceLease, AcquireLeadership, Answered, OpenWatch, leaseVars,
                CloseWatch, ProcessEvent, Restart, Crash, LeaveElection
  <2>b. ~blind
    BY <1>2, LeadAt DEF Step, CallLease, AcquireLeadership, OpenWatch, CloseWatch, ProcessEvent, Restart, Crash
  <2>1. CASE CallLease(p)
    <3>1. UNCHANGED hookVars
      BY <2>1 DEF CallLease, hookVars
    <3>2. \A q \in Replicas : term'[q] = term[q] \/ term'[q] = "none" \/ (q = p /\ call[p] = "fresh")
      BY <1>0, <2>1 DEF CallLease, ReadLease, ReplaceLease, Written, WrittenUnknown, Refuse
    <3>3. \A q \in Replicas : rep[q].leader /\ term'[q] = "live" => term[q] = "live"
      BY <2>0, <3>2 DEF Elected
    <3> QED BY <1>u, <2>0, <3>1, <3>3
  <2>n. ASSUME AcquireLeadership(p) \/ OpenWatch(p) \/ CloseWatch(p) \/ Restart(p) \/ Crash(p),
               rep[p].leader \/ ~rep'[p].leader,
               UNCHANGED posted, \A q \in Replicas : term'[q] = term[q] \/ term'[q] = "none",
               \A q \in Replicas \ {p} : rep'[q] = rep[q],
               ~Crash(p) \/ ~rep'[p].leader
        PROVE  Goal
    <3>1. ASSUME NEW q \in Replicas, rep'[q].leader, term'[q] = "live"
          PROVE  Ledger(posted[j][k], rep'[q].cache[j], rep'[q].events, j, k, job'[j])
      <4>1. CASE q = p
        <5>1. term[p] = "live" /\ rep[p].leader
          BY <2>n, <3>1, <4>1
        <5>2. Ledger(posted[j][k], rep[p].cache[j], rep[p].events, j, k, job[j])
          BY <1>c, <2>0, <2>b, <5>1
        <5> QED BY <1>0, <2>0, <2>n, <3>1, <4>1, <5>2, LedgerKept
      <4>2. CASE q # p
        <5>1. rep'[q] = rep[q] /\ term[q] = "live"
          BY <2>n, <3>1, <4>2
        <5> QED BY <1>c, <2>0, <2>b, <3>1, <5>1
      <4> QED BY <4>1, <4>2
    <3> QED BY <1>c, <2>0, <2>b, <2>n, <3>1
  <2>2. CASE AcquireLeadership(p)
    <3>1. /\ UNCHANGED <<posted, term>> /\ \A q \in Replicas \ {p} : rep'[q] = rep[q]
      BY <2>2, LeadAt, RefusedAt DEF AcquireLeadership, Answered
    <3>a. ~Crash(p) \/ ~rep'[p].leader
      BY CrashAt DEF Crash
    <3>2. CASE rep[p].leader \/ ~rep'[p].leader
      BY <2>2, <2>n, <3>1, <3>2, <3>a
    <3>3. CASE ~rep[p].leader /\ rep'[p].leader
      <4>1. rep[p].events = <<>> /\ rep[p].cache \in [Jobs -> Views]
        BY <2>2, HookFields DEF AcquireLeadership, Quiet
      <4>2. rep'[p].events = <<>> /\ rep'[p].cache = Listed(rep[p].cache)
        <5>1. Lead(p)
          BY <2>2, <3>3, RefusedAt DEF AcquireLeadership
        <5> QED BY <3>3, <4>1, <5>1, LeadAt
      <4>3. /\ rep'[p].cache[j] = (IF Exists(j) THEN job[j].status ELSE rep[p].cache[j])
            /\ rep'[p].cache[j] \in Views
        BY <4>1, <4>2 DEF Listed, Exists, Views
      <4>4. Ledger(posted[j][k], rep'[p].cache[j], <<>>, j, k, job[j])
        <5>1. posted[j][k] <= job[j].turns[k]
          BY <1>c, <2>0, <2>b
        <5>2. k \in KindOf(job[j].status) => rep'[p].cache[j] = job[j].status
          BY <4>3 DEF KindOf, Exists, Computed
        <5> QED BY <1>0, <4>3, <5>1, <5>2, LedgerOfNone
      <4>5. ASSUME NEW q \in Replicas, rep'[q].leader, term'[q] = "live"
            PROVE  Ledger(posted[j][k], rep'[q].cache[j], rep'[q].events, j, k, job[j])
        BY <1>c, <2>0, <2>b, <3>1, <4>2, <4>4, <4>5
      <4> QED BY <1>c, <2>0, <2>b, <3>1, <4>5
    <3> QED BY <3>2, <3>3
  <2>3. CASE OpenWatch(p) \/ CloseWatch(p) \/ Restart(p)
    <3>1. /\ UNCHANGED <<posted, term>>
      BY <2>3 DEF OpenWatch, CloseWatch, Restart, leaseVars
    <3>2. /\ rep'[p].leader = rep[p].leader /\ \A q \in Replicas \ {p} : rep'[q] = rep[q]
      BY <2>3, OpenAt, CloseAt, PlaceAt DEF Restart, Pcs
    <3>3. ~Crash(p) \/ ~rep'[p].leader
      BY CrashAt DEF Crash
    <3>4. rep[p].leader \in BOOLEAN
      BY HookFields
    <3> QED BY <2>3, <2>n, <3>1, <3>2, <3>3, <3>4
  <2>4. CASE Crash(p)
    <3>1. /\ UNCHANGED posted /\ \A q \in Replicas : term'[q] = term[q] \/ term'[q] = "none"
      BY <1>0, <2>4 DEF Crash, LeaveElection
    <3>2. ~rep'[p].leader /\ \A q \in Replicas \ {p} : rep'[q] = rep[q]
      BY <2>4, CrashAt DEF Crash
    <3> QED BY <2>4, <2>n, <3>1, <3>2
  <2>5. CASE ProcessEvent(p)
    <3>1. rep[p].events # <<>> /\ UNCHANGED term /\ rep[p].pc = "process"
      BY <2>5 DEF ProcessEvent, Quiet
    <3>2. rep[p].leader /\ term[p] = "live"
      BY <2>0, <3>1 DEF Elected
    <3>3. \A q \in Replicas \ {p} : term[q] # "live"
      BY <3>2, BackedTermsAgree DEF OneLeader
    <3>4. Ledger(posted[j][k], rep[p].cache[j], rep[p].events, j, k, job[j])
      BY <1>c, <2>0, <2>b, <3>2
    <3>5. Ledger(posted'[j][k], rep'[p].cache[j], rep'[p].events, j, k, job'[j])
      <4> DEFINE e == Head(rep[p].events)
                 kinds == IF e.status = "deleted" THEN {} ELSE DetermineEvent(rep[p].cache[e.job], e.status)
      <4>1. \/ posted'[j][k] = posted[j][k]
            \/ posted'[j][k] = posted[j][k] + (IF j = e.job /\ k \in kinds THEN 1 ELSE 0)
        BY <2>5, <3>1, ProcessAt
      <4> QED BY <1>0, <2>5, <3>4, <4>1, LedgerProcessed
    <3>6. posted'[j][k] <= job[j].turns[k]
      <4>1. rep'[p].events \in Seq(Events)
        BY <2>5, <3>1, ProcessAt
      <4> QED BY <1>0, <2>0, <3>5, <4>1, LedgerBounds
    <3> QED BY <2>0, <3>1, <3>3, <3>5, <3>6
  <2> QED BY <1>2, <2>1, <2>2, <2>3, <2>4, <2>5 DEF Step
<1>3. ASSUME NEW i \in Jobs, JobDeleted(i) \/ \E status \in Computed : JobChanges(i, status)
      PROVE  Goal
  <2>1. UNCHANGED <<posted, blind, leaseVars>> /\ \A p \in Replicas : rep'[p].leader = rep[p].leader
    BY <1>3, NotifyAt DEF JobDeleted, JobChanges
  <2>2. UNCHANGED <<term, overruns>>
    BY <2>1 DEF leaseVars
  <2>3. ASSUME NEW p \in Replicas, Ledger(posted[j][k], rep[p].cache[j], rep[p].events, j, k, job[j])
        PROVE  Ledger(posted[j][k], rep'[p].cache[j], rep'[p].events, j, k, job'[j])
    BY <1>0, <1>3, <2>3, LedgerFollows
  <2>4. job'[j].turns[k] \in Nat /\ job'[j].turns[k] >= job[j].turns[k]
    BY <1>0, <1>3, JobDeletedAt, JobChangesAt
  <2>5. posted[j][k] <= job'[j].turns[k]
    BY <1>0, <1>c, <2>1, <2>2, <2>4
  <2> QED BY <1>c, <2>1, <2>2, <2>3, <2>5
<1>4. CASE UNCHANGED vars
  BY <1>u, <1>4 DEF vars, leaseVars
<1> QED BY <1>1, <1>2, <1>3, <1>4 DEF Next

LEMMA HookInvHolds == Spec => [](TypeOK /\ LeaseInv /\ HookInv)
<1>1. Init => TypeOK /\ LeaseInv /\ HookInv
  <2> SUFFICES ASSUME Init PROVE TypeOK /\ LeaseInv /\ HookInv
    OBVIOUS
  <2>1. LeaseInv /\ LeaseTypeOK
    BY InitialLease DEF Init, LeaseInv
  <2>2. Fresh("down") \in RepType
    BY DEF Fresh, RepType, Pcs, NoTurns
  <2>3. TypeOK
    <3>1. NoTurns \in [Kinds -> 0..MaxTurns] /\ NoTurns \in [Kinds -> Nat]
      BY WatchAssumption DEF NoTurns
    <3>2. [status |-> "absent", turns |-> NoTurns] \in JobType
      BY <3>1 DEF JobType
    <3>3. /\ job \in [Jobs -> JobType] /\ rep \in [Replicas -> RepType]
          /\ posted \in [Jobs -> [Kinds -> Nat]] /\ blind \in BOOLEAN
      BY <2>2, <3>1, <3>2 DEF Init
    <3> QED BY <2>1, <3>3, HookTypes
  <2>4. Counted
    BY DEF Init, Counted, KindOf
  <2>5. \A p \in Replicas : /\ rep[p].pc = "down" /\ rep[p].events = <<>> /\ rep[p].leader = FALSE
                            /\ \A j \in Jobs : rep[p].cache[j] = "unknown" /\ \A k \in Kinds : rep[p].sent[j][k] = 0
    BY DEF Init, Fresh, NoTurns
  <2>6. Quiet
    BY <2>5 DEF Quiet
  <2>7. Elected
    BY <2>5 DEF Init, LeaseInit, Elected
  <2>8. ASSUME NEW j \in Jobs, NEW k \in Kinds
        PROVE  posted[j][k] = 0 /\ job[j].turns[k] = 0 /\ Ledger(0, "unknown", <<>>, j, k, job[j])
    <3>1. posted[j][k] = 0 /\ job[j].turns[k] = 0 /\ job[j].status = "absent"
      BY DEF Init, NoTurns
    <3>2. KindOf("absent") = {}
      BY DEF KindOf
    <3>3. Ledger(0, "unknown", <<>>, j, k, job[j])
      <4>1. 0 <= job[j].turns[k] /\ k \notin KindOf(job[j].status)
        BY <3>1, <3>2
      <4>2. "unknown" \in Views /\ 0 \in Nat
        BY DEF Views
      <4> QED BY <4>1, <4>2, LedgerOfNone
    <3> QED BY <3>1, <3>3
  <2>9. OwnLedger
    BY <2>5, <2>8 DEF OwnLedger
  <2>10. TeamLedger
    BY <2>5, <2>8 DEF TeamLedger
  <2> QED BY <2>1, <2>3, <2>4, <2>6, <2>7, <2>9, <2>10 DEF HookInv
<1>2. TypeOK /\ LeaseInv /\ HookInv /\ [Next]_vars => (TypeOK /\ LeaseInv /\ HookInv)'
  <2> SUFFICES ASSUME TypeOK, LeaseInv, HookInv, [Next]_vars PROVE (TypeOK /\ LeaseInv /\ HookInv)'
    OBVIOUS
  <2>1. Counted /\ Quiet /\ OwnLedger /\ Elected /\ TeamLedger
    BY DEF HookInv
  <2>2. LeaseInv' /\ TypeOK'
    BY <2>1, DispatcherStepsElect, LeaseNextKeeps, CheckTypes
  <2>3. Counted' /\ Quiet' /\ OwnLedger' /\ Elected'
    BY <2>1, CountedHolds, QuietHolds, OwnLedgerHolds, ElectedHolds
  <2>4. TeamLedger'
    BY <2>1, <2>2, TeamLedgerHolds DEF TeamLedger
  <2> QED BY <2>2, <2>3, <2>4 DEF HookInv
<1> QED BY <1>1, <1>2, PTL DEF Spec

(* The dispatcher's state has its type. *)
THEOREM DispatcherTyped == Spec => []TypeOK
  BY HookInvHolds, PTL

(* Whatever becomes of the Lease, no process announces one transition of a *)
(* Job twice, for any number of Jobs, changes, lost watches and restarts:  *)
(* what it remembers and the events it has yet to process always leave as  *)
(* many turns as it may still announce.                                    *)
THEOREM NoProcessRepeats == Spec => []NeverRepeats
<1>1. TypeOK /\ HookInv => NeverRepeats
  <2>1. SUFFICES ASSUME TypeOK, HookInv, NEW p \in Replicas, NEW j \in Jobs, NEW k \in Kinds
                 PROVE  rep[p].sent[j][k] <= job[j].turns[k]
    BY DEF NeverRepeats
  <2>2. /\ rep[p].sent[j][k] \in Nat /\ job[j].turns[k] \in Nat /\ rep[p].events \in Seq(Events)
        /\ Ledger(rep[p].sent[j][k], rep[p].cache[j], rep[p].events, j, k, job[j])
    BY <2>1, HookFields DEF HookInv, OwnLedger
  <2> QED BY <2>2, LedgerBounds
<1> QED BY <1>1, HookInvHolds, PTL

(* Every transition is delivered at most once by all replicas together,    *)
(* for any replicas, crashes, failovers and lost calls, as long as no      *)
(* leader outlives its Lease and every new leader could list the Jobs.     *)
THEOREM DeliversAtMostOnce == Spec => []AtMostOnce
<1>1. HookInv => AtMostOnce
  BY DEF HookInv, TeamLedger, AtMostOnce
<1> QED BY <1>1, HookInvHolds, PTL
=============================================================================

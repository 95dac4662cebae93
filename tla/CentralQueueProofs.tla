------------------------- MODULE CentralQueueProofs -------------------------
(***************************************************************************)
(* Theorems about CentralQueue, for every number of jobs, workers, faults  *)
(* and removed Kubernetes Jobs: types, claims, moves of a record, the      *)
(* workloads behind the records, and the refinement of JobLifecycle.       *)
(***************************************************************************)
EXTENDS CentralQueueRefinement, TLAPS

(* What one conditional write does, whatever w made of its outcome.        *)
LEMMA CasEffect ==
  ASSUME NEW w \in Workers, NEW j \in Jobs, NEW cond, NEW item,
         NEW won, NEW refused, NEW broken,
         Cas(w, j, cond, item, won, refused, broken)
  PROVE  /\ \/ UNCHANGED rec
            \/ cond /\ rec' = [rec EXCEPT ![j] = item]
         /\ \/ Put(w, won) /\ cond /\ rec' = [rec EXCEPT ![j] = item]
            \/ Put(w, refused)
            \/ Put(w, broken)
         /\ UNCHANGED <<k8s, deletes>>
         /\ NoFault \/ Fault
  BY Zenon DEF Cas
-----------------------------------------------------------------------------
(* Types *)

LEMMA InitType == Init => TypeOK
  BY NamesAssumption
  DEF Init, TypeOK, NoItem, NoCluster, AtRest, Item, Local, Cluster, Status,
      Terminal, Transient, Active, Pcs, BusyPcs, ClaimPcs, ApplyPcs

LEMMA MovedType ==
  ASSUME NEW item \in Item, NEW status \in Status
  PROVE  Moved(item, status) \in Item
  <1>1. item.ver + 1 \in Nat
    BY DEF Item
  <1>2. ASSUME NEW v \in Nat
        PROVE  /\ [item EXCEPT !.status = status, !.ver = v] \in Item
               /\ [item EXCEPT !.status = status, !.ver = v,
                               !.owner = NoWorker, !.lease = "none"] \in Item
    BY DEF Item
  <1> QED
    BY <1>1, <1>2 DEF Moved

LEMMA LocalType ==
  ASSUME TypeOK, NEW w \in Workers
  PROVE  /\ Idle(w) \in Local
         /\ Skipped(w) \in Local
         /\ NextActive(w) \in Local
         /\ wk[w].pc \in BusyPcs => \A p \in BOOLEAN : Failing(w, p) \in Local
         /\ wk[w].pc \in BusyPcs => \A u \in Nat : Applied(w, u) \in Local
         /\ \A e \in Entry : Dropped(w, e) \in Local
         /\ \A r \in SUBSET Jobs : AtRest("idle", r) \in Local /\ AtRest("down", r) \in Local
         /\ \A j \in Jobs : EntryOf(j) \in Entry
  <1>1. wk[w] \in Local
    BY DEF TypeOK
  <1>2. Idle(w) \in Local /\ \A r \in SUBSET Jobs : AtRest("idle", r) \in Local /\ AtRest("down", r) \in Local
    BY <1>1 DEF Local, AtRest, Idle, Pcs, BusyPcs, ClaimPcs, ApplyPcs, Status
  <1>3. Skipped(w) \in Local
    BY <1>1 DEF Local, Skipped, Pcs, BusyPcs, ClaimPcs, ApplyPcs
  <1>4. NextActive(w) \in Local
    BY <1>1 DEF Local, NextActive, Pcs, BusyPcs, ClaimPcs, ApplyPcs, Status
  <1>5. wk[w].pc \in BusyPcs => \A p \in BOOLEAN : Failing(w, p) \in Local
    BY <1>1 DEF Local, Failing, Pcs, BusyPcs, ClaimPcs, ApplyPcs
  <1>6. wk[w].pc \in BusyPcs => \A u \in Nat : Applied(w, u) \in Local
    BY <1>1, <1>3 DEF Local, Applied, Pcs, BusyPcs, ClaimPcs, ApplyPcs
  <1>7. \A e \in Entry : Dropped(w, e) \in Local
    BY <1>1 DEF Local, Dropped
  <1>8. \A j \in Jobs : EntryOf(j) \in Entry
    BY DEF TypeOK, Item, Entry, EntryOf
  <1> QED
    BY <1>2, <1>3, <1>4, <1>5, <1>6, <1>7, <1>8

LEMMA PutType ==
  ASSUME TypeOK, NEW w \in Workers, NEW local \in Local, Put(w, local)
  PROVE  wk' \in [Workers -> Local]
  BY DEF TypeOK, Put

LEMMA FaultType ==
  ASSUME TypeOK, NoFault \/ Fault
  PROVE  faults' \in Nat
  BY DEF TypeOK, NoFault, Fault

(* A step of one worker that leaves the table and the cluster alone.       *)
LEMMA QuietType ==
  ASSUME TypeOK, NEW w \in Workers, NEW local \in Local, Put(w, local),
         NoFault \/ Fault, UNCHANGED <<rec, k8s, deletes>>
  PROVE  TypeOK'
  BY PutType, FaultType DEF TypeOK

LEMMA CasType ==
  ASSUME TypeOK, NEW w \in Workers, NEW j \in Jobs, NEW cond, NEW item \in Item,
         NEW won \in Local, NEW refused \in Local, NEW broken \in Local,
         Cas(w, j, cond, item, won, refused, broken)
  PROVE  TypeOK'
  <1>1. rec' \in [Jobs -> Item]
    BY CasEffect DEF TypeOK
  <1>2. wk' \in [Workers -> Local]
    BY CasEffect, PutType
  <1>3. faults' \in Nat
    BY CasEffect, FaultType
  <1> QED
    BY <1>1, <1>2, <1>3, CasEffect DEF TypeOK

LEMMA PassType ==
  ASSUME TypeOK, NEW w \in Workers,
         QueryExpired(w) \/ RequeueExpired(w) \/ QueryQueued(w) \/ EndBatch(w) \/ EndPass(w)
  PROVE  TypeOK'
  <1>0. wk[w] \in Local
    BY DEF TypeOK
  <1>1. CASE QueryExpired(w)
    <2>1. PICK claimed \in SUBSET Jobs, applying \in SUBSET Jobs :
            Put(w, [wk[w] EXCEPT !.pc = "recover",
                      !.todo = {EntryOf(j) : j \in claimed \union applying}])
      BY <1>1 DEF QueryExpired, Pages, Expired, InRegion
    <2>2. {EntryOf(j) : j \in claimed \union applying} \in SUBSET Entry
      BY LocalType
    <2>3. [wk[w] EXCEPT !.pc = "recover",
             !.todo = {EntryOf(j) : j \in claimed \union applying}] \in Local
      BY <1>0, <1>1, <2>2 DEF QueryExpired, Local, Pcs, BusyPcs, ClaimPcs, ApplyPcs
    <2> QED
      BY <1>1, <2>1, <2>3, QuietType DEF QueryExpired
  <1>2. CASE RequeueExpired(w)
    <2>1. PICK e \in wk[w].todo :
            Cas(w, e.job,
                /\ rec[e.job].status = e.status /\ rec[e.job].gen = e.gen
                /\ rec[e.job].ver = e.ver /\ rec[e.job].lease = "expired",
                Moved(rec[e.job], "queued"),
                Dropped(w, e), Dropped(w, e), Idle(w))
      BY <1>2 DEF RequeueExpired
    <2>2. e \in Entry /\ e.job \in Jobs
      BY <1>0 DEF Local, Entry
    <2>3. Moved(rec[e.job], "queued") \in Item
      BY <2>2, MovedType DEF TypeOK, Status
    <2> QED
      BY <2>1, <2>2, <2>3, LocalType, CasType
  <1>3. CASE QueryQueued(w)
    <2>1. {EntryOf(j) : j \in Top(InRegion(w, "queued"), FetchLimit)} \in SUBSET Entry
      BY LocalType DEF Top, InRegion
    <2>2. [wk[w] EXCEPT !.pc = "next",
             !.todo = {EntryOf(j) : j \in Top(InRegion(w, "queued"), FetchLimit)}] \in Local
      BY <1>0, <1>3, <2>1 DEF QueryQueued, Local, Pcs, BusyPcs, ClaimPcs, ApplyPcs
    <2> QED
      BY <1>3, <2>2, LocalType, QuietType DEF QueryQueued
  <1>4. CASE EndBatch(w)
    <2>1. {EntryOf(j) : j \in Sample(w)} \in SUBSET Entry
      BY LocalType DEF Sample, Top, InRegion
    <2>2. [wk[w] EXCEPT !.pc = "reconcile", !.attempted = 0,
             !.todo = {EntryOf(j) : j \in Sample(w)}] \in Local
      BY <1>0, <1>4, <2>1 DEF EndBatch, Local, Pcs, BusyPcs, ClaimPcs, ApplyPcs
    <2> QED
      BY <1>4, <2>2, LocalType, QuietType DEF EndBatch
  <1>5. CASE EndPass(w)
    BY <1>5, LocalType, QuietType DEF EndPass
  <1> QED
    BY <1>1, <1>2, <1>3, <1>4, <1>5

LEMMA ClaimType ==
  ASSUME TypeOK, NEW w \in Workers, DeferGated(w) \/ ClaimRead(w) \/ ClaimWrite(w)
  PROVE  TypeOK'
  <1>0. wk[w] \in Local
    BY DEF TypeOK
  <1>1. CASE DeferGated(w)
    <2>1. PICK e \in wk[w].todo : Put(w, Dropped(w, e))
      BY <1>1 DEF DeferGated
    <2>2. Dropped(w, e) \in Local
      BY <1>0, <2>1, LocalType DEF Local
    <2> QED
      BY <1>1, <2>1, <2>2, QuietType DEF DeferGated
  <1>2. CASE ClaimRead(w)
    <2>1. PICK e \in wk[w].todo :
            /\ NoFault \/ Fault
            /\ \/ Put(w, [Dropped(w, e) EXCEPT !.pc = "claimWrite", !.job = e.job,
                            !.gen = rec[e.job].gen + 1, !.snap = rec[e.job].ver])
               \/ Put(w, Dropped(w, e))
               \/ Put(w, [Dropped(w, e) EXCEPT !.attempted = @ + 1])
      BY <1>2 DEF ClaimRead
    <2>2. Dropped(w, e) \in Local /\ e.job \in Jobs
      BY <1>0, <2>1, LocalType DEF Local, Entry
    <2>3. rec[e.job].gen + 1 \in Nat /\ rec[e.job].ver \in Nat
      BY <2>2 DEF TypeOK, Item
    <2>4. Dropped(w, e).attempted + 1 \in Nat
      BY <2>2 DEF Local
    <2>5. [Dropped(w, e) EXCEPT !.pc = "claimWrite", !.job = e.job,
             !.gen = rec[e.job].gen + 1, !.snap = rec[e.job].ver] \in Local
      <3>1. ASSUME NEW g \in Nat, NEW v \in Nat
            PROVE  [Dropped(w, e) EXCEPT !.pc = "claimWrite", !.job = e.job,
                      !.gen = g, !.snap = v] \in Local
        BY <2>2, NamesAssumption DEF Local, Pcs, BusyPcs
      <3> QED
        BY <2>3, <3>1
    <2>6. [Dropped(w, e) EXCEPT !.attempted = @ + 1] \in Local
      <3>1. ASSUME NEW n \in Nat
            PROVE  [Dropped(w, e) EXCEPT !.attempted = n] \in Local
        BY <2>2 DEF Local
      <3> QED
        BY <2>4, <3>1
    <2> QED
      BY <1>2, <2>1, <2>2, <2>5, <2>6, QuietType DEF ClaimRead
  <1>3. CASE ClaimWrite(w)
    <2> DEFINE j == wk[w].job
               counted == [Skipped(w) EXCEPT !.attempted = @ + 1]
               won == [wk[w] EXCEPT !.pc = "startRead", !.snap = 0, !.attempted = @ + 1]
    <2>0. Skipped(w) \in Local
      BY LocalType
    <2>1. counted \in Local
      <3>1. Skipped(w).attempted + 1 \in Nat
        BY <2>0 DEF Local
      <3>2. ASSUME NEW n \in Nat
            PROVE  [Skipped(w) EXCEPT !.attempted = n] \in Local
        BY <2>0 DEF Local
      <3> QED
        BY <3>1, <3>2
    <2>2. won \in Local
      <3>1. wk[w].attempted + 1 \in Nat
        BY <1>0 DEF Local
      <3>2. ASSUME NEW n \in Nat
            PROVE  [wk[w] EXCEPT !.pc = "startRead", !.snap = 0, !.attempted = n] \in Local
        BY <1>0, <1>3 DEF ClaimWrite, Local, Pcs, BusyPcs, ClaimPcs
      <3> QED
        BY <3>1, <3>2
    <2>3. j \in Jobs
      BY <1>0, <1>3 DEF ClaimWrite, Local, BusyPcs
    <2>4. Claimed(w, rec[j]) \in Item
      <3>1. Moved(rec[j], "claimed") \in Item
        BY <2>3, MovedType DEF TypeOK, Status, Transient
      <3> QED
        BY <1>0, <3>1 DEF Claimed, Item, Local
    <2>5. Cas(w, j, rec[j].status = "queued" /\ rec[j].ver = wk[w].snap,
              Claimed(w, rec[j]), won, Skipped(w), counted)
      BY <1>3 DEF ClaimWrite
    <2> HIDE DEF j, counted, won
    <2> QED
      BY <2>0, <2>1, <2>2, <2>3, <2>4, <2>5, CasType
  <1> QED
    BY <1>1, <1>2, <1>3

LEMMA TransitionType ==
  ASSUME TypeOK, NEW w \in Workers,
         ReadForTransition(w) \/ StartWrite(w) \/ PendWrite(w) \/ FailWrite(w)
  PROVE  TypeOK'
  <1> DEFINE j == wk[w].job
  <1>0. wk[w] \in Local /\ wk[w].pc \in BusyPcs /\ j \in Jobs /\ rec[j] \in Item
    BY DEF TypeOK, Local, BusyPcs, ClaimPcs, ReadForTransition, StartWrite,
           PendWrite, FailWrite
  <1>1. Failing(w, FALSE) \in Local /\ Skipped(w) \in Local
    BY <1>0, LocalType
  <1>2. CASE ReadForTransition(w)
    <2>1. PICK write \in {"startWrite", "pendWrite", "failWrite"} :
            /\ \/ Put(w, [wk[w] EXCEPT !.pc = write, !.snap = rec[j].ver])
               \/ Put(w, Skipped(w))
               \/ Put(w, Failing(w, FALSE))
            /\ NoFault \/ Fault
            /\ UNCHANGED <<rec, k8s, deletes>>
      BY <1>2, Zenon DEF ReadForTransition
    <2>2. [wk[w] EXCEPT !.pc = write, !.snap = rec[j].ver] \in Local
      BY <1>0 DEF Local, Item, Pcs, BusyPcs, ClaimPcs
    <2> QED
      BY <1>1, <2>1, <2>2, QuietType
  <1>3. CASE StartWrite(w)
    <2>1. [wk[w] EXCEPT !.pc = "k8sRead", !.snap = 0] \in Local
      BY <1>0 DEF Local, Pcs, BusyPcs, ClaimPcs, ApplyPcs
    <2>2. Moved(rec[j], "applying") \in Item
      BY <1>0, MovedType DEF Status, Transient
    <2> QED
      BY <1>0, <1>1, <1>3, <2>1, <2>2, CasType DEF StartWrite
  <1>4. CASE PendWrite(w)
    <2>1. Moved(rec[j], "pending") \in Item
      BY <1>0, MovedType DEF Status, Active
    <2>2. [Moved(rec[j], "pending") EXCEPT !.uid = wk[w].uid] \in Item
      BY <1>0, <2>1 DEF Item, Local
    <2> QED
      BY <1>0, <1>1, <1>4, <2>2, CasType DEF PendWrite
  <1>5. CASE FailWrite(w)
    <2>1. Moved(rec[j], "failed") \in Item
      BY <1>0, MovedType DEF Status, Terminal
    <2>2. [Moved(rec[j], "failed") EXCEPT !.notCreated = wk[w].proof] \in Item
      BY <1>0, <2>1 DEF Item, Local
    <2> QED
      BY <1>0, <1>1, <1>5, <2>2, CasType DEF FailWrite
  <1> QED
    BY <1>2, <1>3, <1>4, <1>5

LEMMA KubernetesType ==
  ASSUME TypeOK, NEW w \in Workers,
         K8sRead(w) \/ K8sCreate(w) \/ K8sAdopt(w) \/ Heartbeat(w)
  PROVE  TypeOK'
  <1> DEFINE j == wk[w].job
  <1>0. /\ wk[w] \in Local /\ wk[w].pc \in BusyPcs /\ j \in Jobs
        /\ rec[j] \in Item /\ k8s[j] \in Cluster
    BY DEF TypeOK, Local, BusyPcs, ClaimPcs, ApplyPcs, K8sRead, K8sCreate,
           K8sAdopt, Heartbeat
  <1>1. /\ Failing(w, FALSE) \in Local /\ Failing(w, TRUE) \in Local
        /\ Skipped(w) \in Local
    BY <1>0, LocalType
  <1>2. Applied(w, k8s[j].made) \in Local /\ Applied(w, k8s[j].made + 1) \in Local
    BY <1>0, LocalType DEF Cluster
  <1>3. /\ [wk[w] EXCEPT !.pc = "k8sCreate"] \in Local
        /\ [wk[w] EXCEPT !.pc = "k8sAdopt"] \in Local
        /\ [wk[w] EXCEPT !.lost = TRUE] \in Local
    BY <1>0 DEF Local, Pcs, BusyPcs, ClaimPcs, ApplyPcs
  <1>4. CASE K8sRead(w)
    BY <1>1, <1>2, <1>3, <1>4, QuietType DEF K8sRead, K8sError
  <1>5. CASE K8sAdopt(w)
    BY <1>1, <1>2, <1>3, <1>5, QuietType DEF K8sAdopt, K8sError
  <1>6. CASE K8sCreate(w)
    <2>1. Created(k8s[j]) \in Cluster
      <3>1. k8s[j].made + 1 \in Nat
        BY <1>0 DEF Cluster
      <3>2. ASSUME NEW n \in Nat
            PROVE  [k8s[j] EXCEPT !.present = TRUE, !.made = n, !.phase = "pending"]
                     \in Cluster
        BY <1>0 DEF Cluster
      <3> QED
        BY <3>1, <3>2 DEF Created
    <2>2. k8s' \in [Jobs -> Cluster]
      BY <1>6, <2>1 DEF K8sCreate, TypeOK
    <2>3. wk' \in [Workers -> Local]
      BY <1>1, <1>2, <1>3, <1>6, PutType DEF K8sCreate, K8sError
    <2>4. faults' \in Nat
      BY <1>6, FaultType DEF K8sCreate, K8sError
    <2> QED
      BY <1>6, <2>2, <2>3, <2>4 DEF K8sCreate, TypeOK
  <1>7. CASE Heartbeat(w)
    <2>1. [rec[j] EXCEPT !.lease = "live"] \in Item
      BY <1>0 DEF Item
    <2>2. rec' \in [Jobs -> Item]
      BY <1>7, <2>1 DEF Heartbeat, TypeOK
    <2>3. wk' \in [Workers -> Local]
      BY <1>3, <1>7, PutType DEF Heartbeat, TypeOK
    <2>4. faults' \in Nat
      BY <1>7, FaultType DEF Heartbeat
    <2> QED
      BY <1>7, <2>2, <2>3, <2>4 DEF Heartbeat, TypeOK
  <1> QED
    BY <1>4, <1>5, <1>6, <1>7

LEMMA ReconcileType ==
  ASSUME TypeOK, NEW w \in Workers,
         ReconcileRead(w) \/ ReadForReconcile(w) \/ ReconcileWrite(w)
  PROVE  TypeOK'
  <1> DEFINE j == wk[w].job
  <1>0. wk[w] \in Local
    BY DEF TypeOK
  <1>1. Idle(w) \in Local /\ NextActive(w) \in Local
    BY LocalType
  <1>2. CASE ReconcileRead(w)
    <2>1. PICK e \in wk[w].todo :
            /\ \/ Put(w, [Dropped(w, e) EXCEPT !.pc = "recRead", !.job = e.job,
                            !.uid = e.uid, !.seen = e.status, !.obs = Observed(e)])
               \/ Put(w, Dropped(w, e))
            /\ NoFault \/ Fault
      BY <1>2 DEF ReconcileRead
    <2>2. Dropped(w, e) \in Local /\ e \in Entry
      BY <1>0, <2>1, LocalType DEF Local
    <2>3. Observed(e) \in Status
      <3>1. k8s[e.job] \in Cluster
        BY <2>2 DEF TypeOK, Entry
      <3> QED
        BY <3>1 DEF Observed, Cluster, Status, Active, Terminal
    <2>4. [Dropped(w, e) EXCEPT !.pc = "recRead", !.job = e.job,
             !.uid = e.uid, !.seen = e.status, !.obs = Observed(e)] \in Local
      BY <2>2, <2>3, NamesAssumption DEF Local, Entry, Pcs, BusyPcs
    <2> QED
      BY <1>2, <2>1, <2>2, <2>4, QuietType DEF ReconcileRead
  <1>3. CASE ReadForReconcile(w)
    <2>1. j \in Jobs /\ rec[j].ver \in Nat
      BY <1>0, <1>3 DEF ReadForReconcile, TypeOK, Local, Item, BusyPcs
    <2>2. [wk[w] EXCEPT !.pc = "recWrite", !.snap = rec[j].ver] \in Local
      BY <1>0, <1>3, <2>1 DEF ReadForReconcile, Local, Pcs, BusyPcs
    <2> QED
      BY <1>1, <1>3, <2>2, QuietType DEF ReadForReconcile
  <1>4. CASE ReconcileWrite(w)
    <2>1. j \in Jobs /\ wk[w].obs \in Status
      BY <1>0, <1>4 DEF ReconcileWrite, Local, BusyPcs
    <2>2. Moved(rec[j], wk[w].obs) \in Item
      BY <2>1, MovedType DEF TypeOK
    <2> QED
      BY <1>1, <1>4, <2>1, <2>2, CasType DEF ReconcileWrite
  <1> QED
    BY <1>2, <1>3, <1>4

LEMMA ClientType ==
  ASSUME TypeOK, NEW j \in Jobs,
         Submit(j) \/ RecordJobFailure(j) \/ Cancel(j) \/ LeaseRunsOut(j)
  PROVE  TypeOK'
  <1>0. rec[j] \in Item
    BY DEF TypeOK
  <1>1. \A s \in {"queued", "failed", "cancelled"} : Moved(rec[j], s) \in Item
    BY <1>0, MovedType DEF Status, Terminal
  <1>2. [rec[j] EXCEPT !.lease = "expired"] \in Item
    BY <1>0 DEF Item
  <1>3. rec' \in [Jobs -> Item]
    BY <1>1, <1>2 DEF TypeOK, Submit, RecordJobFailure, Cancel, LeaseRunsOut
  <1>4. faults' \in Nat
    BY FaultType DEF TypeOK, Submit, RecordJobFailure, Cancel, LeaseRunsOut
  <1> QED
    BY <1>3, <1>4 DEF TypeOK, Submit, RecordJobFailure, Cancel, LeaseRunsOut

LEMMA ClusterType ==
  ASSUME TypeOK, NEW j \in Jobs, K8sPods(j) \/ K8sFinish(j) \/ K8sDelete(j)
  PROVE  TypeOK'
  <1>0. k8s[j] \in Cluster
    BY DEF TypeOK
  <1>1. CASE K8sPods(j)
    <2>1. \A p \in {"pending", "running"} : [k8s[j] EXCEPT !.phase = p] \in Cluster
      BY <1>0 DEF Cluster
    <2>2. k8s' \in [Jobs -> Cluster]
      BY <1>1, <2>1 DEF K8sPods, TypeOK
    <2> QED
      BY <1>1, <2>2 DEF K8sPods, TypeOK
  <1>2. CASE K8sFinish(j)
    <2>1. k8s[j].completed \union {k8s[j].made} \in SUBSET Nat
      BY <1>0 DEF Cluster
    <2>2. ASSUME NEW c \in SUBSET Nat
          PROVE  /\ [k8s[j] EXCEPT !.phase = "complete", !.completed = c] \in Cluster
                 /\ [k8s[j] EXCEPT !.phase = "failed"] \in Cluster
      BY <1>0 DEF Cluster
    <2>3. k8s' \in [Jobs -> Cluster]
      BY <1>2, <2>1, <2>2 DEF K8sFinish, TypeOK
    <2> QED
      BY <1>2, <2>3 DEF K8sFinish, TypeOK
  <1>3. CASE K8sDelete(j)
    <2>1. [k8s[j] EXCEPT !.present = FALSE, !.phase = "pending"] \in Cluster
      BY <1>0 DEF Cluster
    <2>2. k8s' \in [Jobs -> Cluster]
      BY <1>3, <2>1 DEF K8sDelete, TypeOK
    <2> QED
      BY <1>3, <2>2 DEF K8sDelete, TypeOK
  <1> QED
    BY <1>1, <1>2, <1>3

LEMMA ProcessType ==
  ASSUME TypeOK, NEW w \in Workers, Crash(w) \/ Restart(w)
  PROVE  TypeOK'
  <1>1. CASE Crash(w)
    <2>1. AtRest("down", wk[w].rejects) \in Local
      BY LocalType DEF TypeOK, Local
    <2> QED
      BY <1>1, <2>1, QuietType DEF Crash
  <1>2. CASE Restart(w)
    <2>1. \A r \in Rejections : AtRest("idle", r) \in Local
      BY LocalType, PlacementAssumption
    <2> QED
      BY <1>2, <2>1, QuietType DEF Restart
  <1> QED
    BY <1>1, <1>2

LEMMA NextType == TypeOK /\ [Next]_vars => TypeOK'
  <1> SUFFICES ASSUME TypeOK, [Next]_vars PROVE TypeOK'
    OBVIOUS
  <1>1. CASE UNCHANGED vars
    BY <1>1 DEF vars, TypeOK
  <1>2. ASSUME NEW w \in Workers, Step(w) PROVE TypeOK'
    BY <1>2, PassType, ClaimType, TransitionType, KubernetesType, ReconcileType DEF Step
  <1>3. ASSUME NEW w \in Workers, Heartbeat(w) \/ Crash(w) \/ Restart(w) PROVE TypeOK'
    BY <1>3, KubernetesType, ProcessType
  <1>4. ASSUME NEW j \in Jobs,
               \/ Submit(j) \/ RecordJobFailure(j) \/ Cancel(j) \/ LeaseRunsOut(j)
               \/ K8sPods(j) \/ K8sFinish(j) \/ K8sDelete(j)
        PROVE  TypeOK'
    BY <1>4, ClientType, ClusterType
  <1> QED
    BY <1>1, <1>2, <1>3, <1>4 DEF Next

(* The tables, the workers' local states and the cluster keep their types; *)
(* a worker names a job exactly while it works on one.                     *)
THEOREM TypeCorrect == Spec => []TypeOK
  BY InitType, NextType, PTL DEF Spec
-----------------------------------------------------------------------------
(* Claims.  The inductive invariant says of every worker on its own what   *)
(* its local state l may be, given the item of the job it names.           *)

Complete(item) ==
  /\ (item.status \in Transient) <=> (item.owner # NoWorker)
  /\ (item.status \in Transient) <=> (item.lease # "none")

Honest(item, w, l) ==
  /\ l.pc \in ClaimPcs =>
       /\ 0 < l.gen /\ l.gen <= item.gen
       /\ l.gen = item.gen => item.owner \in {w, NoWorker}
  /\ l.pc = "claimWrite" =>
       /\ 0 < l.gen /\ l.snap <= item.ver
       /\ item.ver = l.snap => l.gen = item.gen + 1

(* What the list of a pass holds in each of its phases.                    *)
Shaped(l) ==
  /\ l.pc = "recover" => \A e \in l.todo : e.status \in Transient
  /\ l.pc \in {"reconcile", "recRead", "recWrite"} =>
       \A e \in l.todo : e.status \in Active
  /\ l.pc \in {"recRead", "recWrite"} => l.seen \in Active /\ l.obs \in Allowed[l.seen]

Distinct ==
  \A v, w \in Workers :
    v # w /\ wk[v].pc \in ClaimPcs /\ wk[w].pc \in ClaimPcs /\ wk[v].job = wk[w].job
      => wk[v].gen # wk[w].gen

FenceInv ==
  /\ TypeOK
  /\ \A j \in Jobs : Complete(rec[j])
  /\ \A w \in Workers : Honest(rec[wk[w].job], w, wk[w]) /\ Shaped(wk[w])
  /\ Distinct

LEMMA FenceMeaning == FenceInv => ClaimComplete /\ ClaimFence
  BY DEF FenceInv, ClaimComplete, ClaimFence, Complete, Honest, Distinct

LEMMA InitFence == Init => FenceInv
  <1> SUFFICES ASSUME Init PROVE FenceInv
    OBVIOUS
  <1>1. TypeOK
    BY InitType
  <1>2. \A j \in Jobs : Complete(rec[j])
    BY DEF Init, NoItem, Complete, Transient
  <1>3. \A w \in Workers : wk[w].pc = "down"
    BY DEF Init, AtRest
  <1> QED
    BY <1>1, <1>2, <1>3
    DEF FenceInv, Honest, Shaped, Distinct, ClaimPcs, ApplyPcs

(* How an item changes, other than by being claimed.                       *)
Ages(old, new) ==
  /\ new.gen = old.gen
  /\ old.ver <= new.ver
  /\ new.owner \in {old.owner, NoWorker}

LEMMA HonestAges ==
  ASSUME NEW old \in Item, NEW new \in Item, Ages(old, new),
         NEW w \in Workers, NEW l \in Local, Honest(old, w, l)
  PROVE  Honest(new, w, l)
  BY DEF Ages, Honest, Item, Local

(* How a worker's local state changes, other than by winning a claim.      *)
Tame(w, l) ==
  /\ l.pc \in ClaimPcs =>
       wk[w].pc \in ClaimPcs /\ l.job = wk[w].job /\ l.gen = wk[w].gen
  /\ l.pc = "claimWrite" =>
       l.gen = rec[l.job].gen + 1 /\ l.snap = rec[l.job].ver
  /\ Shaped(l)

(* Records that only age keep every worker that stays tame fenced.         *)
LEMMA FenceKept ==
  ASSUME FenceInv, TypeOK', NEW w \in Workers, NEW l \in Local, Tame(w, l),
         wk' = [wk EXCEPT ![w] = l],
         \A j \in Jobs : Ages(rec[j], rec'[j]) /\ Complete(rec'[j]),
         l.pc = "claimWrite" => UNCHANGED rec
  PROVE  FenceInv'
  <1> USE DEF FenceInv
  <1>1. wk \in [Workers -> Local] /\ wk' \in [Workers -> Local]
    BY DEF TypeOK
  <1>2. rec \in [Jobs -> Item] /\ rec' \in [Jobs -> Item]
    BY DEF TypeOK
  <1>3. \A v \in Workers : wk[v].job \in Jobs =>
           Honest(rec'[wk[v].job], v, wk[v])
    BY <1>1, <1>2, HonestAges
  <1>4. \A v \in Workers : wk[v].job \notin Jobs =>
           wk[v].pc \notin ClaimPcs /\ wk[v].pc # "claimWrite"
    BY <1>1 DEF Local, BusyPcs
  <1>5. \A v \in Workers : Honest(rec'[wk[v].job], v, wk[v])
    BY <1>3, <1>4 DEF Honest
  <1>6. Honest(rec'[l.job], w, l)
    <2>1. CASE l.pc \in ClaimPcs
      BY <1>5, <2>1 DEF Tame, Honest, ClaimPcs, ApplyPcs
    <2>2. CASE l.pc = "claimWrite"
      <3>1. l.job \in Jobs
        BY <2>2 DEF Local, BusyPcs
      <3>2. rec[l.job].gen \in Nat /\ rec[l.job].ver \in Nat
        BY <1>2, <3>1 DEF Item
      <3> QED
        BY <2>2, <3>2 DEF Tame, Honest, ClaimPcs, ApplyPcs
    <2>3. CASE l.pc \notin ClaimPcs /\ l.pc # "claimWrite"
      BY <2>3 DEF Honest
    <2> QED
      BY <2>1, <2>2, <2>3
  <1>7. \A v \in Workers : Honest(rec'[wk'[v].job], v, wk'[v]) /\ Shaped(wk'[v])
    BY <1>1, <1>5, <1>6 DEF Tame
  <1>8. Distinct'
    <2> SUFFICES ASSUME NEW u \in Workers, NEW v \in Workers, u # v,
                        wk'[u].pc \in ClaimPcs, wk'[v].pc \in ClaimPcs,
                        wk'[u].job = wk'[v].job
                 PROVE  wk'[u].gen # wk'[v].gen
      BY DEF Distinct
    <2>1. \A x \in {u, v} :
            /\ wk[x].pc \in ClaimPcs
            /\ wk'[x].job = wk[x].job /\ wk'[x].gen = wk[x].gen
      BY <1>1 DEF Tame
    <2> QED
      BY <2>1 DEF Distinct
  <1> QED
    BY <1>7, <1>8

(* The same, for a step that no worker takes.                              *)
LEMMA FenceKeptByOthers ==
  ASSUME FenceInv, TypeOK', UNCHANGED wk,
         \A j \in Jobs : Ages(rec[j], rec'[j]) /\ Complete(rec'[j])
  PROVE  FenceInv'
  <1> USE DEF FenceInv
  <1>1. wk \in [Workers -> Local]
    BY DEF TypeOK
  <1>2. rec \in [Jobs -> Item] /\ rec' \in [Jobs -> Item]
    BY DEF TypeOK
  <1>3. \A v \in Workers : wk[v].job \in Jobs => Honest(rec'[wk[v].job], v, wk[v])
    BY <1>1, <1>2, HonestAges
  <1>4. \A v \in Workers : wk[v].job \notin Jobs =>
           wk[v].pc \notin ClaimPcs /\ wk[v].pc # "claimWrite"
    BY <1>1 DEF Local, BusyPcs
  <1>5. \A v \in Workers : Honest(rec'[wk[v].job], v, wk[v])
    BY <1>3, <1>4 DEF Honest
  <1> QED
    BY <1>5 DEF Distinct

(* A winning claim outdates every other worker's, whoever learns of it.    *)
LEMMA FenceClaimed ==
  ASSUME FenceInv, TypeOK', NEW w \in Workers, NEW l \in Local,
         wk[w].pc = "claimWrite", rec[wk[w].job].status = "queued",
         rec[wk[w].job].ver = wk[w].snap,
         rec' = [rec EXCEPT ![wk[w].job] = Claimed(w, rec[wk[w].job])],
         wk' = [wk EXCEPT ![w] = l],
         l.pc \in ClaimPcs => l.job = wk[w].job /\ l.gen = wk[w].gen,
         l.pc # "claimWrite", Shaped(l)
  PROVE  FenceInv'
  <1> USE DEF FenceInv
  <1> DEFINE j == wk[w].job
             old == rec[j]
             new == Claimed(w, rec[j])
  <1>1. wk \in [Workers -> Local] /\ wk' \in [Workers -> Local]
    BY DEF TypeOK
  <1>2. rec \in [Jobs -> Item] /\ rec' \in [Jobs -> Item]
    BY DEF TypeOK
  <1>3. j \in Jobs /\ old \in Item /\ rec'[j] = new
    BY <1>1, <1>2 DEF Local, BusyPcs
  <1>4. wk[w].gen = old.gen + 1
    BY DEF Honest
  <1>5. /\ new.status = "claimed" /\ new.owner = w /\ new.lease = "live"
        /\ new.gen = old.gen + 1 /\ new.ver = old.ver + 1
    BY <1>3, <1>4 DEF Claimed, Moved, Transient, Item
  <1>6. \A i \in Jobs : Complete(rec'[i])
    BY <1>2, <1>3, <1>5, NamesAssumption DEF Complete, Transient
  <1>7. \A v \in Workers : Honest(rec'[wk[v].job], v, wk[v]) \/ v = w
    <2> SUFFICES ASSUME NEW v \in Workers, v # w
                 PROVE  Honest(rec'[wk[v].job], v, wk[v])
      OBVIOUS
    <2>1. CASE wk[v].job = j
      <3>1. old.gen \in Nat /\ old.ver \in Nat /\ wk[v].gen \in Nat /\ wk[v].snap \in Nat
        BY <1>1, <1>3 DEF Item, Local
      <3>2. Honest(old, v, wk[v])
        BY <2>1
      <3>3. Honest(new, v, wk[v])
        <4> HIDE DEF old, new
        <4> QED
          BY <1>5, <3>1, <3>2 DEF Honest
      <3> QED
        BY <1>3, <2>1, <3>3
    <2>2. CASE wk[v].job # j
      <3>1. CASE wk[v].job \in Jobs
        BY <1>2, <2>2, <3>1
      <3>2. CASE wk[v].job \notin Jobs
        BY <1>1, <3>2 DEF Honest, Local, BusyPcs
      <3> QED
        BY <3>1, <3>2
    <2> QED
      BY <2>1, <2>2
  <1>8. Honest(rec'[l.job], w, l)
    <2>1. CASE l.pc \in ClaimPcs
      <3>1. old.gen \in Nat
        BY <1>3 DEF Item
      <3> QED
        BY <1>3, <1>4, <1>5, <2>1, <3>1 DEF Honest
    <2>2. CASE l.pc \notin ClaimPcs
      BY <2>2 DEF Honest
    <2> QED
      BY <2>1, <2>2
  <1>9. \A v \in Workers : Honest(rec'[wk'[v].job], v, wk'[v]) /\ Shaped(wk'[v])
    BY <1>1, <1>7, <1>8
  <1>10. Distinct'
    <2>1. \A v \in Workers : wk[v].pc \in ClaimPcs /\ wk[v].job = j => wk[v].gen # old.gen + 1
      BY <1>1, <1>3 DEF Honest, Item, Local
    <2> SUFFICES ASSUME NEW u \in Workers, NEW v \in Workers, u # v,
                        wk'[u].pc \in ClaimPcs, wk'[v].pc \in ClaimPcs,
                        wk'[u].job = wk'[v].job
                 PROVE  wk'[u].gen # wk'[v].gen
      BY DEF Distinct
    <2>2. CASE u # w /\ v # w
      BY <1>1, <2>2 DEF Distinct
    <2>3. CASE u = w
      BY <1>1, <1>4, <2>1, <2>3
    <2>4. CASE v = w
      BY <1>1, <1>4, <2>1, <2>4
    <2> QED
      BY <2>2, <2>3, <2>4
  <1> QED
    BY <1>6, <1>9, <1>10

LEMMA FenceQuiet ==
  ASSUME FenceInv, TypeOK', NEW w \in Workers, NEW l \in Local, Tame(w, l),
         Put(w, l), UNCHANGED rec
  PROVE  FenceInv'
  <1>1. \A j \in Jobs : Ages(rec[j], rec'[j]) /\ Complete(rec'[j])
    BY DEF FenceInv, TypeOK, Item, Ages
  <1> QED
    BY <1>1, FenceKept DEF Put

LEMMA FenceCas ==
  ASSUME FenceInv, TypeOK', NEW w \in Workers, NEW j \in Jobs, NEW cond, NEW item \in Item,
         NEW won \in Local, NEW refused \in Local, NEW broken \in Local,
         Tame(w, won), Tame(w, refused), Tame(w, broken),
         won.pc # "claimWrite", refused.pc # "claimWrite", broken.pc # "claimWrite",
         cond => Ages(rec[j], item) /\ Complete(item),
         Cas(w, j, cond, item, won, refused, broken)
  PROVE  FenceInv'
  <1>1. \A i \in Jobs : Ages(rec[i], rec'[i]) /\ Complete(rec'[i])
    BY CasEffect DEF FenceInv, TypeOK, Item, Ages
  <1>2. PICK l \in {won, refused, broken} : Put(w, l)
    BY CasEffect
  <1> QED
    BY <1>1, <1>2, FenceKept DEF Put

LEMMA MovedFacts ==
  ASSUME NEW item \in Item, NEW status \in Status
  PROVE  /\ Moved(item, status).status = status
         /\ Moved(item, status).ver = item.ver + 1
         /\ Moved(item, status).gen = item.gen
         /\ Moved(item, status).uid = item.uid
         /\ status \in Transient =>
              /\ Moved(item, status).owner = item.owner
              /\ Moved(item, status).lease = item.lease
         /\ status \notin Transient =>
              /\ Moved(item, status).owner = NoWorker
              /\ Moved(item, status).lease = "none"
  BY DEF Moved, Item

LEMMA MovedAges ==
  ASSUME NEW item \in Item, NEW status \in Status, Complete(item),
         status \in Transient => item.status \in Transient
  PROVE  /\ Ages(item, Moved(item, status)) /\ Complete(Moved(item, status))
         /\ \A u \in Nat :
              LET m == [Moved(item, status) EXCEPT !.uid = u]
              IN  Ages(item, m) /\ Complete(m)
         /\ \A b \in BOOLEAN :
              LET m == [Moved(item, status) EXCEPT !.notCreated = b]
              IN  Ages(item, m) /\ Complete(m)
  <1> DEFINE m == Moved(item, status)
  <1>1. m \in Item
    BY MovedType
  <1>2. item.ver \in Nat
    BY DEF Item
  <1>3. /\ m.status = status /\ m.gen = item.gen /\ m.ver = item.ver + 1
        /\ status \in Transient => m.owner = item.owner /\ m.lease = item.lease
        /\ status \notin Transient => m.owner = NoWorker /\ m.lease = "none"
    BY MovedFacts
  <1> HIDE DEF m
  <1>4. Ages(item, m) /\ Complete(m)
    BY <1>2, <1>3 DEF Ages, Complete
  <1>5. \A u \in Nat : LET n == [m EXCEPT !.uid = u] IN
          n.status = m.status /\ n.gen = m.gen /\ n.ver = m.ver /\ n.owner = m.owner /\ n.lease = m.lease
    BY <1>1 DEF Item
  <1>6. \A b \in BOOLEAN : LET n == [m EXCEPT !.notCreated = b] IN
          n.status = m.status /\ n.gen = m.gen /\ n.ver = m.ver /\ n.owner = m.owner /\ n.lease = m.lease
    BY <1>1 DEF Item
  <1> QED
    BY <1>4, <1>5, <1>6 DEF Ages, Complete, m

LEMMA TameLocal ==
  ASSUME FenceInv, NEW w \in Workers
  PROVE  /\ Tame(w, Idle(w)) /\ Tame(w, Skipped(w))
         /\ \A r \in SUBSET Jobs : Tame(w, AtRest("idle", r)) /\ Tame(w, AtRest("down", r))
         /\ wk[w].pc \in ClaimPcs =>
              /\ \A p \in BOOLEAN : Tame(w, Failing(w, p))
              /\ \A u \in Nat : Tame(w, Applied(w, u))
         /\ wk[w].pc \in {"recover", "next", "reconcile"} =>
              \A e \in Entry : Tame(w, Dropped(w, e))
         /\ wk[w].pc \in {"recRead", "recWrite"} => Tame(w, NextActive(w))
         /\ Idle(w).pc = "idle" /\ Skipped(w).pc = "next" /\ NextActive(w).pc = "reconcile"
         /\ \A p \in BOOLEAN : Failing(w, p).pc = "failRead"
  <1>0. wk[w] \in Local /\ Shaped(wk[w])
    BY DEF FenceInv, TypeOK
  <1>1. /\ Idle(w).pc = "idle"
        /\ \A r \in SUBSET Jobs : AtRest("idle", r).pc = "idle" /\ AtRest("down", r).pc = "down"
    BY DEF Idle, AtRest
  <1>2. Tame(w, Idle(w)) /\ \A r \in SUBSET Jobs : Tame(w, AtRest("idle", r)) /\ Tame(w, AtRest("down", r))
    BY <1>1 DEF Tame, Shaped, ClaimPcs, ApplyPcs
  <1>3. Skipped(w).pc = "next"
    BY <1>0 DEF Skipped, Local
  <1>4. Tame(w, Skipped(w))
    BY <1>3 DEF Tame, Shaped, ClaimPcs, ApplyPcs
  <1>5. \A p \in BOOLEAN : /\ Failing(w, p).pc = "failRead"
                           /\ Failing(w, p).job = wk[w].job /\ Failing(w, p).gen = wk[w].gen
    BY <1>0 DEF Failing, Local
  <1>6. wk[w].pc \in ClaimPcs => \A p \in BOOLEAN : Tame(w, Failing(w, p))
    BY <1>5 DEF Tame, Shaped
  <1>7. wk[w].pc \in ClaimPcs => \A u \in Nat : Tame(w, Applied(w, u))
    <2> SUFFICES ASSUME wk[w].pc \in ClaimPcs, NEW u \in Nat PROVE Tame(w, Applied(w, u))
      OBVIOUS
    <2>1. CASE wk[w].lost
      BY <1>4, <2>1 DEF Applied
    <2>2. CASE ~wk[w].lost
      <3>1. /\ Applied(w, u).pc = "pendRead" /\ Applied(w, u).job = wk[w].job
            /\ Applied(w, u).gen = wk[w].gen
        BY <1>0, <2>2 DEF Applied, Local
      <3> QED
        BY <3>1 DEF Tame, Shaped
    <2> QED
      BY <2>1, <2>2
  <1>8. wk[w].pc \in {"recover", "next", "reconcile"} => \A e \in Entry : Tame(w, Dropped(w, e))
    <2> SUFFICES ASSUME wk[w].pc \in {"recover", "next", "reconcile"}, NEW e \in Entry
                 PROVE  Tame(w, Dropped(w, e))
      OBVIOUS
    <2>1. Dropped(w, e).pc = wk[w].pc /\ Dropped(w, e).todo \subseteq wk[w].todo
      BY <1>0 DEF Dropped, Local
    <2> QED
      BY <1>0, <2>1 DEF Tame, Shaped, ClaimPcs, ApplyPcs
  <1>9. wk[w].pc \in {"recRead", "recWrite"} => Tame(w, NextActive(w))
    <2>1. NextActive(w).pc = "reconcile" /\ NextActive(w).todo = wk[w].todo
      BY <1>0 DEF NextActive, Local
    <2> QED
      BY <1>0, <2>1 DEF Tame, Shaped, ClaimPcs, ApplyPcs
  <1>10. NextActive(w).pc = "reconcile"
    BY <1>0 DEF NextActive, Local
  <1> QED
    BY <1>1, <1>2, <1>3, <1>4, <1>5, <1>6, <1>7, <1>8, <1>9, <1>10

LEMMA PassFence ==
  ASSUME FenceInv, TypeOK', NEW w \in Workers,
         QueryExpired(w) \/ RequeueExpired(w) \/ QueryQueued(w) \/ EndBatch(w) \/ EndPass(w)
  PROVE  FenceInv'
  <1>0. TypeOK /\ wk[w] \in Local /\ wk' \in [Workers -> Local]
    BY DEF FenceInv, TypeOK
  <1>1. CASE QueryExpired(w)
    <2>1. PICK claimed \in SUBSET Jobs, applying \in SUBSET Jobs :
            /\ \A j \in claimed \union applying : rec[j].status \in Transient
            /\ Put(w, [wk[w] EXCEPT !.pc = "recover",
                        !.todo = {EntryOf(j) : j \in claimed \union applying}])
      BY <1>1 DEF QueryExpired, Pages, Expired, InRegion, Transient
    <2> DEFINE l == [wk[w] EXCEPT !.pc = "recover",
                       !.todo = {EntryOf(j) : j \in claimed \union applying}]
    <2>2. l.pc = "recover" /\ l.todo = {EntryOf(j) : j \in claimed \union applying}
      BY <1>0 DEF Local
    <2>3. \A e \in l.todo : e.status \in Transient
      BY <2>1, <2>2 DEF EntryOf
    <2>4. Tame(w, l)
      BY <2>2, <2>3 DEF Tame, Shaped, ClaimPcs, ApplyPcs
    <2>5. l \in Local
      BY <1>0, <2>1 DEF Put
    <2> QED
      BY <1>1, <2>1, <2>4, <2>5, FenceQuiet DEF QueryExpired
  <1>2. CASE RequeueExpired(w)
    <2>1. PICK e \in wk[w].todo :
            Cas(w, e.job,
                /\ rec[e.job].status = e.status /\ rec[e.job].gen = e.gen
                /\ rec[e.job].ver = e.ver /\ rec[e.job].lease = "expired",
                Moved(rec[e.job], "queued"),
                Dropped(w, e), Dropped(w, e), Idle(w))
      BY <1>2 DEF RequeueExpired
    <2>2. e \in Entry /\ e.job \in Jobs /\ rec[e.job] \in Item /\ Complete(rec[e.job])
      BY <1>0, <2>1 DEF Local, Entry, FenceInv, TypeOK
    <2>3. "queued" \in Status /\ "queued" \notin Transient
      BY DEF Status, Transient
    <2>4. /\ Moved(rec[e.job], "queued") \in Item
          /\ Ages(rec[e.job], Moved(rec[e.job], "queued"))
          /\ Complete(Moved(rec[e.job], "queued"))
      BY <2>2, <2>3, MovedType, MovedAges
    <2>5. /\ Tame(w, Dropped(w, e)) /\ Tame(w, Idle(w))
          /\ Dropped(w, e) \in Local /\ Idle(w) \in Local
      BY <1>0, <1>2, <2>2, TameLocal, LocalType DEF RequeueExpired
    <2>6. Dropped(w, e).pc = "recover" /\ Idle(w).pc = "idle"
      BY <1>0, <1>2 DEF RequeueExpired, Dropped, Idle, AtRest, Local
    <2> QED
      BY <2>1, <2>2, <2>4, <2>5, <2>6, FenceCas
  <1>3. CASE QueryQueued(w)
    <2>1. PICK l : (l = Idle(w) \/ l.pc = "next") /\ Put(w, l)
      BY <1>0, <1>3 DEF QueryQueued, Local
    <2>2. l \in Local
      BY <1>0, <2>1 DEF Put
    <2>3. Tame(w, l)
      BY <2>1, TameLocal DEF Tame, Shaped, ClaimPcs, ApplyPcs
    <2> QED
      BY <1>3, <2>1, <2>2, <2>3, FenceQuiet DEF QueryQueued
  <1>4. CASE EndBatch(w)
    <2> DEFINE l == [wk[w] EXCEPT !.pc = "reconcile", !.attempted = 0,
                       !.todo = {EntryOf(j) : j \in Sample(w)}]
    <2>1. Put(w, l) \/ Put(w, Idle(w))
      BY <1>4 DEF EndBatch
    <2>2. l.pc = "reconcile" /\ l.todo = {EntryOf(j) : j \in Sample(w)}
      BY <1>0 DEF Local
    <2>3. \A e \in l.todo : e.status \in Active
      <3>1. \A j \in Sample(w) : rec[j].status \in Active
        BY DEF Sample, Top, InRegion, Active
      <3> QED
        BY <2>2, <3>1 DEF EntryOf
    <2>4. Tame(w, l) /\ Tame(w, Idle(w))
      BY <2>2, <2>3, TameLocal DEF Tame, Shaped, ClaimPcs, ApplyPcs
    <2>5. Idle(w) \in Local /\ (Put(w, l) => l \in Local)
      BY <1>0, LocalType DEF Put
    <2> HIDE DEF l
    <2> QED
      BY <1>4, <2>1, <2>4, <2>5, FenceQuiet DEF EndBatch
  <1>5. CASE EndPass(w)
    BY <1>0, <1>5, LocalType, TameLocal, FenceQuiet DEF EndPass
  <1> QED
    BY <1>1, <1>2, <1>3, <1>4, <1>5

LEMMA ClaimStepFence ==
  ASSUME FenceInv, TypeOK', NEW w \in Workers,
         DeferGated(w) \/ ClaimRead(w) \/ ClaimWrite(w)
  PROVE  FenceInv'
  <1>0. TypeOK /\ wk[w] \in Local /\ wk' \in [Workers -> Local]
    BY DEF FenceInv, TypeOK
  <1>1. CASE DeferGated(w)
    <2>1. PICK e \in wk[w].todo : wk[w].pc = "next" /\ Put(w, Dropped(w, e))
      BY <1>1 DEF DeferGated, Candidate
    <2>2. e \in Entry
      BY <1>0, <2>1 DEF Local
    <2> QED
      BY <1>0, <1>1, <2>1, <2>2, LocalType, TameLocal, FenceQuiet DEF DeferGated
  <1>2. CASE ClaimRead(w)
    <2>1. PICK e \in wk[w].todo :
            /\ wk[w].pc = "next"
            /\ \/ Put(w, [Dropped(w, e) EXCEPT !.pc = "claimWrite", !.job = e.job,
                            !.gen = rec[e.job].gen + 1, !.snap = rec[e.job].ver])
               \/ Put(w, Dropped(w, e))
               \/ Put(w, [Dropped(w, e) EXCEPT !.attempted = @ + 1])
      BY <1>2 DEF ClaimRead, Candidate
    <2>2. e \in Entry /\ Dropped(w, e) \in Local /\ Dropped(w, e).pc = "next"
      BY <1>0, <2>1, LocalType DEF Local, Dropped
    <2> DEFINE l == wk'[w]
    <2>3. l \in Local /\ Put(w, l)
      BY <1>0, <2>1 DEF Put, TypeOK
    <2>4. \/ l.pc = "next"
          \/ /\ l.pc = "claimWrite" /\ l.job = e.job
             /\ l.gen = rec[e.job].gen + 1 /\ l.snap = rec[e.job].ver
      <3>1. \/ l = [Dropped(w, e) EXCEPT !.pc = "claimWrite", !.job = e.job,
                       !.gen = rec[e.job].gen + 1, !.snap = rec[e.job].ver]
            \/ l = Dropped(w, e)
            \/ l = [Dropped(w, e) EXCEPT !.attempted = @ + 1]
        BY <1>0, <2>1 DEF Put, TypeOK
      <3> QED
        BY <2>2, <3>1 DEF Local
    <2>5. Tame(w, l)
      BY <2>4 DEF Tame, Shaped, ClaimPcs, ApplyPcs
    <2> HIDE DEF l
    <2> QED
      BY <1>2, <2>3, <2>5, FenceQuiet DEF ClaimRead
  <1>3. CASE ClaimWrite(w)
    <2> DEFINE j == wk[w].job
               cond == rec[j].status = "queued" /\ rec[j].ver = wk[w].snap
               won == [wk[w] EXCEPT !.pc = "startRead", !.snap = 0, !.attempted = @ + 1]
               counted == [Skipped(w) EXCEPT !.attempted = @ + 1]
    <2>1. Cas(w, j, cond, Claimed(w, rec[j]), won, Skipped(w), counted) /\ wk[w].pc = "claimWrite"
      BY <1>3 DEF ClaimWrite
    <2>2. j \in Jobs
      BY <1>0, <2>1 DEF Local, BusyPcs
    <2>3. won.pc = "startRead" /\ won.job = j /\ won.gen = wk[w].gen
      BY <1>0 DEF Local
    <2>4. Skipped(w).pc = "next" /\ counted.pc = "next"
      BY <1>0, LocalType DEF Skipped, Local
    <2> HIDE DEF j, cond, won, counted
    <2>5. \/ /\ cond /\ rec' = [rec EXCEPT ![j] = Claimed(w, rec[j])]
             /\ Put(w, won) \/ Put(w, Skipped(w)) \/ Put(w, counted)
          \/ UNCHANGED rec /\ (Put(w, Skipped(w)) \/ Put(w, counted))
      BY <2>1, Zenon DEF Cas
    <2>6. CASE UNCHANGED rec /\ (Put(w, Skipped(w)) \/ Put(w, counted))
      <3>1. PICK l \in Local : Put(w, l) /\ l.pc = "next"
        BY <1>0, <2>4, <2>6 DEF Put
      <3>2. Tame(w, l)
        BY <3>1 DEF Tame, Shaped, ClaimPcs, ApplyPcs
      <3> QED
        BY <2>6, <3>1, <3>2, FenceQuiet
    <2>7. CASE /\ cond /\ rec' = [rec EXCEPT ![j] = Claimed(w, rec[j])]
               /\ Put(w, won) \/ Put(w, Skipped(w)) \/ Put(w, counted)
      <3>1. PICK l \in Local :
              /\ Put(w, l)
              /\ l.pc = "next" \/ (l.pc = "startRead" /\ l.job = j /\ l.gen = wk[w].gen)
        BY <1>0, <2>3, <2>4, <2>7 DEF Put
      <3>2. Shaped(l) /\ l.pc # "claimWrite" /\ (l.pc \in ClaimPcs => l.job = j /\ l.gen = wk[w].gen)
        BY <3>1 DEF Shaped, ClaimPcs, ApplyPcs
      <3> QED
        BY <2>1, <2>7, <3>1, <3>2, FenceClaimed DEF j, cond, Put
    <2> QED
      BY <2>5, <2>6, <2>7
  <1> QED
    BY <1>1, <1>2, <1>3

LEMMA TransitionFence ==
  ASSUME FenceInv, TypeOK', NEW w \in Workers,
         ReadForTransition(w) \/ StartWrite(w) \/ PendWrite(w) \/ FailWrite(w)
  PROVE  FenceInv'
  <1> DEFINE j == wk[w].job
             item == rec[j]
  <1>0. /\ TypeOK /\ wk[w] \in Local /\ wk[w].pc \in ClaimPcs /\ j \in Jobs
        /\ item \in Item /\ Complete(item)
    BY DEF FenceInv, TypeOK, Local, BusyPcs, ClaimPcs, ReadForTransition, StartWrite,
           PendWrite, FailWrite
  <1>1. /\ Failing(w, FALSE) \in Local /\ Tame(w, Failing(w, FALSE))
        /\ Failing(w, FALSE).pc # "claimWrite"
        /\ Skipped(w) \in Local /\ Tame(w, Skipped(w)) /\ Skipped(w).pc # "claimWrite"
    BY <1>0, LocalType, TameLocal DEF BusyPcs
  <1>2. CASE ReadForTransition(w)
    <2>1. PICK write \in {"startWrite", "pendWrite", "failWrite"} :
            /\ \/ Put(w, [wk[w] EXCEPT !.pc = write, !.snap = rec[j].ver])
               \/ Put(w, Skipped(w))
               \/ Put(w, Failing(w, FALSE))
            /\ UNCHANGED rec
      BY <1>2, Zenon DEF ReadForTransition
    <2> DEFINE l == [wk[w] EXCEPT !.pc = write, !.snap = rec[j].ver]
    <2>2. l \in Local
      BY <1>0 DEF Local, Item, Pcs, BusyPcs, ClaimPcs
    <2>3. l.pc = write /\ l.job = wk[w].job /\ l.gen = wk[w].gen
      BY <1>0 DEF Local
    <2>4. Tame(w, l)
      BY <1>0, <2>3 DEF Tame, Shaped
    <2> HIDE DEF l
    <2> QED
      BY <1>1, <2>1, <2>2, <2>4, FenceQuiet DEF l
  <1>3. CASE StartWrite(w)
    <2> DEFINE l == [wk[w] EXCEPT !.pc = "k8sRead", !.snap = 0]
    <2>1. l \in Local /\ l.pc = "k8sRead" /\ l.job = wk[w].job /\ l.gen = wk[w].gen
      BY <1>0 DEF Local, Pcs, BusyPcs, ClaimPcs, ApplyPcs
    <2>2. Tame(w, l)
      BY <1>0, <2>1 DEF Tame, Shaped
    <2>3. "applying" \in Status
      BY DEF Status, Transient
    <2>4. Moved(item, "applying") \in Item
      BY <1>0, <2>3, MovedType
    <2>5. Fenced(w, "claimed") =>
            Ages(item, Moved(item, "applying")) /\ Complete(Moved(item, "applying"))
      BY <1>0, <2>3, MovedAges DEF Fenced, Transient
    <2>6. Cas(w, j, Fenced(w, "claimed"), Moved(item, "applying"),
              l, Skipped(w), Failing(w, FALSE))
      BY <1>3 DEF StartWrite
    <2> HIDE DEF l, j, item
    <2> QED
      BY <1>0, <1>1, <2>1, <2>2, <2>4, <2>5, <2>6, FenceCas DEF item
  <1>4. CASE PendWrite(w)
    <2> DEFINE new == [Moved(item, "pending") EXCEPT !.uid = wk[w].uid]
    <2>1. "pending" \in Status /\ "pending" \notin Transient /\ wk[w].uid \in Nat
      BY <1>0 DEF Status, Active, Transient, Local
    <2>2. Moved(item, "pending") \in Item
      BY <1>0, <2>1, MovedType
    <2>3. new \in Item
      BY <2>1, <2>2 DEF Item
    <2>4. Ages(item, new) /\ Complete(new)
      BY <1>0, <2>1, MovedAges
    <2>5. Cas(w, j, Fenced(w, "applying"), new, Skipped(w), Skipped(w), Failing(w, FALSE))
      BY <1>4 DEF PendWrite
    <2> HIDE DEF new, j, item
    <2> QED
      BY <1>0, <1>1, <2>3, <2>4, <2>5, FenceCas DEF item
  <1>5. CASE FailWrite(w)
    <2> DEFINE new == [Moved(item, "failed") EXCEPT !.notCreated = wk[w].proof]
    <2>1. "failed" \in Status /\ "failed" \notin Transient /\ wk[w].proof \in BOOLEAN
      BY <1>0 DEF Status, Terminal, Transient, Local
    <2>2. Moved(item, "failed") \in Item
      BY <1>0, <2>1, MovedType
    <2>3. new \in Item
      BY <2>1, <2>2 DEF Item
    <2>4. Ages(item, new) /\ Complete(new)
      BY <1>0, <2>1, MovedAges
    <2>5. Cas(w, j, Fenced(w, "applying"), new, Skipped(w), Skipped(w), Skipped(w))
      BY <1>5 DEF FailWrite
    <2> HIDE DEF new, j, item
    <2> QED
      BY <1>0, <1>1, <2>3, <2>4, <2>5, FenceCas DEF item
  <1> QED
    BY <1>2, <1>3, <1>4, <1>5

LEMMA KubernetesFence ==
  ASSUME FenceInv, TypeOK', NEW w \in Workers,
         K8sRead(w) \/ K8sCreate(w) \/ K8sAdopt(w) \/ Heartbeat(w)
  PROVE  FenceInv'
  <1> DEFINE j == wk[w].job
             lost == [wk[w] EXCEPT !.lost = TRUE]
  <1>0. /\ TypeOK /\ wk[w] \in Local /\ wk[w].pc \in ClaimPcs /\ j \in Jobs
        /\ rec[j] \in Item /\ Complete(rec[j]) /\ k8s[j].made \in Nat
    BY DEF FenceInv, TypeOK, Local, Cluster, BusyPcs, ClaimPcs, ApplyPcs, K8sRead,
           K8sCreate, K8sAdopt, Heartbeat
  <1>1. \A p \in BOOLEAN : Failing(w, p) \in Local /\ Tame(w, Failing(w, p))
    BY <1>0, LocalType, TameLocal DEF BusyPcs
  <1>2. \A u \in Nat : Applied(w, u) \in Local /\ Tame(w, Applied(w, u))
    BY <1>0, LocalType, TameLocal DEF BusyPcs
  <1>3. Skipped(w) \in Local /\ Tame(w, Skipped(w))
    BY LocalType, TameLocal, <1>0
  <1>4. \A pc \in {"k8sCreate", "k8sAdopt"} :
          [wk[w] EXCEPT !.pc = pc] \in Local /\ Tame(w, [wk[w] EXCEPT !.pc = pc])
    <2> SUFFICES ASSUME NEW pc \in {"k8sCreate", "k8sAdopt"}
                 PROVE  [wk[w] EXCEPT !.pc = pc] \in Local /\ Tame(w, [wk[w] EXCEPT !.pc = pc])
      OBVIOUS
    <2> DEFINE l == [wk[w] EXCEPT !.pc = pc]
    <2>1. l \in Local /\ l.pc = pc /\ l.job = wk[w].job /\ l.gen = wk[w].gen
      BY <1>0 DEF Local, Pcs, BusyPcs, ClaimPcs, ApplyPcs
    <2> HIDE DEF l
    <2>2. Tame(w, l)
      BY <1>0, <2>1 DEF Tame, Shaped
    <2> QED
      BY <2>1, <2>2 DEF l
  <1>5. /\ lost \in Local /\ Tame(w, lost) /\ lost.pc # "claimWrite"
    <2>1. lost \in Local /\ lost.pc = wk[w].pc /\ lost.job = wk[w].job /\ lost.gen = wk[w].gen
      BY <1>0 DEF Local
    <2> HIDE DEF lost
    <2> QED
      BY <1>0, <2>1 DEF Tame, Shaped, ClaimPcs, ApplyPcs
  <1>6. CASE K8sRead(w)
    BY <1>0, <1>1, <1>2, <1>3, <1>4, <1>6, FenceQuiet DEF K8sRead, K8sError
  <1>7. CASE K8sCreate(w)
    <2>1. \/ Put(w, Applied(w, k8s[j].made + 1)) \/ Put(w, Skipped(w))
          \/ Put(w, Failing(w, FALSE)) \/ Put(w, [wk[w] EXCEPT !.pc = "k8sAdopt"])
      BY <1>7 DEF K8sCreate, K8sError
    <2>2. k8s[j].made + 1 \in Nat /\ UNCHANGED rec
      BY <1>0, <1>7 DEF K8sCreate
    <2> QED
      BY <1>1, <1>2, <1>3, <1>4, <2>1, <2>2, FenceQuiet
  <1>8. CASE K8sAdopt(w)
    BY <1>0, <1>1, <1>2, <1>3, <1>4, <1>8, FenceQuiet DEF K8sAdopt, K8sError
  <1>9. CASE Heartbeat(w)
    <2>1. \/ UNCHANGED rec
          \/ /\ rec[j].status \in Transient
             /\ rec' = [rec EXCEPT ![j].lease = "live"]
      BY <1>9 DEF Heartbeat
    <2>2. \A i \in Jobs : Ages(rec[i], rec'[i]) /\ Complete(rec'[i])
      BY <2>1 DEF FenceInv, TypeOK, Item, Ages, Complete
    <2>3. UNCHANGED wk \/ Put(w, lost)
      BY <1>9 DEF Heartbeat
    <2> HIDE DEF lost
    <2> QED
      BY <1>5, <2>2, <2>3, FenceKept, FenceKeptByOthers DEF Put
  <1> QED
    BY <1>6, <1>7, <1>8, <1>9

LEMMA ReconcileFence ==
  ASSUME FenceInv, TypeOK', NEW w \in Workers,
         ReconcileRead(w) \/ ReadForReconcile(w) \/ ReconcileWrite(w)
  PROVE  FenceInv'
  <1> DEFINE j == wk[w].job
  <1>0. TypeOK /\ wk[w] \in Local /\ wk' \in [Workers -> Local] /\ Shaped(wk[w])
    BY DEF FenceInv, TypeOK
  <1>1. /\ Idle(w) \in Local /\ Tame(w, Idle(w)) /\ Idle(w).pc # "claimWrite"
        /\ NextActive(w) \in Local /\ NextActive(w).pc # "claimWrite"
    BY LocalType, TameLocal, <1>0
  <1>2. CASE ReconcileRead(w)
    <2>1. PICK e \in wk[w].todo :
            \/ /\ Observed(e) \notin {"pending", e.status}
               /\ Put(w, [Dropped(w, e) EXCEPT !.pc = "recRead", !.job = e.job,
                            !.uid = e.uid, !.seen = e.status, !.obs = Observed(e)])
            \/ Put(w, Dropped(w, e))
      BY <1>2 DEF ReconcileRead
    <2>2. /\ e \in Entry /\ Dropped(w, e) \in Local /\ e.status \in Active
          /\ wk[w].pc = "reconcile"
      BY <1>0, <1>2, <2>1, LocalType DEF Local, Shaped, ReconcileRead
    <2>3. CASE Put(w, Dropped(w, e))
      BY <1>0, <1>2, <2>2, <2>3, TameLocal, FenceQuiet DEF ReconcileRead
    <2>4. CASE /\ Observed(e) \notin {"pending", e.status}
               /\ Put(w, [Dropped(w, e) EXCEPT !.pc = "recRead", !.job = e.job,
                            !.uid = e.uid, !.seen = e.status, !.obs = Observed(e)])
      <3> DEFINE l == [Dropped(w, e) EXCEPT !.pc = "recRead", !.job = e.job,
                         !.uid = e.uid, !.seen = e.status, !.obs = Observed(e)]
      <3>1. l \in Local
        BY <1>0, <2>4 DEF Put, TypeOK
      <3>2. /\ l.pc = "recRead" /\ l.todo \subseteq wk[w].todo
            /\ l.seen = e.status /\ l.obs = Observed(e)
        BY <1>0, <2>2 DEF Local, Dropped
      <3>3. Observed(e) \in {"running", "succeeded", "failed"} \ {e.status}
        <4>1. k8s[e.job].phase \in {"pending", "running", "complete", "failed"}
          BY <1>0, <2>2 DEF TypeOK, Entry, Cluster
        <4> QED
          BY <2>4, <4>1 DEF Observed
      <3>4. Observed(e) \in Allowed[e.status]
        BY <2>2, <3>3 DEF Allowed, Active, Status
      <3>5. \A f \in wk[w].todo : f.status \in Active
        BY <1>0, <2>2 DEF Shaped
      <3> HIDE DEF l
      <3>6. Tame(w, l)
        BY <2>2, <3>2, <3>4, <3>5 DEF Tame, Shaped, ClaimPcs, ApplyPcs
      <3> QED
        BY <1>2, <2>4, <3>1, <3>6, FenceQuiet DEF ReconcileRead, l
    <2> QED
      BY <2>1, <2>3, <2>4
  <1>3. CASE ReadForReconcile(w)
    <2> DEFINE l == [wk[w] EXCEPT !.pc = "recWrite", !.snap = rec[j].ver]
    <2>1. Put(w, l) \/ Put(w, NextActive(w)) \/ Put(w, Idle(w))
      BY <1>3 DEF ReadForReconcile
    <2>2. /\ l.pc = "recWrite" /\ l.todo = wk[w].todo
          /\ l.seen = wk[w].seen /\ l.obs = wk[w].obs
      BY <1>0 DEF Local
    <2>3. Put(w, l) => l \in Local
      BY <1>0 DEF Put, TypeOK
    <2> HIDE DEF l
    <2>4. Tame(w, l)
      BY <1>0, <1>3, <2>2 DEF ReadForReconcile, Tame, Shaped, ClaimPcs, ApplyPcs
    <2>5. Tame(w, NextActive(w))
      BY <1>3, TameLocal DEF ReadForReconcile
    <2> QED
      BY <1>1, <1>3, <2>1, <2>3, <2>4, <2>5, FenceQuiet DEF ReadForReconcile
  <1>4. CASE ReconcileWrite(w)
    <2> DEFINE item == rec[j]
               cond == /\ item.status = wk[w].seen /\ item.ver = wk[w].snap
                       /\ item.uid = wk[w].uid
               new == Moved(item, wk[w].obs)
    <2>1. Cas(w, j, cond, new, NextActive(w), NextActive(w), Idle(w))
      BY <1>4 DEF ReconcileWrite
    <2>2. j \in Jobs /\ item \in Item /\ Complete(item) /\ wk[w].obs \in Status
      BY <1>0, <1>4 DEF ReconcileWrite, Local, BusyPcs, FenceInv, TypeOK
    <2>3. wk[w].obs \notin Transient
      BY <1>0, <1>4 DEF ReconcileWrite, Shaped, Allowed, Active, Status, Transient
    <2>4. new \in Item /\ Ages(item, new) /\ Complete(new)
      BY <2>2, <2>3, MovedType, MovedAges
    <2>5. Tame(w, NextActive(w))
      BY <1>4, TameLocal DEF ReconcileWrite
    <2> HIDE DEF j, item, cond, new
    <2> QED
      BY <1>1, <2>1, <2>2, <2>4, <2>5, FenceCas DEF item
  <1> QED
    BY <1>2, <1>3, <1>4

LEMMA ClientFence ==
  ASSUME FenceInv, TypeOK', NEW j \in Jobs,
         Submit(j) \/ RecordJobFailure(j) \/ Cancel(j) \/ LeaseRunsOut(j)
  PROVE  FenceInv'
  <1>0. TypeOK /\ rec[j] \in Item /\ Complete(rec[j])
    BY DEF FenceInv, TypeOK
  <1>1. \A s \in {"queued", "failed", "cancelled"} :
          Ages(rec[j], Moved(rec[j], s)) /\ Complete(Moved(rec[j], s))
    BY <1>0, MovedAges DEF Status, Terminal, Transient
  <1>2. rec[j].lease = "live" =>
          LET m == [rec[j] EXCEPT !.lease = "expired"] IN Ages(rec[j], m) /\ Complete(m)
    BY <1>0 DEF Item, Ages, Complete
  <1>3. \E m \in {Moved(rec[j], "queued"), Moved(rec[j], "failed"),
                  Moved(rec[j], "cancelled"), [rec[j] EXCEPT !.lease = "expired"]} :
          rec' = [rec EXCEPT ![j] = m] /\ Ages(rec[j], m) /\ Complete(m)
    BY <1>1, <1>2 DEF Submit, RecordJobFailure, Cancel, LeaseRunsOut
  <1>4. \A i \in Jobs : Ages(rec[i], rec'[i]) /\ Complete(rec'[i])
    BY <1>3 DEF FenceInv, TypeOK, Item, Ages
  <1> QED
    BY <1>4, FenceKeptByOthers DEF Submit, RecordJobFailure, Cancel, LeaseRunsOut

LEMMA FenceStep == FenceInv /\ [Next]_vars => FenceInv'
  <1> SUFFICES ASSUME FenceInv, [Next]_vars PROVE FenceInv'
    OBVIOUS
  <1>0. TypeOK /\ TypeOK'
    BY NextType DEF FenceInv
  <1>1. ASSUME UNCHANGED <<rec, wk>> PROVE FenceInv'
    BY <1>0, <1>1 DEF FenceInv, Distinct
  <1>2. ASSUME NEW w \in Workers, Step(w) PROVE FenceInv'
    BY <1>0, <1>2, PassFence, ClaimStepFence, TransitionFence, KubernetesFence,
       ReconcileFence DEF Step
  <1>3. ASSUME NEW w \in Workers, Crash(w) \/ Restart(w) PROVE FenceInv'
    <2>1. \A r \in Rejections : r \in SUBSET Jobs
      BY PlacementAssumption
    <2>2. wk[w].rejects \in SUBSET Jobs
      BY <1>0 DEF TypeOK, Local
    <2> QED
      BY <1>0, <1>3, <2>1, <2>2, LocalType, TameLocal, FenceQuiet DEF Crash, Restart
  <1>4. ASSUME NEW w \in Workers, Heartbeat(w) PROVE FenceInv'
    BY <1>0, <1>4, KubernetesFence
  <1>5. ASSUME NEW j \in Jobs,
               Submit(j) \/ RecordJobFailure(j) \/ Cancel(j) \/ LeaseRunsOut(j)
        PROVE  FenceInv'
    BY <1>0, <1>5, ClientFence
  <1>6. ASSUME NEW j \in Jobs, K8sPods(j) \/ K8sFinish(j) \/ K8sDelete(j)
        PROVE  FenceInv'
    BY <1>1, <1>6 DEF K8sPods, K8sFinish, K8sDelete
  <1> QED
    BY <1>1, <1>2, <1>3, <1>4, <1>5, <1>6 DEF Next, vars

LEMMA FenceHolds == Spec => []FenceInv
  BY InitFence, FenceStep, PTL DEF Spec

(* No process ever holds a claim the table has given to another, and no    *)
(* two processes hold one generation of one job, however they crash, stall *)
(* and retry.                                                              *)
THEOREM ClaimsFenced == Spec => []ClaimFence
  <1>1. FenceInv => ClaimFence
    BY FenceMeaning
  <1> QED
    BY <1>1, FenceHolds, PTL

(* No record is ever left with half a claim, which recovery would refuse.  *)
THEOREM ClaimsComplete == Spec => []ClaimComplete
  <1>1. FenceInv => ClaimComplete
    BY FenceMeaning
  <1> QED
    BY <1>1, FenceHolds, PTL
-----------------------------------------------------------------------------
(* What a step does to one record, whoever takes it.                       *)

(* The item of j is left alone, loses or regains its lease, is moved by a  *)
(* write whose guard held, or is claimed.                                  *)
Change(j) ==
  LET old == rec[j]  new == rec'[j] IN
  \/ new = old
  \/ /\ old.lease # "none"
     /\ \E lease \in {"live", "expired"} : new = [old EXCEPT !.lease = lease]
  \/ old.status = "absent" /\ \E s \in {"queued", "failed"} : new = Moved(old, s)
  \/ old.status = "queued" /\ new = Moved(old, "cancelled")
  \/ /\ old.status \in Transient /\ old.lease = "expired"
     /\ new = Moved(old, "queued")
  \/ \E w \in Workers :
       /\ wk[w].job = j /\ wk'[w].pc # wk[w].pc
       /\ \/ /\ old.status = "queued" /\ wk[w].gen = old.gen + 1
             /\ new = Claimed(w, old)
          \/ /\ wk[w].pc \in ClaimPcs /\ Owns(w, j)
             /\ \/ old.status = "claimed" /\ new = Moved(old, "applying")
                \/ /\ old.status = "applying"
                   /\ \/ /\ wk[w].pc = "pendWrite"
                         /\ new = [Moved(old, "pending") EXCEPT !.uid = wk[w].uid]
                      \/ /\ wk[w].pc = "failWrite"
                         /\ new = [Moved(old, "failed") EXCEPT !.notCreated = wk[w].proof]
          \/ /\ wk[w].pc = "recWrite" /\ old.status = wk[w].seen
             /\ old.uid = wk[w].uid
             /\ wk[w].seen \in Active /\ wk[w].obs \in Allowed[wk[w].seen]
             /\ new = Moved(old, wk[w].obs)

LEMMA CasChange ==
  ASSUME NEW w \in Workers, NEW j \in Jobs, NEW cond, NEW item,
         NEW won, NEW refused, NEW broken, NEW i \in Jobs, rec \in [Jobs -> Item],
         wk \in [Workers -> Local],
         Cas(w, j, cond, item, won, refused, broken)
  PROVE  /\ \/ rec'[i] = rec[i]
            \/ i = j /\ cond /\ rec'[i] = item
         /\ wk'[w] \in {won, refused, broken}
  BY CasEffect DEF Put

(* The steps that write no record.                                         *)
LEMMA QuietSteps ==
  ASSUME NEW w \in Workers,
         \/ QueryExpired(w) \/ QueryQueued(w) \/ DeferGated(w) \/ ClaimRead(w)
         \/ ReadForTransition(w) \/ K8sRead(w) \/ K8sCreate(w) \/ K8sAdopt(w)
         \/ EndBatch(w) \/ ReconcileRead(w) \/ ReadForReconcile(w) \/ EndPass(w)
  PROVE  UNCHANGED rec
  BY Zenon
  DEF QueryExpired, QueryQueued, DeferGated, ClaimRead, ReadForTransition, K8sRead,
      K8sCreate, K8sAdopt, EndBatch, ReconcileRead, ReadForReconcile, EndPass

(* The steps of a worker that leave the cluster alone: all but a creation. *)
LEMMA StepCluster ==
  ASSUME NEW w \in Workers, Step(w)
  PROVE  UNCHANGED <<k8s, deletes>> \/ (K8sCreate(w) /\ k8s' # k8s)
  <1>1. CASE RequeueExpired(w) \/ ClaimWrite(w) \/ StartWrite(w) \/ PendWrite(w)
             \/ FailWrite(w) \/ ReconcileWrite(w)
    BY <1>1, Zenon
    DEF RequeueExpired, ClaimWrite, StartWrite, PendWrite, FailWrite, ReconcileWrite, Cas
  <1>2. CASE \/ QueryExpired(w) \/ QueryQueued(w) \/ DeferGated(w) \/ ClaimRead(w)
             \/ ReadForTransition(w) \/ K8sRead(w) \/ K8sAdopt(w)
             \/ EndBatch(w) \/ ReconcileRead(w) \/ ReadForReconcile(w) \/ EndPass(w)
    BY <1>2, Zenon
    DEF QueryExpired, QueryQueued, DeferGated, ClaimRead, ReadForTransition, K8sRead,
        K8sAdopt, EndBatch, ReconcileRead, ReadForReconcile, EndPass
  <1>3. CASE K8sCreate(w)
    BY <1>3 DEF K8sCreate
  <1> QED
    BY <1>1, <1>2, <1>3 DEF Step

LEMMA StepPuts ==
  ASSUME NEW w \in Workers, Step(w)
  PROVE  \E local : Put(w, local)
  <1>1. CASE RequeueExpired(w) \/ ClaimWrite(w) \/ StartWrite(w) \/ PendWrite(w)
             \/ FailWrite(w) \/ ReconcileWrite(w)
    BY <1>1, Zenon
    DEF RequeueExpired, ClaimWrite, StartWrite, PendWrite, FailWrite, ReconcileWrite, Cas
  <1>2. CASE \/ QueryExpired(w) \/ QueryQueued(w) \/ DeferGated(w) \/ ClaimRead(w)
             \/ ReadForTransition(w) \/ K8sRead(w) \/ K8sCreate(w) \/ K8sAdopt(w)
             \/ EndBatch(w) \/ ReconcileRead(w) \/ ReadForReconcile(w) \/ EndPass(w)
    BY <1>2, Zenon
    DEF QueryExpired, QueryQueued, DeferGated, ClaimRead, ReadForTransition, K8sRead,
        K8sCreate, K8sAdopt, K8sError, EndBatch, ReconcileRead, ReadForReconcile, EndPass
  <1> QED
    BY <1>1, <1>2 DEF Step

(* A step is one worker's, or changes no worker.                           *)
LEMMA OthersRest ==
  ASSUME TypeOK, [Next]_vars, NEW w \in Workers
  PROVE  wk'[w] = wk[w] \/ Step(w) \/ Heartbeat(w) \/ Crash(w) \/ Restart(w)
  <1>1. CASE UNCHANGED wk
    BY <1>1
  <1>2. ASSUME NEW v \in Workers, v # w, \E local : Put(v, local)
        PROVE  wk'[w] = wk[w]
    BY <1>2 DEF TypeOK, Put
  <1>3. ASSUME NEW v \in Workers, Step(v)
        PROVE  \E local : Put(v, local)
    BY <1>3, StepPuts
  <1>4. ASSUME NEW v \in Workers, Heartbeat(v) \/ Crash(v) \/ Restart(v)
        PROVE  UNCHANGED wk \/ \E local : Put(v, local)
    BY <1>4, Zenon DEF Heartbeat, Crash, Restart
  <1>5. ASSUME NEW j \in Jobs, \/ Submit(j) \/ RecordJobFailure(j) \/ Cancel(j)
                               \/ LeaseRunsOut(j) \/ K8sPods(j) \/ K8sFinish(j) \/ K8sDelete(j)
        PROVE  UNCHANGED wk
    BY <1>5 DEF Submit, RecordJobFailure, Cancel, LeaseRunsOut, K8sPods, K8sFinish, K8sDelete
  <1> QED
    BY <1>1, <1>2, <1>3, <1>4, <1>5, Zenon DEF Next, vars

LEMMA StepChange ==
  ASSUME FenceInv, NEW w \in Workers, Step(w), NEW i \in Jobs
  PROVE  Change(i)
  <1> DEFINE j == wk[w].job
             item == rec[j]
  <1>0. /\ rec \in [Jobs -> Item] /\ wk \in [Workers -> Local]
        /\ wk[w] \in Local /\ Shaped(wk[w]) /\ Honest(rec[j], w, wk[w])
    BY DEF FenceInv, TypeOK
  <1>1. wk[w].pc \in BusyPcs => j \in Jobs
    BY <1>0 DEF Local
  <1>2. /\ Idle(w).pc = "idle" /\ Skipped(w).pc = "next" /\ NextActive(w).pc = "reconcile"
        /\ Failing(w, FALSE).pc = "failRead"
    BY TameLocal
  <1>3. CASE UNCHANGED rec
    BY <1>3 DEF Change
  <1>4. CASE RequeueExpired(w)
    <2>1. PICK e \in wk[w].todo :
            Cas(w, e.job,
                /\ rec[e.job].status = e.status /\ rec[e.job].gen = e.gen
                /\ rec[e.job].ver = e.ver /\ rec[e.job].lease = "expired",
                Moved(rec[e.job], "queued"),
                Dropped(w, e), Dropped(w, e), Idle(w))
      BY <1>4 DEF RequeueExpired
    <2>2. e.job \in Jobs /\ e.status \in Transient
      BY <1>0, <1>4, <2>1 DEF RequeueExpired, Local, Entry, Shaped
    <2>3. \/ rec'[i] = rec[i]
          \/ /\ rec[i].status = e.status /\ rec[i].lease = "expired"
             /\ rec'[i] = Moved(rec[i], "queued")
      <3> DEFINE cond == /\ rec[e.job].status = e.status /\ rec[e.job].gen = e.gen
                         /\ rec[e.job].ver = e.ver /\ rec[e.job].lease = "expired"
                 new == Moved(rec[e.job], "queued")
      <3>1. Cas(w, e.job, cond, new, Dropped(w, e), Dropped(w, e), Idle(w))
        BY <2>1
      <3>2. rec'[i] = rec[i] \/ (i = e.job /\ cond /\ rec'[i] = new)
        <4> HIDE DEF cond, new
        <4> QED
          BY <1>0, <2>2, <3>1, CasChange
      <3> QED
        BY <3>2
    <2> QED
      BY <2>2, <2>3 DEF Change
  <1>5. CASE ClaimWrite(w)
    <2> DEFINE won == [wk[w] EXCEPT !.pc = "startRead", !.snap = 0, !.attempted = @ + 1]
               counted == [Skipped(w) EXCEPT !.attempted = @ + 1]
               cond == item.status = "queued" /\ item.ver = wk[w].snap
    <2>1. Cas(w, j, cond, Claimed(w, item), won, Skipped(w), counted) /\ wk[w].pc = "claimWrite"
      BY <1>5 DEF ClaimWrite
    <2>2. won.pc = "startRead" /\ counted.pc = "next"
      BY <1>0, <1>2, LocalType DEF Local, FenceInv
    <2>3. j \in Jobs /\ (cond => wk[w].gen = item.gen + 1)
      BY <1>0, <1>1, <2>1 DEF Honest, BusyPcs
    <2>4. /\ rec'[i] = rec[i] \/ (i = j /\ cond /\ rec'[i] = Claimed(w, item))
          /\ wk'[w] \in {won, Skipped(w), counted}
      <3> HIDE DEF j, won, counted, cond, item
      <3> QED
        BY <1>0, <2>1, <2>3, CasChange
    <2>5. wk'[w].pc # wk[w].pc
      BY <1>2, <2>1, <2>2, <2>4
    <2> QED
      BY <2>3, <2>4, <2>5 DEF Change
  <1>6. CASE StartWrite(w)
    <2> DEFINE won == [wk[w] EXCEPT !.pc = "k8sRead", !.snap = 0]
    <2>1. /\ Cas(w, j, Fenced(w, "claimed"), Moved(item, "applying"),
                 won, Skipped(w), Failing(w, FALSE))
          /\ wk[w].pc = "startWrite" /\ wk[w].pc \in ClaimPcs /\ j \in Jobs
      BY <1>1, <1>6 DEF StartWrite, BusyPcs, ClaimPcs
    <2>2. won.pc = "k8sRead"
      BY <1>0 DEF Local
    <2>3. /\ rec'[i] = rec[i] \/ (i = j /\ Fenced(w, "claimed") /\ rec'[i] = Moved(item, "applying"))
          /\ wk'[w] \in {won, Skipped(w), Failing(w, FALSE)}
      <3> HIDE DEF j, won, item
      <3> QED
        BY <1>0, <2>1, CasChange
    <2> QED
      BY <1>2, <2>1, <2>2, <2>3 DEF Change, Fenced
  <1>7. CASE PendWrite(w)
    <2> DEFINE new == [Moved(item, "pending") EXCEPT !.uid = wk[w].uid]
    <2>1. /\ Cas(w, j, Fenced(w, "applying"), new, Skipped(w), Skipped(w), Failing(w, FALSE))
          /\ wk[w].pc = "pendWrite" /\ wk[w].pc \in ClaimPcs /\ j \in Jobs /\ wk[w].uid \in Nat
      BY <1>0, <1>1, <1>7 DEF PendWrite, BusyPcs, ClaimPcs, Local
    <2>2. /\ rec'[i] = rec[i] \/ (i = j /\ Fenced(w, "applying") /\ rec'[i] = new)
          /\ wk'[w] \in {Skipped(w), Skipped(w), Failing(w, FALSE)}
      <3> HIDE DEF j, new, item
      <3> QED
        BY <1>0, <2>1, CasChange
    <2> QED
      BY <1>2, <2>1, <2>2 DEF Change, Fenced
  <1>8. CASE FailWrite(w)
    <2> DEFINE new == [Moved(item, "failed") EXCEPT !.notCreated = wk[w].proof]
    <2>1. /\ Cas(w, j, Fenced(w, "applying"), new, Skipped(w), Skipped(w), Skipped(w))
          /\ wk[w].pc = "failWrite" /\ wk[w].pc \in ClaimPcs /\ j \in Jobs
          /\ wk[w].proof \in BOOLEAN
      BY <1>0, <1>1, <1>8 DEF FailWrite, BusyPcs, ClaimPcs, Local
    <2>2. /\ rec'[i] = rec[i] \/ (i = j /\ Fenced(w, "applying") /\ rec'[i] = new)
          /\ wk'[w] = Skipped(w)
      <3> HIDE DEF j, new, item
      <3> QED
        BY <1>0, <2>1, CasChange
    <2> QED
      BY <1>2, <2>1, <2>2 DEF Change, Fenced
  <1>9. CASE ReconcileWrite(w)
    <2> DEFINE cond == /\ item.status = wk[w].seen /\ item.ver = wk[w].snap
                       /\ item.uid = wk[w].uid
               new == Moved(item, wk[w].obs)
    <2>1. /\ Cas(w, j, cond, new, NextActive(w), NextActive(w), Idle(w))
          /\ wk[w].pc = "recWrite" /\ j \in Jobs
          /\ wk[w].seen \in Active /\ wk[w].obs \in Allowed[wk[w].seen]
      BY <1>0, <1>1, <1>9 DEF ReconcileWrite, BusyPcs, Shaped
    <2>2. /\ rec'[i] = rec[i] \/ (i = j /\ cond /\ rec'[i] = new)
          /\ wk'[w] \in {NextActive(w), Idle(w)}
      <3> HIDE DEF j, new, item, cond
      <3> QED
        BY <1>0, <2>1, CasChange
    <2> QED
      BY <1>2, <2>1, <2>2 DEF Change
  <1>10. CASE \/ QueryExpired(w) \/ QueryQueued(w) \/ DeferGated(w) \/ ClaimRead(w)
              \/ ReadForTransition(w) \/ K8sRead(w) \/ K8sCreate(w) \/ K8sAdopt(w)
              \/ EndBatch(w) \/ ReconcileRead(w) \/ ReadForReconcile(w) \/ EndPass(w)
    BY <1>3, <1>10, QuietSteps
  <1> QED
    BY <1>4, <1>5, <1>6, <1>7, <1>8, <1>9, <1>10 DEF Step

LEMMA NextChange ==
  ASSUME FenceInv, [Next]_vars, NEW i \in Jobs
  PROVE  Change(i)
  <1>0. rec \in [Jobs -> Item]
    BY DEF FenceInv, TypeOK
  <1>1. CASE UNCHANGED rec
    BY <1>1 DEF Change
  <1>2. ASSUME NEW w \in Workers, Step(w) PROVE Change(i)
    BY <1>2, StepChange
  <1>3. ASSUME NEW w \in Workers, Heartbeat(w) PROVE Change(i)
    <2>1. \/ UNCHANGED rec
          \/ /\ rec[wk[w].job].status \in Transient
             /\ rec' = [rec EXCEPT ![wk[w].job].lease = "live"]
      BY <1>3 DEF Heartbeat
    <2>2. Complete(rec[i])
      BY DEF FenceInv
    <2> QED
      BY <1>0, <2>1, <2>2 DEF Change, Complete
  <1>4. ASSUME NEW w \in Workers, Crash(w) \/ Restart(w) PROVE Change(i)
    BY <1>1, <1>4 DEF Crash, Restart
  <1>5. ASSUME NEW j \in Jobs, Submit(j) \/ RecordJobFailure(j) PROVE Change(i)
    BY <1>0, <1>5 DEF Submit, RecordJobFailure, Change
  <1>6. ASSUME NEW j \in Jobs, Cancel(j) PROVE Change(i)
    BY <1>0, <1>6 DEF Cancel, Change
  <1>7. ASSUME NEW j \in Jobs, LeaseRunsOut(j) PROVE Change(i)
    BY <1>0, <1>7 DEF LeaseRunsOut, Change
  <1>8. ASSUME NEW j \in Jobs, K8sPods(j) \/ K8sFinish(j) \/ K8sDelete(j) PROVE Change(i)
    BY <1>1, <1>8 DEF K8sPods, K8sFinish, K8sDelete
  <1> QED
    BY <1>1, <1>2, <1>3, <1>4, <1>5, <1>6, <1>7, <1>8 DEF Next, vars

LEMMA ChangeFacts ==
  ASSUME FenceInv, NEW j \in Jobs, Change(j)
  PROVE  OwnerMoves(j) /\ LegalMove(rec[j], rec'[j])
  <1> DEFINE old == rec[j]
             new == rec'[j]
  <1>0. /\ old \in Item /\ old.ver \in Nat /\ old.gen \in Nat /\ Complete(old)
        /\ wk \in [Workers -> Local]
    BY DEF FenceInv, TypeOK, Item
  <1>1. \A s \in Status :
          /\ Moved(old, s) \in Item
          /\ Moved(old, s).status = s /\ Moved(old, s).gen = old.gen
          /\ Moved(old, s).ver = old.ver + 1
    BY <1>0, MovedType, MovedFacts
  <1> USE DEF Status, Terminal, Transient, Active
  <1>2. CASE new = old
    BY <1>2 DEF OwnerMoves, LegalMove
  <1>3. CASE old.lease # "none" /\ \E lease \in {"live", "expired"} : new = [old EXCEPT !.lease = lease]
    <2>1. new.status = old.status /\ new.gen = old.gen /\ new.ver = old.ver
      BY <1>0, <1>3 DEF Item
    <2>2. old.status \in Transient
      BY <1>0, <1>3 DEF Complete
    <2> QED
      BY <2>1, <2>2 DEF OwnerMoves, LegalMove
  <1>4. CASE old.status = "absent" /\ \E s \in {"queued", "failed"} : new = Moved(old, s)
    BY <1>0, <1>1, <1>4 DEF OwnerMoves, LegalMove
  <1>5. CASE old.status = "queued" /\ new = Moved(old, "cancelled")
    BY <1>0, <1>1, <1>5 DEF OwnerMoves, LegalMove, Allowed
  <1>6. CASE old.status \in Transient /\ old.lease = "expired" /\ new = Moved(old, "queued")
    BY <1>0, <1>1, <1>6 DEF OwnerMoves, LegalMove
  <1>7. ASSUME NEW w \in Workers, wk[w].job = j, wk'[w].pc # wk[w].pc,
               old.status = "queued", wk[w].gen = old.gen + 1, new = Claimed(w, old)
        PROVE  OwnerMoves(j) /\ LegalMove(old, new)
    <2>1. new.status = "claimed" /\ new.gen = old.gen + 1 /\ new.ver = old.ver + 1
      BY <1>1, <1>7 DEF Claimed, Item
    <2> QED
      BY <1>0, <1>7, <2>1 DEF OwnerMoves, LegalMove, Allowed
  <1>8. ASSUME NEW w \in Workers, wk[w].job = j, wk'[w].pc # wk[w].pc,
               wk[w].pc \in ClaimPcs, Owns(w, j),
               \/ old.status = "claimed" /\ new = Moved(old, "applying")
               \/ /\ old.status = "applying"
                  /\ \/ new = [Moved(old, "pending") EXCEPT !.uid = wk[w].uid]
                     \/ new = [Moved(old, "failed") EXCEPT !.notCreated = wk[w].proof]
        PROVE  OwnerMoves(j) /\ LegalMove(old, new)
    <2>1. OwnerMoves(j)
      BY <1>8 DEF OwnerMoves
    <2>2. /\ new.gen = old.gen /\ new.ver = old.ver + 1
          /\ \/ old.status = "claimed" /\ new.status = "applying"
             \/ old.status = "applying" /\ new.status \in {"pending", "failed"}
      <3>1. CASE old.status = "claimed" /\ new = Moved(old, "applying")
        BY <1>1, <3>1
      <3>2. CASE old.status = "applying" /\ new = [Moved(old, "pending") EXCEPT !.uid = wk[w].uid]
        BY <1>1, <3>2 DEF Item
      <3>3. CASE old.status = "applying" /\ new = [Moved(old, "failed") EXCEPT !.notCreated = wk[w].proof]
        BY <1>1, <3>3 DEF Item
      <3> QED
        BY <1>8, <3>1, <3>2, <3>3
    <2> QED
      BY <1>0, <2>1, <2>2 DEF LegalMove, Allowed
  <1>9. ASSUME NEW w \in Workers, old.status = wk[w].seen, wk[w].seen \in Active,
               wk[w].obs \in Allowed[wk[w].seen], new = Moved(old, wk[w].obs)
        PROVE  OwnerMoves(j) /\ LegalMove(old, new)
    <2>1. wk[w].obs \in Status /\ wk[w].obs # old.status
      BY <1>9 DEF Allowed
    <2> QED
      BY <1>0, <1>1, <1>9, <2>1 DEF OwnerMoves, LegalMove
  <1> QED
    BY <1>2, <1>3, <1>4, <1>5, <1>6, <1>7, <1>8, <1>9, Zenon DEF Change

(* A claim's record is moved on by the claim's owner alone, or put back    *)
(* once its lease has run out.                                             *)
THEOREM OwnersMove == Spec => OnlyOwnerMoves
  <1>1. FenceInv /\ [Next]_vars => [\A j \in Jobs : OwnerMoves(j)]_vars
    BY NextChange, ChangeFacts
  <1> QED
    BY <1>1, FenceHolds, PTL DEF Spec, OnlyOwnerMoves

(* Records follow the transition matrix, terminal ones never change, and   *)
(* generations only grow, one claim at a time.                             *)
THEOREM MovesLegal == Spec => LegalMoves
  <1>1. FenceInv /\ [Next]_vars => [\A j \in Jobs : LegalMove(rec[j], rec'[j])]_vars
    BY NextChange, ChangeFacts
  <1> QED
    BY <1>1, FenceHolds, PTL DEF Spec, LegalMoves
-----------------------------------------------------------------------------
(* Workloads.  The inductive invariant ties what a record and a worker say *)
(* of the Kubernetes Jobs to the Jobs themselves, in terms that no later   *)
(* event in the cluster can make false.                                    *)

(* A Job of c was removed; or the one there is failed.                     *)
Gone(c) == c.made > 1 \/ (c.made = 1 /\ ~c.present)
Broken(c) == (c.present /\ c.phase = "failed") \/ Gone(c)

(* A Job exists only if it was made, and after d removals no more than one *)
(* over d were.                                                            *)
Counted(c, d) ==
  /\ c.present => c.made > 0
  /\ ~c.present => c.phase = "pending"
  /\ c.phase = "complete" => c.made \in c.completed
  /\ c.made <= d + (IF c.present THEN 1 ELSE 0)

(* How the Jobs of a name change: what was true of c stays true of d.      *)
Grows(c, d) ==
  /\ c.made <= d.made /\ c.completed \subseteq d.completed
  /\ Broken(c) => Broken(d)

Named(uid, c) == 0 < uid /\ uid <= c.made

(* What a record says of the Jobs of its name.                             *)
Tracks(item, c) ==
  /\ item.uid <= c.made
  /\ item.status \in {"absent", "queued", "claimed", "applying"} => item.uid = 0
  /\ item.status \in Active => item.uid > 0
  /\ item.status = "succeeded" => item.uid > 0 /\ item.uid \in c.completed
  /\ item.status = "failed" /\ item.uid # 0 => Broken(c)
  /\ item.gen = 0 => item.status \in {"absent", "queued", "failed", "cancelled"}
  /\ item.gen > 0 => item.status # "absent"

(* What a worker's local state says of them.                               *)
Follows(l, ks) ==
  /\ l.pc \in {"pendRead", "pendWrite"} => Named(l.uid, ks[l.job])
  /\ l.pc \in {"reconcile", "recRead", "recWrite"} =>
       \A e \in l.todo : Named(e.uid, ks[e.job])
  /\ l.pc \in {"recRead", "recWrite"} =>
       /\ l.obs = "succeeded" => l.uid \in ks[l.job].completed
       /\ l.obs = "failed" => Broken(ks[l.job])

(* What the policy a worker runs under says of the job it works on.        *)
Judges(l) ==
  /\ l.pc # "down" => l.rejects \in Rejections
  /\ l.proof => l.pc \in {"failRead", "failWrite"} /\ l.job \in l.rejects
  /\ l.pc = "k8sCreate" => l.job \notin l.rejects

(* A proof was given under a policy that rejects j, a workload made under  *)
(* one that does not.                                                      *)
Judged(j, item, c) ==
  /\ item.notCreated => \E r \in Rejections : j \in r
  /\ c.made > 0 => \E r \in Rejections : j \notin r

WorkInv ==
  /\ FenceInv
  /\ \A j \in Jobs : /\ Counted(k8s[j], deletes)
                     /\ Tracks(rec[j], k8s[j])
                     /\ Judged(j, rec[j], k8s[j])
  /\ \A w \in Workers : Follows(wk[w], k8s) /\ Judges(wk[w])

LEMMA InitWork == Init => WorkInv
  <1> SUFFICES ASSUME Init PROVE WorkInv
    OBVIOUS
  <1>1. \A j \in Jobs : rec[j] = NoItem /\ k8s[j] = NoCluster
    BY DEF Init
  <1>2. \A w \in Workers : wk[w].pc = "down" /\ wk[w].proof = FALSE
    BY DEF Init, AtRest
  <1>3. \A j \in Jobs : /\ Counted(k8s[j], deletes)
                        /\ Tracks(rec[j], k8s[j])
                        /\ Judged(j, rec[j], k8s[j])
    BY <1>1 DEF Init, NoItem, NoCluster, Counted, Tracks, Judged, Active
  <1> QED
    BY <1>2, <1>3, InitFence DEF WorkInv, Follows, Judges

LEMMA GrowsSame ==
  ASSUME NEW c \in Cluster
  PROVE  Grows(c, c)
  BY DEF Grows, Cluster

(* What follows the Jobs goes on to follow them as they change.            *)
LEMMA FollowsGrown ==
  ASSUME NEW ks \in [Jobs -> Cluster], NEW kt \in [Jobs -> Cluster],
         \A j \in Jobs : Grows(ks[j], kt[j]),
         NEW l \in Local, Follows(l, ks)
  PROVE  Follows(l, kt)
  <1>1. \A j \in Jobs : ks[j].made \in Nat /\ kt[j].made \in Nat
    BY DEF Cluster
  <1>2. ASSUME NEW u \in Nat, NEW j \in Jobs, Named(u, ks[j])
        PROVE  Named(u, kt[j])
    BY <1>1, <1>2 DEF Named, Grows
  <1>3. l.pc \in {"pendRead", "pendWrite"} => Named(l.uid, kt[l.job])
    BY <1>2 DEF Follows, Local, BusyPcs, ClaimPcs
  <1>4. l.pc \in {"reconcile", "recRead", "recWrite"} =>
          \A e \in l.todo : Named(e.uid, kt[e.job])
    BY <1>2 DEF Follows, Local, Entry
  <1>5. l.pc \in {"recRead", "recWrite"} =>
          /\ l.obs = "succeeded" => l.uid \in kt[l.job].completed
          /\ l.obs = "failed" => Broken(kt[l.job])
    BY DEF Follows, Local, BusyPcs, Grows
  <1> QED
    BY <1>3, <1>4, <1>5 DEF Follows

LEMMA TracksGrown ==
  ASSUME NEW item \in Item, NEW c \in Cluster, NEW d \in Cluster,
         Tracks(item, c), Grows(c, d)
  PROVE  Tracks(item, d)
  BY DEF Tracks, Grows, Item, Cluster

(* The events of the Jobs of one name. *)
LEMMA CreationGrows ==
  ASSUME NEW c \in Cluster, NEW n \in Nat, Counted(c, n), ~c.present
  PROVE  /\ Grows(c, Created(c)) /\ Counted(Created(c), n)
         /\ Named(c.made + 1, Created(c))
  <1>1. /\ Created(c).present = TRUE /\ Created(c).made = c.made + 1
        /\ Created(c).phase = "pending" /\ Created(c).completed = c.completed
    BY DEF Created, Cluster
  <1> QED
    BY <1>1 DEF Grows, Counted, Broken, Gone, Named, Cluster

LEMMA PhaseGrows ==
  ASSUME NEW c \in Cluster, NEW n \in Nat, Counted(c, n), c.present,
         c.phase \in {"pending", "running"}, NEW p \in {"pending", "running", "failed"},
         NEW d, d = [c EXCEPT !.phase = p]
  PROVE  Grows(c, d) /\ Counted(d, n) /\ d.made = c.made
  BY DEF Grows, Counted, Broken, Gone, Cluster

LEMMA CompletionGrows ==
  ASSUME NEW c \in Cluster, NEW n \in Nat, Counted(c, n), c.present,
         c.phase \in {"pending", "running"},
         NEW d, d = [c EXCEPT !.phase = "complete", !.completed = @ \union {c.made}]
  PROVE  Grows(c, d) /\ Counted(d, n) /\ d.made = c.made
  BY DEF Grows, Counted, Broken, Gone, Cluster

LEMMA RemovalGrows ==
  ASSUME NEW c \in Cluster, NEW n \in Nat, Counted(c, n), c.present,
         NEW d, d = [c EXCEPT !.present = FALSE, !.phase = "pending"]
  PROVE  Grows(c, d) /\ Counted(d, n + 1) /\ d.made = c.made
  BY DEF Grows, Counted, Broken, Gone, Cluster

(* The Jobs of j after a step: as they were, or changed by one event.      *)
ClusterStep(j) ==
  /\ Grows(k8s[j], k8s'[j])
  /\ Counted(k8s'[j], deletes')
  /\ k8s'[j].made > 0 => \E r \in Rejections : j \notin r

LEMMA StepGrows ==
  ASSUME WorkInv, [Next]_vars, NEW i \in Jobs
  PROVE  ClusterStep(i)
  <1>0. /\ k8s \in [Jobs -> Cluster] /\ deletes \in Nat /\ wk \in [Workers -> Local]
        /\ Counted(k8s[i], deletes)
        /\ k8s[i].made > 0 => \E r \in Rejections : i \notin r
        /\ k8s[i] \in Cluster
    BY DEF WorkInv, FenceInv, TypeOK, Judged
  <1>1. CASE UNCHANGED <<k8s, deletes>>
    BY <1>0, <1>1, GrowsSame DEF ClusterStep
  <1>2. ASSUME NEW w \in Workers, K8sCreate(w), k8s' # k8s
        PROVE  ClusterStep(i)
    <2> DEFINE j == wk[w].job
    <2>1. /\ ~k8s[j].present /\ k8s' = [k8s EXCEPT ![j] = Created(k8s[j])]
          /\ wk[w].pc = "k8sCreate" /\ deletes' = deletes
      BY <1>2 DEF K8sCreate
    <2>2. j \in Jobs /\ k8s[j] \in Cluster /\ Counted(k8s[j], deletes)
      BY <1>0, <2>1 DEF Local, BusyPcs, ClaimPcs, ApplyPcs, WorkInv
    <2>3. Grows(k8s[j], Created(k8s[j])) /\ Counted(Created(k8s[j]), deletes)
      BY <1>0, <2>1, <2>2, CreationGrows
    <2>4. \E r \in Rejections : j \notin r
      BY <2>1 DEF WorkInv, Judges
    <2>5. CASE i = j
      BY <1>0, <2>1, <2>3, <2>4, <2>5 DEF ClusterStep
    <2>6. CASE i # j
      BY <1>0, <2>1, <2>6, GrowsSame DEF ClusterStep
    <2> QED
      BY <2>5, <2>6
  <1>3. ASSUME NEW w \in Workers, Step(w) PROVE ClusterStep(i)
    <2>1. UNCHANGED <<k8s, deletes>> \/ (K8sCreate(w) /\ k8s' # k8s)
      BY <1>3, StepCluster
    <2> QED
      BY <1>1, <1>2, <2>1
  <1>4. ASSUME NEW w \in Workers, Heartbeat(w) \/ Crash(w) \/ Restart(w)
        PROVE  ClusterStep(i)
    BY <1>1, <1>4 DEF Heartbeat, Crash, Restart
  <1>5. ASSUME NEW j \in Jobs, Submit(j) \/ RecordJobFailure(j) \/ Cancel(j) \/ LeaseRunsOut(j)
        PROVE  ClusterStep(i)
    BY <1>1, <1>5 DEF Submit, RecordJobFailure, Cancel, LeaseRunsOut
  <1>6. ASSUME NEW j \in Jobs, K8sPods(j) \/ K8sFinish(j) PROVE ClusterStep(i)
    <2>1. /\ k8s[j].present /\ k8s[j].phase \in {"pending", "running"} /\ deletes' = deletes
          /\ \/ \E p \in {"pending", "running", "failed"} :
                  k8s' = [k8s EXCEPT ![j] = [k8s[j] EXCEPT !.phase = p]]
             \/ k8s' = [k8s EXCEPT ![j] = [k8s[j] EXCEPT !.phase = "complete",
                                             !.completed = @ \union {k8s[j].made}]]
      BY <1>0, <1>6 DEF K8sPods, K8sFinish
    <2>2. k8s[j] \in Cluster /\ Counted(k8s[j], deletes)
      BY <1>0 DEF WorkInv
    <2>3. CASE i # j
      BY <1>0, <2>1, <2>3, GrowsSame DEF ClusterStep
    <2>4. CASE i = j
      <3>1. CASE \E p \in {"pending", "running", "failed"} :
                   k8s' = [k8s EXCEPT ![j] = [k8s[j] EXCEPT !.phase = p]]
        <4>1. PICK p \in {"pending", "running", "failed"} :
                   k8s'[j] = [k8s[j] EXCEPT !.phase = p]
          BY <1>0, <3>1
        <4>2. Grows(k8s[j], k8s'[j]) /\ Counted(k8s'[j], deletes) /\ k8s'[j].made = k8s[j].made
          BY <1>0, <2>1, <2>2, <4>1, PhaseGrows
        <4> QED
          BY <1>0, <2>1, <2>4, <4>2 DEF ClusterStep
      <3>2. CASE k8s' = [k8s EXCEPT ![j] = [k8s[j] EXCEPT !.phase = "complete",
                                             !.completed = @ \union {k8s[j].made}]]
        <4>1. k8s'[j] = [k8s[j] EXCEPT !.phase = "complete",
                                       !.completed = @ \union {k8s[j].made}]
          BY <1>0, <3>2
        <4>2. Grows(k8s[j], k8s'[j]) /\ Counted(k8s'[j], deletes) /\ k8s'[j].made = k8s[j].made
          BY <1>0, <2>1, <2>2, <4>1, Zenon, CompletionGrows
        <4> QED
          BY <1>0, <2>1, <2>4, <4>2 DEF ClusterStep
      <3> QED
        BY <2>1, <3>1, <3>2
    <2> QED
      BY <2>3, <2>4
  <1>7. ASSUME NEW j \in Jobs, K8sDelete(j) PROVE ClusterStep(i)
    <2>1. /\ k8s[j].present /\ deletes' = deletes + 1
          /\ k8s' = [k8s EXCEPT ![j] = [k8s[j] EXCEPT !.present = FALSE, !.phase = "pending"]]
      BY <1>0, <1>7 DEF K8sDelete
    <2>2. k8s[j] \in Cluster /\ Counted(k8s[j], deletes)
      BY <1>0 DEF WorkInv
    <2>3. CASE i # j
      <3>1. Counted(k8s[i], deletes + 1)
        BY <1>0 DEF Counted, Cluster
      <3> QED
        BY <1>0, <2>1, <2>3, <3>1, GrowsSame DEF ClusterStep
    <2>4. CASE i = j
      <3>1. k8s'[j] = [k8s[j] EXCEPT !.present = FALSE, !.phase = "pending"]
        BY <1>0, <2>1
      <3>2. Grows(k8s[j], k8s'[j]) /\ Counted(k8s'[j], deletes + 1) /\ k8s'[j].made = k8s[j].made
        BY <1>0, <2>1, <2>2, <3>1, Zenon, RemovalGrows
      <3> QED
        BY <1>0, <2>1, <2>4, <3>2 DEF ClusterStep
    <2> QED
      BY <2>3, <2>4
  <1> QED
    BY <1>1, <1>3, <1>4, <1>5, <1>6, <1>7 DEF Next, vars

(* What a step does to one record keeps it in line with its Jobs.          *)
LEMMA StepTracks ==
  ASSUME WorkInv, TypeOK', NEW j \in Jobs, Change(j)
  PROVE  /\ Tracks(rec'[j], k8s[j])
         /\ rec'[j].notCreated => \E r \in Rejections : j \in r
  <1> DEFINE old == rec[j]
             new == rec'[j]
             c == k8s[j]
  <1>0. /\ old \in Item /\ Tracks(old, c) /\ Complete(old) /\ c \in Cluster
        /\ old.notCreated => \E r \in Rejections : j \in r
        /\ wk \in [Workers -> Local]
    BY DEF WorkInv, FenceInv, TypeOK, Judged
  <1>1. \A s \in Status :
          /\ Moved(old, s) \in Item /\ Moved(old, s).status = s
          /\ Moved(old, s).gen = old.gen /\ Moved(old, s).uid = old.uid
          /\ Moved(old, s).notCreated = old.notCreated
    <2>1. \A s : Moved(old, s).uid = old.uid /\ Moved(old, s).notCreated = old.notCreated
      BY <1>0 DEF Moved, Item
    <2> QED
      BY <1>0, <2>1, MovedType, MovedFacts
  <1> USE DEF Status, Terminal, Transient, Active
  <1>2. CASE new = old
    BY <1>0, <1>2
  <1>3. CASE \E lease \in {"live", "expired"} : new = [old EXCEPT !.lease = lease]
    <2>1. /\ new.status = old.status /\ new.gen = old.gen /\ new.uid = old.uid
          /\ new.notCreated = old.notCreated
      BY <1>0, <1>3 DEF Item
    <2> QED
      BY <1>0, <2>1 DEF Tracks
  <1>4. CASE old.status = "absent" /\ \E s \in {"queued", "failed"} : new = Moved(old, s)
    BY <1>0, <1>1, <1>4 DEF Tracks, Item
  <1>5. CASE old.status = "queued" /\ new = Moved(old, "cancelled")
    BY <1>0, <1>1, <1>5 DEF Tracks
  <1>6. CASE old.status \in {"claimed", "applying"} /\ new = Moved(old, "queued")
    BY <1>0, <1>1, <1>6 DEF Tracks
  <1>7. ASSUME NEW w \in Workers, wk[w].gen = old.gen + 1, old.status = "queued",
               new = Claimed(w, old)
        PROVE  /\ Tracks(new, c)
               /\ new.notCreated => \E r \in Rejections : j \in r
    <2>1. /\ new.status = "claimed" /\ new.gen = old.gen + 1 /\ new.uid = old.uid
          /\ new.notCreated = old.notCreated
      BY <1>1, <1>7 DEF Claimed, Item
    <2> QED
      BY <1>0, <1>7, <2>1 DEF Tracks, Item
  <1>8. CASE old.status = "claimed" /\ new = Moved(old, "applying")
    BY <1>0, <1>1, <1>8 DEF Tracks
  <1>9. ASSUME NEW w \in Workers, wk[w].job = j, wk[w].pc = "pendWrite",
               old.status = "applying",
               new = [Moved(old, "pending") EXCEPT !.uid = wk[w].uid]
        PROVE  /\ Tracks(new, c)
               /\ new.notCreated => \E r \in Rejections : j \in r
    <2>1. /\ new.status = "pending" /\ new.gen = old.gen /\ new.uid = wk[w].uid
          /\ new.notCreated = old.notCreated
      BY <1>1, <1>9 DEF Item
    <2>2. Named(wk[w].uid, c)
      BY <1>9 DEF WorkInv, Follows
    <2> QED
      BY <1>0, <1>9, <2>1, <2>2 DEF Tracks, Named
  <1>10. ASSUME NEW w \in Workers, wk[w].job = j, wk[w].pc = "failWrite",
                old.status = "applying",
                new = [Moved(old, "failed") EXCEPT !.notCreated = wk[w].proof]
         PROVE  /\ Tracks(new, c)
                /\ new.notCreated => \E r \in Rejections : j \in r
    <2>1. /\ new.status = "failed" /\ new.gen = old.gen /\ new.uid = old.uid
          /\ new.notCreated = wk[w].proof
      BY <1>1, <1>10 DEF Item
    <2>2. wk[w].proof => \E r \in Rejections : j \in r
      BY <1>10 DEF WorkInv, Judges
    <2> QED
      BY <1>0, <1>10, <2>1, <2>2 DEF Tracks
  <1>11. ASSUME NEW w \in Workers, wk[w].job = j, wk[w].pc = "recWrite",
                old.status = wk[w].seen, old.uid = wk[w].uid, wk[w].seen \in Active,
                wk[w].obs \in Allowed[wk[w].seen], new = Moved(old, wk[w].obs)
         PROVE  /\ Tracks(new, c)
                /\ new.notCreated => \E r \in Rejections : j \in r
    <2>1. wk[w].obs \in {"running", "succeeded", "failed"}
      BY <1>11 DEF Allowed
    <2>2. /\ new.status = wk[w].obs /\ new.gen = old.gen /\ new.uid = old.uid
          /\ new.notCreated = old.notCreated
      BY <1>1, <1>11, <2>1
    <2>3. /\ wk[w].obs = "succeeded" => old.uid \in c.completed
          /\ wk[w].obs = "failed" => Broken(c)
      BY <1>11 DEF WorkInv, Follows
    <2>4. old.uid > 0 /\ old.uid <= c.made /\ (old.gen = 0 => FALSE)
      BY <1>0, <1>11 DEF Tracks
    <2> QED
      BY <1>0, <2>1, <2>2, <2>3, <2>4 DEF Tracks, Item
  <1> QED
    BY <1>2, <1>3, <1>4, <1>5, <1>6, <1>7, <1>8, <1>9, <1>10, <1>11, Zenon DEF Change

Fits(l, ks) == Follows(l, ks) /\ Judges(l)

LEMMA PutAt ==
  ASSUME TypeOK, NEW w \in Workers, NEW local, Put(w, local)
  PROVE  wk'[w] = local
  BY DEF TypeOK, Put

LEMMA CasAt ==
  ASSUME TypeOK, NEW w \in Workers, NEW j, NEW cond, NEW item,
         NEW won, NEW refused, NEW broken,
         Cas(w, j, cond, item, won, refused, broken)
  PROVE  wk'[w] \in {won, refused, broken} /\ UNCHANGED k8s
  BY PutAt, Zenon DEF Cas

LEMMA LocalFits ==
  ASSUME TypeOK, NEW w \in Workers, NEW ks, Fits(wk[w], ks), wk[w].pc # "down"
  PROVE  /\ Fits(Idle(w), ks) /\ Fits(Skipped(w), ks)
         /\ wk[w].pc \in {"recRead", "recWrite"} => Fits(NextActive(w), ks)
         /\ \A p \in BOOLEAN :
              (p => wk[w].job \in wk[w].rejects) => Fits(Failing(w, p), ks)
         /\ wk[w].pc \in ApplyPcs =>
              \A u : Named(u, ks[wk[w].job]) => Fits(Applied(w, u), ks)
         /\ \A e : Fits(Dropped(w, e), ks)
  <1>0. wk[w] \in Local /\ wk[w].rejects \in Rejections
    BY DEF TypeOK, Fits, Judges
  <1>1. Fits(Idle(w), ks)
    <2>1. Idle(w).pc = "idle" /\ Idle(w).proof = FALSE /\ Idle(w).rejects = wk[w].rejects
      BY DEF Idle, AtRest
    <2> QED
      BY <1>0, <2>1 DEF Fits, Follows, Judges
  <1>2. Fits(Skipped(w), ks)
    <2>1. Skipped(w).pc = "next" /\ Skipped(w).proof = FALSE /\ Skipped(w).rejects = wk[w].rejects
      BY <1>0 DEF Skipped, Local
    <2> QED
      BY <1>0, <2>1 DEF Fits, Follows, Judges
  <1>3. ASSUME wk[w].pc \in {"recRead", "recWrite"} PROVE Fits(NextActive(w), ks)
    <2> DEFINE l == NextActive(w)
    <2>1. /\ l.pc = "reconcile" /\ l.proof = wk[w].proof /\ l.rejects = wk[w].rejects
          /\ l.todo = wk[w].todo
      BY <1>0 DEF NextActive, Local
    <2> QED
      BY <1>0, <1>3, <2>1 DEF Fits, Follows, Judges
  <1>4. ASSUME NEW p \in BOOLEAN, p => wk[w].job \in wk[w].rejects
        PROVE  Fits(Failing(w, p), ks)
    <2> DEFINE l == Failing(w, p)
    <2>1. l.pc = "failRead" /\ l.proof = p /\ l.rejects = wk[w].rejects /\ l.job = wk[w].job
      BY <1>0 DEF Failing, Local
    <2> QED
      BY <1>0, <1>4, <2>1 DEF Fits, Follows, Judges
  <1>5. ASSUME wk[w].pc \in ApplyPcs, NEW u, Named(u, ks[wk[w].job])
        PROVE  Fits(Applied(w, u), ks)
    <2> DEFINE l == [wk[w] EXCEPT !.pc = "pendRead", !.uid = u]
    <2>1. /\ l.pc = "pendRead" /\ l.proof = wk[w].proof /\ l.rejects = wk[w].rejects
          /\ l.job = wk[w].job /\ l.uid = u
      BY <1>0 DEF Local
    <2>2. ~wk[w].proof
      BY <1>5 DEF Fits, Judges, ApplyPcs
    <2> HIDE DEF l
    <2>3. Fits(l, ks)
      BY <1>0, <1>5, <2>1, <2>2 DEF Fits, Follows, Judges
    <2> QED
      BY <1>2, <2>3 DEF Applied, l
  <1>6. ASSUME NEW e PROVE Fits(Dropped(w, e), ks)
    <2> DEFINE l == Dropped(w, e)
    <2>1. /\ l.pc = wk[w].pc /\ l.proof = wk[w].proof /\ l.rejects = wk[w].rejects
          /\ l.job = wk[w].job /\ l.uid = wk[w].uid /\ l.obs = wk[w].obs
          /\ l.todo \subseteq wk[w].todo
      BY <1>0 DEF Dropped, Local
    <2> QED
      BY <2>1 DEF Fits, Follows, Judges
  <1> QED
    BY <1>1, <1>2, <1>3, <1>4, <1>5, <1>6

(* A state that only moves on to another place, where it promises nothing. *)
LEMMA PlainFits ==
  ASSUME NEW k, NEW ks, NEW l, Judges(k), k.pc # "down",
         l.pc \notin {"pendRead", "pendWrite", "reconcile", "recRead", "recWrite", "k8sCreate"},
         l.rejects = k.rejects, l.job = k.job, l.proof = k.proof,
         k.proof => l.pc \in {"failRead", "failWrite"}
  PROVE  Fits(l, ks)
  BY DEF Fits, Follows, Judges

(* What a worker concludes from the Job it looks at.                       *)
LEMMA ObservedTrue ==
  ASSUME WorkInv, NEW e \in Entry, Named(e.uid, k8s[e.job])
  PROVE  /\ Observed(e) = "succeeded" => e.uid \in k8s[e.job].completed
         /\ Observed(e) = "failed" => Broken(k8s[e.job])
  <1> DEFINE c == k8s[e.job]
  <1>1. e.job \in Jobs /\ e.uid \in Nat /\ c \in Cluster /\ Counted(c, deletes)
    BY DEF WorkInv, FenceInv, TypeOK, Entry
  <1>2. ASSUME Observed(e) = "succeeded" PROVE e.uid \in c.completed
    BY <1>1, <1>2 DEF Observed, Counted, Cluster
  <1>3. ASSUME Observed(e) = "failed" PROVE Broken(c)
    <2>1. CASE ~c.present \/ c.made # e.uid
      BY <1>1, <2>1 DEF Named, Broken, Gone, Cluster
    <2>2. CASE c.present /\ c.made = e.uid
      BY <1>1, <1>3, <2>2 DEF Observed, Broken
    <2> QED
      BY <2>1, <2>2
  <1> QED
    BY <1>2, <1>3

LEMMA QuietFits ==
  ASSUME WorkInv, TypeOK', NEW w \in Workers,
         \/ QueryExpired(w) \/ RequeueExpired(w) \/ QueryQueued(w) \/ DeferGated(w)
         \/ ClaimRead(w) \/ ClaimWrite(w) \/ EndBatch(w) \/ EndPass(w),
         Fits(wk[w], k8s')
  PROVE  Fits(wk'[w], k8s')
  <1> DEFINE ks == k8s'
             k == wk[w]
             l == wk'[w]
  <1>0. /\ TypeOK /\ k \in Local /\ l \in Local /\ Judges(k)
        /\ wk \in [Workers -> Local]
    BY DEF WorkInv, FenceInv, TypeOK, Fits
  <1>1. k.pc \in {"idle", "recover", "next", "claimWrite", "reconcile"}
    BY Zenon
    DEF QueryExpired, RequeueExpired, QueryQueued, DeferGated, ClaimRead, ClaimWrite,
        EndBatch, EndPass, Candidate
  <1>2. k.pc # "down" /\ ~k.proof
    BY <1>0, <1>1 DEF Judges
  <1>3. Fits(Idle(w), ks) /\ Fits(Skipped(w), ks) /\ \A e : Fits(Dropped(w, e), ks)
    BY <1>0, <1>2, LocalFits
  <1>4. ASSUME l.pc \in {"recover", "next", "claimWrite", "startRead"},
               l.rejects = k.rejects, l.proof = k.proof
        PROVE  Fits(l, ks)
    BY <1>0, <1>2, <1>4 DEF Fits, Follows, Judges
  <1>5. CASE QueryExpired(w)
    <2>1. PICK todo : l = [k EXCEPT !.pc = "recover", !.todo = todo]
      BY <1>0, <1>5, PutAt, Zenon DEF QueryExpired
    <2> QED
      BY <1>0, <1>4, <2>1 DEF Local
  <1>6. CASE RequeueExpired(w)
    <2>1. PICK e \in k.todo :
            Cas(w, e.job,
                /\ rec[e.job].status = e.status /\ rec[e.job].gen = e.gen
                /\ rec[e.job].ver = e.ver /\ rec[e.job].lease = "expired",
                Moved(rec[e.job], "queued"),
                Dropped(w, e), Dropped(w, e), Idle(w))
      BY <1>6 DEF RequeueExpired
    <2>2. l \in {Dropped(w, e), Dropped(w, e), Idle(w)}
      <3> DEFINE cond == /\ rec[e.job].status = e.status /\ rec[e.job].gen = e.gen
                         /\ rec[e.job].ver = e.ver /\ rec[e.job].lease = "expired"
                 new == Moved(rec[e.job], "queued")
      <3>1. Cas(w, e.job, cond, new, Dropped(w, e), Dropped(w, e), Idle(w))
        BY <2>1
      <3> HIDE DEF cond, new
      <3> QED
        BY <1>0, <3>1, CasAt
    <2> QED
      BY <1>3, <2>2
  <1>7. CASE QueryQueued(w)
    <2>1. \/ l = Idle(w)
          \/ \E todo : l = [k EXCEPT !.pc = "next", !.todo = todo]
      BY <1>0, <1>7, PutAt, Zenon DEF QueryQueued
    <2>2. CASE \E todo : l = [k EXCEPT !.pc = "next", !.todo = todo]
      <3>1. l.pc = "next" /\ l.rejects = k.rejects /\ l.proof = k.proof
        BY <1>0, <2>2 DEF Local
      <3> QED
        BY <1>4, <3>1
    <2> QED
      BY <1>3, <2>1, <2>2, Zenon
  <1>8. CASE DeferGated(w)
    BY <1>0, <1>3, <1>8, PutAt, Zenon DEF DeferGated
  <1>9. CASE ClaimRead(w)
    <2>1. PICK e \in k.todo :
            \/ l = [Dropped(w, e) EXCEPT !.pc = "claimWrite", !.job = e.job,
                      !.gen = rec[e.job].gen + 1, !.snap = rec[e.job].ver]
            \/ l = Dropped(w, e)
            \/ l = [Dropped(w, e) EXCEPT !.attempted = @ + 1]
      BY <1>0, <1>9, PutAt, Zenon DEF ClaimRead
    <2>2. k.pc = "next" /\ Dropped(w, e) \in Local
      <3>1. k.pc = "next"
        BY <1>9, Zenon DEF ClaimRead, Candidate
      <3>2. e \in Entry
        BY <1>0, <2>1 DEF Local
      <3> QED
        BY <1>0, <3>1, <3>2, LocalType
    <2>3. /\ Dropped(w, e).pc = "next" /\ Dropped(w, e).rejects = k.rejects
          /\ Dropped(w, e).proof = k.proof
      BY <1>0, <2>2 DEF Dropped, Local
    <2>4. CASE l = [Dropped(w, e) EXCEPT !.pc = "claimWrite", !.job = e.job,
                      !.gen = rec[e.job].gen + 1, !.snap = rec[e.job].ver]
      <3>1. l.pc = "claimWrite" /\ l.rejects = k.rejects /\ l.proof = k.proof
        BY <2>2, <2>3, <2>4 DEF Local
      <3> QED
        BY <1>4, <3>1
    <2>5. CASE l = [Dropped(w, e) EXCEPT !.attempted = @ + 1]
      <3>1. l.pc = "next" /\ l.rejects = k.rejects /\ l.proof = k.proof
        BY <2>2, <2>3, <2>5 DEF Local
      <3> QED
        BY <1>4, <3>1
    <2> QED
      BY <1>3, <2>1, <2>4, <2>5
  <1>10. CASE ClaimWrite(w)
    <2>1. l \in {[k EXCEPT !.pc = "startRead", !.snap = 0, !.attempted = @ + 1],
                 Skipped(w), [Skipped(w) EXCEPT !.attempted = @ + 1]}
      <3> DEFINE won == [k EXCEPT !.pc = "startRead", !.snap = 0, !.attempted = @ + 1]
                 counted == [Skipped(w) EXCEPT !.attempted = @ + 1]
                 cond == rec[k.job].status = "queued" /\ rec[k.job].ver = k.snap
      <3>1. Cas(w, k.job, cond, Claimed(w, rec[k.job]), won, Skipped(w), counted)
        BY <1>10 DEF ClaimWrite
      <3> HIDE DEF won, counted, cond
      <3>2. l \in {won, Skipped(w), counted}
        BY <1>0, <3>1, CasAt
      <3> QED
        BY <3>2 DEF won, counted
    <2>2. Skipped(w) \in Local
      BY <1>0, LocalType
    <2>3. /\ Skipped(w).pc = "next" /\ Skipped(w).proof = FALSE
          /\ Skipped(w).rejects = k.rejects
      BY <1>0 DEF Skipped, Local
    <2>4. k.proof = FALSE
      BY <1>0, <1>2 DEF Local
    <2>5. CASE l = [Skipped(w) EXCEPT !.attempted = @ + 1]
      <3>1. l.pc = "next" /\ l.rejects = k.rejects /\ l.proof = k.proof
        BY <2>2, <2>3, <2>4, <2>5 DEF Local
      <3> QED
        BY <1>4, <3>1
    <2>6. CASE l = [k EXCEPT !.pc = "startRead", !.snap = 0, !.attempted = @ + 1]
      <3>1. l.pc = "startRead" /\ l.rejects = k.rejects /\ l.proof = k.proof
        BY <1>0, <2>6 DEF Local
      <3> QED
        BY <1>4, <3>1
    <2> QED
      BY <1>3, <2>1, <2>5, <2>6
  <1>11. CASE EndBatch(w)
    <2>1. \/ l = Idle(w)
          \/ l = [k EXCEPT !.pc = "reconcile", !.attempted = 0,
                     !.todo = {EntryOf(j) : j \in Sample(w)}]
      BY <1>0, <1>11, PutAt, Zenon DEF EndBatch
    <2>2. CASE l = [k EXCEPT !.pc = "reconcile", !.attempted = 0,
                       !.todo = {EntryOf(j) : j \in Sample(w)}]
      <3>1. /\ l.pc = "reconcile" /\ l.rejects = k.rejects /\ l.proof = k.proof
            /\ l.todo = {EntryOf(j) : j \in Sample(w)}
        <4>1. \A T : LET m == [k EXCEPT !.pc = "reconcile", !.attempted = 0, !.todo = T]
                     IN  /\ m.pc = "reconcile" /\ m.rejects = k.rejects
                         /\ m.proof = k.proof /\ m.todo = T
          BY <1>0 DEF Local
        <4> QED
          BY <2>2, <4>1, Zenon
      <3>2. \A j \in Sample(w) : j \in Jobs /\ rec[j].status \in Active
        BY DEF Sample, Top, InRegion, Active
      <3>3. \A j \in Sample(w) : Named(rec[j].uid, k8s[j])
        BY <3>2 DEF WorkInv, Tracks, Named
      <3>4. \A e \in l.todo : Named(e.uid, k8s[e.job])
        BY <3>1, <3>3 DEF EntryOf
      <3>5. k8s' = k8s
        BY <1>11 DEF EndBatch
      <3> QED
        BY <1>0, <1>2, <3>1, <3>4, <3>5 DEF Fits, Follows, Judges
    <2> QED
      BY <1>3, <2>1, <2>2
  <1>12. CASE EndPass(w)
    BY <1>0, <1>3, <1>12, PutAt, Zenon DEF EndPass
  <1> QED
    BY <1>5, <1>6, <1>7, <1>8, <1>9, <1>10, <1>11, <1>12

LEMMA TransitionFits ==
  ASSUME WorkInv, TypeOK', NEW w \in Workers, Fits(wk[w], k8s'),
         ReadForTransition(w) \/ StartWrite(w) \/ PendWrite(w) \/ FailWrite(w)
  PROVE  Fits(wk'[w], k8s')
  <1> DEFINE ks == k8s'
             k == wk[w]
             l == wk'[w]
             item == rec[k.job]
  <1>0. /\ TypeOK /\ k \in Local /\ wk \in [Workers -> Local]
        /\ Follows(k, ks) /\ Judges(k)
        /\ k.pc \in {"startRead", "pendRead", "failRead", "startWrite", "pendWrite", "failWrite"}
    BY DEF WorkInv, FenceInv, TypeOK, Fits, ReadForTransition, StartWrite, PendWrite, FailWrite
  <1>1. Fits(Skipped(w), ks) /\ Fits(Failing(w, FALSE), ks)
    BY <1>0, LocalFits
  <1>2. CASE ReadForTransition(w)
    <2> DEFINE write == CASE k.pc = "startRead" -> "startWrite"
                          [] k.pc = "pendRead"  -> "pendWrite"
                          [] OTHER              -> "failWrite"
    <2>1. /\ k.pc \in {"startRead", "pendRead", "failRead"}
          /\ \/ Put(w, [k EXCEPT !.pc = write, !.snap = item.ver])
             \/ Put(w, Skipped(w))
             \/ Put(w, Failing(w, FALSE))
      BY <1>2, Zenon DEF ReadForTransition
    <2>2. /\ write \in {"startWrite", "pendWrite", "failWrite"}
          /\ write = "pendWrite" => k.pc = "pendRead"
          /\ k.pc = "failRead" => write = "failWrite"
      BY <2>1
    <2> HIDE DEF write
    <2>3. \/ l = [k EXCEPT !.pc = write, !.snap = item.ver]
          \/ l = Skipped(w) \/ l = Failing(w, FALSE)
      BY <1>0, <2>1, PutAt, Zenon
    <2>4. CASE l = [k EXCEPT !.pc = write, !.snap = item.ver]
      <3>1. /\ l.pc = write /\ l.rejects = k.rejects /\ l.proof = k.proof
            /\ l.job = k.job /\ l.uid = k.uid
        BY <1>0, <2>4 DEF Local
      <3>2. k.proof => k.pc = "failRead"
        BY <1>0, <2>1 DEF Judges
      <3> QED
        BY <1>0, <2>1, <2>2, <3>1, <3>2 DEF Fits, Follows, Judges
    <2> QED
      BY <1>1, <2>3, <2>4
  <1>3. CASE StartWrite(w)
    <2> DEFINE won == [k EXCEPT !.pc = "k8sRead", !.snap = 0]
    <2>1. won.pc = "k8sRead" /\ won.rejects = k.rejects /\ won.proof = k.proof
      BY <1>0 DEF Local
    <2>2. k.pc = "startWrite"
      BY <1>3 DEF StartWrite
    <2>3. Fits(won, ks)
      BY <1>0, <2>1, <2>2 DEF Fits, Follows, Judges
    <2> DEFINE cond == Fenced(w, "claimed")
               new == Moved(item, "applying")
    <2>4. Cas(w, k.job, cond, new, won, Skipped(w), Failing(w, FALSE))
      BY <1>3 DEF StartWrite
    <2> HIDE DEF won, cond, new
    <2>5. l \in {won, Skipped(w), Failing(w, FALSE)}
      BY <1>0, <2>4, CasAt
    <2> QED
      BY <1>1, <2>3, <2>5
  <1>4. CASE PendWrite(w)
    <2> DEFINE cond == Fenced(w, "applying")
               new == [Moved(item, "pending") EXCEPT !.uid = k.uid]
    <2>1. Cas(w, k.job, cond, new, Skipped(w), Skipped(w), Failing(w, FALSE))
      BY <1>4 DEF PendWrite
    <2> HIDE DEF cond, new
    <2>2. l \in {Skipped(w), Skipped(w), Failing(w, FALSE)}
      BY <1>0, <2>1, CasAt
    <2> QED
      BY <1>1, <2>2
  <1>5. CASE FailWrite(w)
    <2> DEFINE cond == Fenced(w, "applying")
               new == [Moved(item, "failed") EXCEPT !.notCreated = k.proof]
    <2>1. Cas(w, k.job, cond, new, Skipped(w), Skipped(w), Skipped(w))
      BY <1>5 DEF FailWrite
    <2> HIDE DEF cond, new
    <2>2. l = Skipped(w)
      BY <1>0, <2>1, CasAt
    <2> QED
      BY <1>1, <2>2
  <1> QED
    BY <1>2, <1>3, <1>4, <1>5

LEMMA KubernetesFits ==
  ASSUME WorkInv, TypeOK', NEW w \in Workers, Fits(wk[w], k8s'),
         K8sRead(w) \/ K8sCreate(w) \/ K8sAdopt(w) \/ Heartbeat(w)
  PROVE  Fits(wk'[w], k8s')
  <1> DEFINE ks == k8s'
             k == wk[w]
             l == wk'[w]
             j == k.job
  <1>0. /\ TypeOK /\ k \in Local /\ wk \in [Workers -> Local] /\ Judges(k)
        /\ k.pc \in ApplyPcs /\ j \in Jobs /\ k8s \in [Jobs -> Cluster]
        /\ Counted(k8s[j], deletes) /\ deletes \in Nat
    BY DEF WorkInv, FenceInv, TypeOK, Fits, K8sRead, K8sCreate, K8sAdopt, Heartbeat,
           ApplyPcs, Local, BusyPcs, ClaimPcs
  <1>1. k.pc # "down" /\ ~k.proof
    BY <1>0 DEF Judges, ApplyPcs
  <1>2. /\ Fits(Skipped(w), ks) /\ Fits(Failing(w, FALSE), ks)
        /\ j \in k.rejects => Fits(Failing(w, TRUE), ks)
        /\ \A u : Named(u, ks[j]) => Fits(Applied(w, u), ks)
    BY <1>0, <1>1, LocalFits
  <1>3. k8s[j].present => Named(k8s[j].made, k8s[j])
    BY <1>0 DEF Counted, Named, Cluster
  <1>4. K8sError(w) => Fits(l, ks)
    BY <1>0, <1>2, PutAt, Zenon DEF K8sError
  <1>5. /\ j \notin k.rejects => Fits([k EXCEPT !.pc = "k8sCreate"], ks)
        /\ Fits([k EXCEPT !.pc = "k8sAdopt"], ks)
    <2> SUFFICES ASSUME NEW pc \in {"k8sCreate", "k8sAdopt"},
                        pc = "k8sCreate" => j \notin k.rejects
                 PROVE  Fits([k EXCEPT !.pc = pc], ks)
      OBVIOUS
    <2> DEFINE m == [k EXCEPT !.pc = pc]
    <2>1. m.pc = pc /\ m.rejects = k.rejects /\ m.proof = k.proof /\ m.job = k.job
      BY <1>0 DEF Local
    <2> QED
      BY <1>0, <1>1, <2>1 DEF Fits, Follows, Judges
  <1>6. CASE K8sRead(w)
    <2>1. k8s' = k8s
      BY <1>6 DEF K8sRead
    <2>2. CASE j \in k.rejects
      <3>1. Put(w, Failing(w, TRUE))
        BY <1>6, <2>2 DEF K8sRead
      <3>2. l = Failing(w, TRUE)
        BY <1>0, <3>1, PutAt
      <3> QED
        BY <1>2, <2>2, <3>2
    <2>3. CASE j \notin k.rejects
      <3>1. \/ k8s[j].present /\ Put(w, Applied(w, k8s[j].made))
            \/ Put(w, [k EXCEPT !.pc = "k8sCreate"])
            \/ K8sError(w)
        BY <1>6, <2>3, Zenon DEF K8sRead
      <3>2. \/ k8s[j].present /\ l = Applied(w, k8s[j].made)
            \/ l = [k EXCEPT !.pc = "k8sCreate"]
            \/ K8sError(w)
        BY <1>0, <3>1, PutAt, Zenon
      <3> QED
        BY <1>2, <1>3, <1>4, <1>5, <2>1, <2>3, <3>2, Zenon
    <2> QED
      BY <2>2, <2>3
  <1>7. CASE K8sCreate(w)
    <2>1. \/ /\ ~k8s[j].present /\ k8s' = [k8s EXCEPT ![j] = Created(k8s[j])]
             /\ Put(w, Applied(w, k8s[j].made + 1)) \/ K8sError(w)
          \/ Put(w, [k EXCEPT !.pc = "k8sAdopt"])
          \/ K8sError(w)
      BY <1>7, Zenon DEF K8sCreate
    <2>2. CASE /\ ~k8s[j].present /\ k8s' = [k8s EXCEPT ![j] = Created(k8s[j])]
               /\ Put(w, Applied(w, k8s[j].made + 1))
      <3>1. Named(k8s[j].made + 1, Created(k8s[j]))
        BY <1>0, <2>2, CreationGrows
      <3>2. ks[j] = Created(k8s[j])
        BY <1>0, <2>2
      <3>3. l = Applied(w, k8s[j].made + 1)
        BY <1>0, <2>2, PutAt
      <3> QED
        BY <1>2, <3>1, <3>2, <3>3, Zenon
    <2>3. CASE Put(w, [k EXCEPT !.pc = "k8sAdopt"])
      BY <1>0, <1>5, <2>3, PutAt, Zenon
    <2> QED
      BY <1>4, <2>1, <2>2, <2>3
  <1>8. CASE K8sAdopt(w)
    <2>1. /\ k8s' = k8s
          /\ \/ k8s[j].present /\ Put(w, Applied(w, k8s[j].made))
             \/ Put(w, Skipped(w))
             \/ K8sError(w)
      BY <1>8, Zenon DEF K8sAdopt
    <2>2. \/ k8s[j].present /\ l = Applied(w, k8s[j].made)
          \/ l = Skipped(w)
          \/ K8sError(w)
      BY <1>0, <2>1, PutAt, Zenon
    <2> QED
      BY <1>2, <1>3, <1>4, <2>1, <2>2, Zenon
  <1>9. CASE Heartbeat(w)
    <2>1. UNCHANGED wk \/ Put(w, [k EXCEPT !.lost = TRUE])
      BY <1>9, Zenon DEF Heartbeat
    <2>2. CASE Put(w, [k EXCEPT !.lost = TRUE])
      <3> DEFINE m == [k EXCEPT !.lost = TRUE]
      <3>1. l = m
        BY <1>0, <2>2, PutAt
      <3>2. m.pc = k.pc /\ m.rejects = k.rejects /\ m.proof = k.proof /\ m.job = k.job
        BY <1>0 DEF Local
      <3>3. Fits(m, ks)
        BY <1>0, <1>1, <3>2 DEF Fits, Follows, Judges, ApplyPcs
      <3> QED
        BY <3>1, <3>3
    <2> QED
      BY <2>1, <2>2
  <1> QED
    BY <1>6, <1>7, <1>8, <1>9

LEMMA ReconcileFits ==
  ASSUME WorkInv, TypeOK', NEW w \in Workers, Fits(wk[w], k8s'),
         ReconcileRead(w) \/ ReadForReconcile(w) \/ ReconcileWrite(w)
  PROVE  Fits(wk'[w], k8s')
  <1> DEFINE ks == k8s'
             k == wk[w]
             l == wk'[w]
  <1>0. /\ TypeOK /\ k \in Local /\ wk \in [Workers -> Local] /\ Judges(k) /\ Follows(k, ks)
        /\ k.pc \in {"reconcile", "recRead", "recWrite"}
    <2>1. TypeOK /\ k \in Local /\ wk \in [Workers -> Local]
      BY DEF WorkInv, FenceInv, TypeOK
    <2>2. k.pc \in {"reconcile", "recRead", "recWrite"}
      BY Zenon DEF ReconcileRead, ReadForReconcile, ReconcileWrite
    <2> QED
      BY <2>1, <2>2 DEF Fits
  <1>1. k.pc # "down" /\ ~k.proof
    BY <1>0 DEF Judges
  <1>2. /\ Fits(Idle(w), ks) /\ \A e : Fits(Dropped(w, e), ks)
        /\ k.pc \in {"recRead", "recWrite"} => Fits(NextActive(w), ks)
    BY <1>0, <1>1, LocalFits
  <1>3. CASE ReconcileRead(w)
    <2>1. PICK e \in k.todo :
            \/ l = [Dropped(w, e) EXCEPT !.pc = "recRead", !.job = e.job,
                      !.uid = e.uid, !.seen = e.status, !.obs = Observed(e)]
            \/ l = Dropped(w, e)
      BY <1>0, <1>3, PutAt, Zenon DEF ReconcileRead
    <2>2. e \in Entry /\ k8s' = k8s /\ k.pc = "reconcile"
      <3>1. k8s' = k8s /\ k.pc = "reconcile"
        BY <1>3, Zenon DEF ReconcileRead
      <3> QED
        BY <1>0, <2>1, <3>1 DEF Local
    <2>3. \A f \in k.todo : Named(f.uid, ks[f.job])
      BY <1>0 DEF Follows
    <2>4. /\ Observed(e) = "succeeded" => e.uid \in ks[e.job].completed
          /\ Observed(e) = "failed" => Broken(ks[e.job])
      BY <2>1, <2>2, <2>3, ObservedTrue
    <2>5. CASE l = [Dropped(w, e) EXCEPT !.pc = "recRead", !.job = e.job,
                      !.uid = e.uid, !.seen = e.status, !.obs = Observed(e)]
      <3> DEFINE d == Dropped(w, e)
      <3>1. d \in Local /\ d.rejects = k.rejects /\ d.proof = k.proof /\ d.todo \subseteq k.todo
        <4>1. d.rejects = k.rejects /\ d.proof = k.proof /\ d.todo \subseteq k.todo
          BY <1>0 DEF Dropped, Local
        <4> QED
          BY <1>0, <2>2, <4>1, LocalType
      <3> HIDE DEF d
      <3>2. /\ l.pc = "recRead" /\ l.job = e.job /\ l.uid = e.uid /\ l.obs = Observed(e)
            /\ l.rejects = d.rejects /\ l.proof = d.proof /\ l.todo = d.todo
        <4>1. \A o : LET m == [d EXCEPT !.pc = "recRead", !.job = e.job,
                                !.uid = e.uid, !.seen = e.status, !.obs = o]
                     IN  /\ m.pc = "recRead" /\ m.job = e.job /\ m.uid = e.uid /\ m.obs = o
                         /\ m.rejects = d.rejects /\ m.proof = d.proof /\ m.todo = d.todo
          BY <3>1 DEF Local
        <4>2. l = [d EXCEPT !.pc = "recRead", !.job = e.job,
                     !.uid = e.uid, !.seen = e.status, !.obs = Observed(e)]
          BY <2>5 DEF d
        <4> HIDE DEF l
        <4> QED
          BY <4>1, <4>2
      <3> QED
        BY <1>0, <1>1, <2>3, <2>4, <3>1, <3>2 DEF Fits, Follows, Judges
    <2> QED
      BY <1>2, <2>1, <2>5
  <1>4. CASE ReadForReconcile(w)
    <2>1. /\ k.pc = "recRead"
          /\ \/ \E s : l = [k EXCEPT !.pc = "recWrite", !.snap = s]
             \/ l = NextActive(w) \/ l = Idle(w)
      BY <1>0, <1>4, PutAt, Zenon DEF ReadForReconcile
    <2>2. ASSUME NEW s, l = [k EXCEPT !.pc = "recWrite", !.snap = s] PROVE Fits(l, ks)
      <3>1. /\ l.pc = "recWrite" /\ l.job = k.job /\ l.uid = k.uid /\ l.obs = k.obs
            /\ l.rejects = k.rejects /\ l.proof = k.proof /\ l.todo = k.todo
        BY <1>0, <2>2 DEF Local
      <3>2. k.pc = "recRead"
        BY <2>1, Zenon
      <3> QED
        BY <1>0, <1>1, <3>1, <3>2 DEF Fits, Follows, Judges
    <2> QED
      BY <1>2, <2>1, <2>2, Zenon
  <1>5. CASE ReconcileWrite(w)
    <2> DEFINE cond == /\ rec[k.job].status = k.seen /\ rec[k.job].ver = k.snap
                       /\ rec[k.job].uid = k.uid
               new == Moved(rec[k.job], k.obs)
    <2>1. k.pc = "recWrite" /\ Cas(w, k.job, cond, new, NextActive(w), NextActive(w), Idle(w))
      BY <1>5 DEF ReconcileWrite
    <2> HIDE DEF cond, new
    <2>2. l \in {NextActive(w), Idle(w)}
      BY <1>0, <2>1, CasAt
    <2> QED
      BY <1>2, <2>1, <2>2
  <1> QED
    BY <1>3, <1>4, <1>5

LEMMA ProcessFits ==
  ASSUME WorkInv, TypeOK', NEW w \in Workers, Crash(w) \/ Restart(w)
  PROVE  Fits(wk'[w], k8s')
  <1>0. TypeOK
    BY DEF WorkInv, FenceInv
  <1>1. \A rejects : Fits(AtRest("down", rejects), k8s')
    BY DEF AtRest, Fits, Follows, Judges
  <1>2. \A rejects \in Rejections : Fits(AtRest("idle", rejects), k8s')
    BY DEF AtRest, Fits, Follows, Judges
  <1>3. CASE Crash(w)
    BY <1>0, <1>1, <1>3, PutAt, Zenon DEF Crash
  <1>4. CASE Restart(w)
    BY <1>0, <1>2, <1>4, PutAt, Zenon DEF Restart
  <1> QED
    BY <1>3, <1>4

LEMMA WorkStep == WorkInv /\ [Next]_vars => WorkInv'
  <1> SUFFICES ASSUME WorkInv, [Next]_vars PROVE WorkInv'
    OBVIOUS
  <1>0. FenceInv /\ FenceInv' /\ TypeOK /\ TypeOK'
    BY FenceStep DEF WorkInv, FenceInv
  <1>1. /\ rec \in [Jobs -> Item] /\ rec' \in [Jobs -> Item]
        /\ wk \in [Workers -> Local] /\ wk' \in [Workers -> Local]
        /\ k8s \in [Jobs -> Cluster] /\ k8s' \in [Jobs -> Cluster]
    BY <1>0 DEF FenceInv, TypeOK
  <1>2. \A j \in Jobs : ClusterStep(j)
    BY StepGrows
  <1>3. \A j \in Jobs : /\ Tracks(rec'[j], k8s[j])
                        /\ rec'[j].notCreated => \E r \in Rejections : j \in r
    BY <1>0, NextChange, StepTracks
  <1>4. \A j \in Jobs : Tracks(rec'[j], k8s'[j])
    BY <1>1, <1>2, <1>3, TracksGrown DEF ClusterStep
  <1>5. \A j \in Jobs : Counted(k8s'[j], deletes') /\ Judged(j, rec'[j], k8s'[j])
    BY <1>2, <1>3 DEF ClusterStep, Judged
  <1>6. \A w \in Workers : Fits(wk[w], k8s')
    <2>1. \A j \in Jobs : Grows(k8s[j], k8s'[j])
      BY <1>2 DEF ClusterStep
    <2>2. \A w \in Workers : wk[w] \in Local /\ Follows(wk[w], k8s) /\ Judges(wk[w])
      BY <1>1 DEF WorkInv
    <2>3. \A w \in Workers : Follows(wk[w], k8s')
      BY <1>1, <2>1, <2>2, FollowsGrown
    <2> QED
      BY <2>2, <2>3 DEF Fits
  <1>7. ASSUME NEW w \in Workers PROVE Fits(wk'[w], k8s')
    <2>1. CASE wk'[w] = wk[w]
      BY <1>6, <2>1
    <2>2. CASE Step(w) \/ Heartbeat(w) \/ Crash(w) \/ Restart(w)
      BY <1>0, <1>6, <2>2, QuietFits, TransitionFits, KubernetesFits, ReconcileFits,
         ProcessFits DEF Step
    <2>3. wk'[w] = wk[w] \/ Step(w) \/ Heartbeat(w) \/ Crash(w) \/ Restart(w)
      BY <1>0, OthersRest
    <2> QED
      BY <2>1, <2>2, <2>3
  <1> QED
    BY <1>0, <1>4, <1>5, <1>7 DEF WorkInv, Fits

LEMMA WorkHolds == Spec => []WorkInv
  BY InitWork, WorkStep, PTL DEF Spec

(* However a job is claimed, retried, recovered and raced over, its        *)
(* workload is created once, and once more for every Job removed.          *)
THEOREM OneWorkload == Spec => []SingleWorkload
  <1>1. WorkInv => SingleWorkload
    BY DEF WorkInv, FenceInv, TypeOK, Cluster, Counted, SingleWorkload
  <1> QED
    BY <1>1, WorkHolds, PTL

(* SUCCEEDED is only ever said of a workload that completed.               *)
THEOREM SuccessIsReal == Spec => []SucceededIsReal
  <1>1. WorkInv => SucceededIsReal
    BY DEF WorkInv, Tracks, SucceededIsReal
  <1> QED
    BY <1>1, WorkHolds, PTL

(* While no Kubernetes Job is removed, FAILED is said of a workload only   *)
(* if that workload failed.                                                *)
THEOREM FailureIsReal == Spec => []FailedIsReal
  <1>1. WorkInv => FailedIsReal
    BY DEF WorkInv, FenceInv, TypeOK, Cluster, Counted, Tracks, Broken, Gone, FailedIsReal
  <1> QED
    BY <1>1, WorkHolds, PTL

(* No two policies are ever in force. *)
OnePolicy == \A r, s \in Rejections : r = s

(* Under a policy that does not change, the no-workload proof of a failed  *)
(* record means that no workload was ever created for it.                  *)
THEOREM ProofIsReal == Spec => [](OnePolicy => NotCreatedProof)
  <1>1. WorkInv => (OnePolicy => NotCreatedProof)
    BY DEF OnePolicy, WorkInv, FenceInv, TypeOK, Cluster, Judged, NotCreatedProof
  <1> QED
    BY <1>1, WorkHolds, PTL
-----------------------------------------------------------------------------
(* Refinement.  The abstract state of a job is a function of its record    *)
(* and of the Jobs of its name; a step changes at most one of the two, of  *)
(* one job.                                                                *)

LifeIn(item) ==
  CASE item.status = "queued"     -> IF item.gen = 0 THEN "new" ELSE "returned"
    [] item.status \in Transient  -> "dispatched"
    [] item.status \in Active     -> "active"
    [] OTHER                      -> item.status

WorkIn(c) ==
  CASE ~c.present           -> "none"
    [] c.phase = "complete" -> "complete"
    [] c.phase = "failed"   -> "broken"
    [] OTHER                -> "started"

PastIn(c) ==
  {fact \in {"started", "completed", "removed"} :
     CASE fact = "started"   -> c.made > 0
       [] fact = "completed" -> c.completed # {}
       [] fact = "removed"   -> c.made > 1 \/ (c.made = 1 /\ ~c.present)}

LEMMA LifeFacts ==
  ASSUME NEW item \in Item
  PROVE  /\ item.status = "queued" =>
              LifeIn(item) = IF item.gen = 0 THEN "new" ELSE "returned"
         /\ item.status \in {"claimed", "applying"} => LifeIn(item) = "dispatched"
         /\ item.status \in {"pending", "running"} => LifeIn(item) = "active"
         /\ item.status \in {"absent", "succeeded", "failed", "cancelled"} =>
              LifeIn(item) = item.status
  BY DEF LifeIn, Transient, Active

LEMMA WorkFacts ==
  ASSUME NEW c \in Cluster, ~c.present => c.phase = "pending"
  PROVE  /\ ~c.present => WorkIn(c) = "none"
         /\ c.present /\ c.phase = "complete" => WorkIn(c) = "complete"
         /\ c.present /\ c.phase = "failed" => WorkIn(c) = "broken"
         /\ c.present /\ c.phase \in {"pending", "running"} => WorkIn(c) = "started"
  BY DEF WorkIn

LEMMA PastFacts ==
  ASSUME NEW c
  PROVE  /\ PastIn(c) \subseteq {"started", "completed", "removed"}
         /\ "started" \in PastIn(c) <=> c.made > 0
         /\ "completed" \in PastIn(c) <=> c.completed # {}
         /\ "removed" \in PastIn(c) <=> Gone(c)
  BY DEF PastIn, Gone

(* What a change of the record of j is to a client.                        *)
LEMMA LifeMoves ==
  ASSUME WorkInv, TypeOK', NEW j \in Jobs, Change(j)
  PROVE  LET a == LifeIn(rec[j])  b == LifeIn(rec'[j])  c == k8s[j] IN
         \/ a = b
         \/ a = "absent" /\ b \in {"new", "failed"}
         \/ a \in {"new", "returned"} /\ b \in {"dispatched", "cancelled"}
         \/ a = "dispatched" /\ b \in {"returned", "failed"}
         \/ a = "dispatched" /\ b = "active" /\ c.made > 0
         \/ a = "active" /\ b = "succeeded" /\ c.completed # {}
         \/ a = "active" /\ b = "failed" /\ Broken(c)
  <1> DEFINE old == rec[j]
             new == rec'[j]
             a == LifeIn(old)
             b == LifeIn(new)
             c == k8s[j]
  <1>0. /\ old \in Item /\ new \in Item /\ Tracks(old, c) /\ Tracks(new, c)
        /\ c \in Cluster /\ old.gen \in Nat /\ new.gen \in Nat /\ c.made \in Nat
        /\ old.uid \in Nat /\ new.uid \in Nat
    BY StepTracks DEF WorkInv, FenceInv, TypeOK, Item, Cluster
  <1>1. \A s \in Status : /\ Moved(old, s).status = s /\ Moved(old, s).gen = old.gen
                          /\ Moved(old, s).uid = old.uid /\ Moved(old, s) \in Item
    BY <1>0, MovedFacts, MovedType
  <1> USE DEF Status, Terminal, Transient, Active
  <1>2. CASE new = old
    BY <1>2
  <1>3. CASE \E lease \in {"live", "expired"} : new = [old EXCEPT !.lease = lease]
    <2>1. new.status = old.status /\ new.gen = old.gen
      BY <1>0, <1>3 DEF Item
    <2> QED
      BY <2>1 DEF LifeIn
  <1>4. CASE old.status = "absent" /\ \E s \in {"queued", "failed"} : new = Moved(old, s)
    <2>1. new.gen = 0 /\ new.status \in {"queued", "failed"}
      BY <1>0, <1>1, <1>4 DEF Tracks
    <2> QED
      BY <1>0, <1>4, <2>1, LifeFacts
  <1>5. CASE old.status = "queued" /\ new = Moved(old, "cancelled")
    <2>1. new.status = "cancelled"
      BY <1>1, <1>5
    <2> QED
      BY <1>0, <1>5, <2>1, LifeFacts
  <1>6. CASE old.status \in Transient /\ new = Moved(old, "queued")
    <2>1. new.status = "queued" /\ new.gen # 0
      BY <1>0, <1>1, <1>6 DEF Tracks
    <2> QED
      BY <1>0, <1>6, <2>1, LifeFacts
  <1>7. ASSUME NEW w \in Workers, old.status = "queued", new = Claimed(w, old)
        PROVE  a \in {"new", "returned"} /\ b = "dispatched"
    <2>1. new.status = "claimed"
      BY <1>1, <1>7 DEF Claimed, Item
    <2> QED
      BY <1>0, <1>7, <2>1, LifeFacts
  <1>8. CASE old.status = "claimed" /\ new = Moved(old, "applying")
    <2>1. new.status = "applying"
      BY <1>1, <1>8
    <2> QED
      BY <1>0, <1>8, <2>1, LifeFacts
  <1>9. ASSUME NEW w \in Workers, old.status = "applying",
               new = [Moved(old, "pending") EXCEPT !.uid = wk[w].uid]
        PROVE  a = "dispatched" /\ b = "active" /\ c.made > 0
    <2>1. new.status = "pending"
      BY <1>1, <1>9 DEF Item
    <2>2. c.made > 0
      BY <1>0, <2>1 DEF Tracks
    <2> QED
      BY <1>0, <1>9, <2>1, <2>2, LifeFacts
  <1>10. ASSUME NEW w \in Workers, old.status = "applying",
                new = [Moved(old, "failed") EXCEPT !.notCreated = wk[w].proof]
         PROVE  a = "dispatched" /\ b = "failed"
    <2>1. new.status = "failed"
      BY <1>1, <1>10 DEF Item
    <2> QED
      BY <1>0, <1>10, <2>1, LifeFacts
  <1>11. ASSUME NEW w \in Workers, old.status = wk[w].seen, wk[w].seen \in Active,
                wk[w].obs \in Allowed[wk[w].seen], new = Moved(old, wk[w].obs)
         PROVE  \/ a = b
                \/ a = "active" /\ b = "succeeded" /\ c.completed # {}
                \/ a = "active" /\ b = "failed" /\ Broken(c)
    <2>1. wk[w].obs \in {"running", "succeeded", "failed"}
      BY <1>11 DEF Allowed
    <2>2. new.status = wk[w].obs /\ new.uid = old.uid /\ old.uid # 0
      BY <1>0, <1>1, <1>11, <2>1 DEF Tracks
    <2>3. /\ new.status = "succeeded" => c.completed # {}
          /\ new.status = "failed" => Broken(c)
      BY <1>0, <2>2 DEF Tracks
    <2> QED
      BY <1>0, <1>11, <2>1, <2>2, <2>3, LifeFacts
  <1> QED
    BY <1>2, <1>3, <1>4, <1>5, <1>6, <1>7, <1>8, <1>9, <1>10, <1>11, Zenon DEF Change

(* Where one record changes, one abstract life does.                       *)
LEMMA LifeChange ==
  ASSUME rec \in [Jobs -> Item], rec' \in [Jobs -> Item], NEW j \in Jobs,
         \A i \in Jobs : i # j => rec'[i] = rec[i]
  PROVE  [i \in Jobs |-> LifeOf(i)]'
           = [[i \in Jobs |-> LifeOf(i)] EXCEPT ![j] = LifeIn(rec'[j])]
  <1>1. \A i \in Jobs : LifeOf(i) = LifeIn(rec[i]) /\ LifeOf(i)' = LifeIn(rec'[i])
    BY Zenon DEF LifeOf, LifeIn
  <1>2. [i \in Jobs |-> LifeOf(i)]' = [i \in Jobs |-> LifeIn(rec'[i])]
    BY <1>1
  <1>3. [i \in Jobs |-> LifeOf(i)] = [i \in Jobs |-> LifeIn(rec[i])]
    BY <1>1
  <1>4. [i \in Jobs |-> LifeIn(rec'[i])]
          = [[i \in Jobs |-> LifeIn(rec[i])] EXCEPT ![j] = LifeIn(rec'[j])]
    OBVIOUS
  <1> QED
    BY <1>2, <1>3, <1>4

LEMMA WorkChange ==
  ASSUME k8s \in [Jobs -> Cluster], NEW j \in Jobs, NEW d,
         k8s' = [k8s EXCEPT ![j] = d]
  PROVE  /\ [i \in Jobs |-> WorkOf(i)]'
              = [[i \in Jobs |-> WorkOf(i)] EXCEPT ![j] = WorkIn(d)]
         /\ [i \in Jobs |-> PastOf(i)]'
              = [[i \in Jobs |-> PastOf(i)] EXCEPT ![j] = PastIn(d)]
  <1>1. \A i \in Jobs : WorkOf(i) = WorkIn(k8s[i]) /\ WorkOf(i)' = WorkIn(k8s'[i])
    BY Zenon DEF WorkOf, WorkIn
  <1>2. \A i \in Jobs : PastOf(i) = PastIn(k8s[i]) /\ PastOf(i)' = PastIn(k8s'[i])
    BY Zenon DEF PastOf, PastIn
  <1>3. [i \in Jobs |-> WorkOf(i)] = [i \in Jobs |-> WorkIn(k8s[i])]
    BY <1>1
  <1>4. [i \in Jobs |-> PastOf(i)] = [i \in Jobs |-> PastIn(k8s[i])]
    BY <1>2
  <1>5. [i \in Jobs |-> WorkOf(i)]' = [[i \in Jobs |-> WorkIn(k8s[i])] EXCEPT ![j] = WorkIn(d)]
    BY <1>1
  <1>6. [i \in Jobs |-> PastOf(i)]' = [[i \in Jobs |-> PastIn(k8s[i])] EXCEPT ![j] = PastIn(d)]
    BY <1>2
  <1> QED
    BY <1>3, <1>4, <1>5, <1>6

LEMMA WorkSame ==
  ASSUME UNCHANGED k8s
  PROVE  /\ [i \in Jobs |-> WorkOf(i)]' = [i \in Jobs |-> WorkOf(i)]
         /\ [i \in Jobs |-> PastOf(i)]' = [i \in Jobs |-> PastOf(i)]
  <1>1. \A i \in Jobs : WorkOf(i) = WorkIn(k8s[i]) /\ WorkOf(i)' = WorkIn(k8s'[i])
    BY Zenon DEF WorkOf, WorkIn
  <1>2. \A i \in Jobs : PastOf(i) = PastIn(k8s[i]) /\ PastOf(i)' = PastIn(k8s'[i])
    BY Zenon DEF PastOf, PastIn
  <1> QED
    BY <1>1, <1>2

LEMMA LifeSame ==
  ASSUME UNCHANGED rec
  PROVE  [i \in Jobs |-> LifeOf(i)]' = [i \in Jobs |-> LifeOf(i)]
  <1>1. \A i \in Jobs : LifeOf(i) = LifeIn(rec[i]) /\ LifeOf(i)' = LifeIn(rec'[i])
    BY Zenon DEF LifeOf, LifeIn
  <1> QED
    BY <1>1

(* A step writes one record or changes the Jobs of one name, not both.     *)
LEMMA OneThing ==
  ASSUME TypeOK, [Next]_vars
  PROVE  \/ UNCHANGED <<rec, k8s>>
         \/ UNCHANGED k8s /\ \E j \in Jobs : \A i \in Jobs : i # j => rec'[i] = rec[i]
         \/ /\ UNCHANGED rec
            /\ \/ \E w \in Workers : K8sCreate(w) /\ k8s' # k8s
               \/ \E j \in Jobs : K8sPods(j) \/ K8sFinish(j) \/ K8sDelete(j)
  <1> DEFINE One == \E j \in Jobs : \A i \in Jobs : i # j => rec'[i] = rec[i]
  <1>0. /\ rec \in [Jobs -> Item] /\ wk \in [Workers -> Local]
        /\ \A w \in Workers : wk[w] \in Local
        /\ \A w \in Workers : wk[w].pc \in BusyPcs => wk[w].job \in Jobs
    BY DEF TypeOK, Local
  <1>1. ASSUME NEW j \in Jobs, NEW item, rec' = [rec EXCEPT ![j] = item] \/ UNCHANGED rec
        PROVE  One
    BY <1>0, <1>1
  <1>2. ASSUME NEW w \in Workers, Step(w), ~K8sCreate(w)
        PROVE  UNCHANGED k8s /\ (UNCHANGED rec \/ One)
    <2>1. UNCHANGED k8s
      BY <1>2, StepCluster
    <2>2. CASE RequeueExpired(w)
      <3>1. PICK e \in wk[w].todo : UNCHANGED rec \/ \E item : rec' = [rec EXCEPT ![e.job] = item]
        BY <2>2, Zenon DEF RequeueExpired, Cas
      <3>2. e.job \in Jobs
        BY <1>0, <3>1 DEF Local, Entry
      <3> QED
        BY <1>1, <2>1, <3>1, <3>2
    <2>3. CASE ClaimWrite(w) \/ StartWrite(w) \/ PendWrite(w) \/ FailWrite(w) \/ ReconcileWrite(w)
      <3>1. UNCHANGED rec \/ \E item : rec' = [rec EXCEPT ![wk[w].job] = item]
        BY <2>3, Zenon DEF ClaimWrite, StartWrite, PendWrite, FailWrite, ReconcileWrite, Cas
      <3>2. wk[w].pc \in {"claimWrite", "startWrite", "pendWrite", "failWrite", "recWrite"}
        BY <2>3, Zenon DEF ClaimWrite, StartWrite, PendWrite, FailWrite, ReconcileWrite
      <3>3. wk[w].job \in Jobs
        BY <1>0, <3>2 DEF BusyPcs, ClaimPcs
      <3> QED
        BY <1>1, <2>1, <3>1, <3>3
    <2> QED
      BY <1>2, <2>1, <2>2, <2>3, QuietSteps DEF Step
  <1>3. ASSUME NEW w \in Workers, K8sCreate(w)
        PROVE  UNCHANGED rec
    BY <1>3 DEF K8sCreate
  <1>4. ASSUME NEW w \in Workers, Heartbeat(w)
        PROVE  UNCHANGED k8s /\ (UNCHANGED rec \/ One)
    <2>1. UNCHANGED k8s /\ wk[w].pc \in ApplyPcs
      BY <1>4, Zenon DEF Heartbeat
    <2>2. UNCHANGED rec \/ rec' = [rec EXCEPT ![wk[w].job] = [@ EXCEPT !.lease = "live"]]
      BY <1>4 DEF Heartbeat
    <2>3. wk[w].job \in Jobs
      BY <1>0, <2>1 DEF BusyPcs, ClaimPcs
    <2> QED
      BY <1>1, <2>1, <2>2, <2>3
  <1>5. ASSUME NEW w \in Workers, Crash(w) \/ Restart(w)
        PROVE  UNCHANGED <<rec, k8s>>
    BY <1>5 DEF Crash, Restart
  <1>6. ASSUME NEW j \in Jobs, Submit(j) \/ RecordJobFailure(j) \/ Cancel(j) \/ LeaseRunsOut(j)
        PROVE  UNCHANGED k8s /\ One
    <2>1. UNCHANGED k8s /\ \E item : rec' = [rec EXCEPT ![j] = item]
      BY <1>6 DEF Submit, RecordJobFailure, Cancel, LeaseRunsOut
    <2> QED
      BY <1>1, <2>1
  <1>7. ASSUME NEW j \in Jobs, K8sPods(j) \/ K8sFinish(j) \/ K8sDelete(j)
        PROVE  UNCHANGED rec
    BY <1>7 DEF K8sPods, K8sFinish, K8sDelete
  <1> QED
    BY <1>2, <1>3, <1>4, <1>5, <1>6, <1>7, Zenon DEF Next, vars

(* A change of a record is a move of the abstract life.                    *)
LEMMA RecordRefines ==
  ASSUME WorkInv, TypeOK', UNCHANGED k8s, NEW j \in Jobs, Change(j),
         \A i \in Jobs : i # j => rec'[i] = rec[i]
  PROVE  [Lifecycle!Next]_<<[i \in Jobs |-> LifeOf(i)], [i \in Jobs |-> WorkOf(i)],
                            [i \in Jobs |-> PastOf(i)]>>
  <1> DEFINE life == [i \in Jobs |-> LifeOf(i)]
             work == [i \in Jobs |-> WorkOf(i)]
             past == [i \in Jobs |-> PastOf(i)]
             a == LifeIn(rec[j])
             b == LifeIn(rec'[j])
             c == k8s[j]
  <1>1. life' = [life EXCEPT ![j] = b] /\ work' = work /\ past' = past
    <2>1. life' = [life EXCEPT ![j] = b]
      BY LifeChange DEF WorkInv, FenceInv, TypeOK
    <2>2. work' = work /\ past' = past
      BY WorkSame
    <2> QED
      BY <2>1, <2>2
  <1>2. life[j] = a /\ work[j] = WorkIn(c) /\ past[j] = PastIn(c)
    BY Zenon DEF LifeOf, LifeIn, WorkOf, WorkIn, PastOf, PastIn
  <1>3. /\ c \in Cluster /\ c.made \in Nat
        /\ ~c.present => c.phase = "pending"
    BY DEF WorkInv, FenceInv, TypeOK, Cluster, Counted
  <1>4. /\ c.made > 0 => "started" \in past[j]
        /\ c.completed # {} => "completed" \in past[j]
        /\ Broken(c) => work[j] = "broken" \/ "removed" \in past[j]
    BY <1>2, <1>3, PastFacts, WorkFacts DEF Broken
  <1>5. \/ a = b
        \/ a = "absent" /\ b \in {"new", "failed"}
        \/ a \in {"new", "returned"} /\ b \in {"dispatched", "cancelled"}
        \/ a = "dispatched" /\ b \in {"returned", "failed"}
        \/ a = "dispatched" /\ b = "active" /\ c.made > 0
        \/ a = "active" /\ b = "succeeded" /\ c.completed # {}
        \/ a = "active" /\ b = "failed" /\ Broken(c)
    BY LifeMoves
  <1>6. life \in [Jobs -> {life[i] : i \in Jobs}]
    BY Zenon
  <1> HIDE DEF life, work, past, a, b, c
  <1>7. CASE a = b
    <2>1. life' = life
      BY <1>1, <1>2, <1>6, <1>7
    <2> QED
      BY <1>1, <2>1 DEF life, work, past
  <1>8. CASE a # b
    <2>1. \/ Lifecycle!Submit(j) \/ Lifecycle!RecordFailure(j) \/ Lifecycle!Dispatch(j)
          \/ Lifecycle!PutBack(j) \/ Lifecycle!Cancel(j) \/ Lifecycle!Refuse(j)
          \/ Lifecycle!Activate(j) \/ Lifecycle!Succeed(j) \/ Lifecycle!Break(j)
      BY <1>1, <1>2, <1>4, <1>5, <1>8
      DEF Lifecycle!Submit, Lifecycle!RecordFailure, Lifecycle!Dispatch, Lifecycle!PutBack,
          Lifecycle!Cancel, Lifecycle!Refuse, Lifecycle!Activate, Lifecycle!Succeed,
          Lifecycle!Break, Lifecycle!Move, life, work, past
    <2> QED
      BY <2>1, Zenon DEF Lifecycle!Next
  <1> QED
    BY <1>7, <1>8

(* An event in the cluster is a turn of the abstract workload.             *)
LEMMA ClusterRefines ==
  ASSUME WorkInv, [Next]_vars, UNCHANGED rec,
         \/ \E w \in Workers : K8sCreate(w) /\ k8s' # k8s
         \/ \E j \in Jobs : K8sPods(j) \/ K8sFinish(j) \/ K8sDelete(j)
  PROVE  [Lifecycle!Next]_<<[i \in Jobs |-> LifeOf(i)], [i \in Jobs |-> WorkOf(i)],
                            [i \in Jobs |-> PastOf(i)]>>
  <1> DEFINE life == [i \in Jobs |-> LifeOf(i)]
             work == [i \in Jobs |-> WorkOf(i)]
             past == [i \in Jobs |-> PastOf(i)]
  <1>0. /\ k8s \in [Jobs -> Cluster] /\ rec \in [Jobs -> Item] /\ wk \in [Workers -> Local]
        /\ deletes \in Nat
        /\ \A j \in Jobs : Counted(k8s[j], deletes)
    BY DEF WorkInv, FenceInv, TypeOK
  <1>1. life' = life
    BY LifeSame
  <1>2. \A j \in Jobs : life[j] = LifeIn(rec[j]) /\ work[j] = WorkIn(k8s[j]) /\ past[j] = PastIn(k8s[j])
    BY Zenon DEF LifeOf, LifeIn, WorkOf, WorkIn, PastOf, PastIn
  <1>3. ASSUME NEW j \in Jobs, NEW d, k8s' = [k8s EXCEPT ![j] = d]
        PROVE  /\ work' = [work EXCEPT ![j] = WorkIn(d)]
               /\ past' = [past EXCEPT ![j] = PastIn(d)]
    BY <1>0, <1>3, WorkChange
  <1>4. work \in [Jobs -> {work[i] : i \in Jobs}] /\ past \in [Jobs -> {past[i] : i \in Jobs}]
    BY Zenon
  <1> HIDE DEF life, work, past
  <1>5. ASSUME NEW w \in Workers, K8sCreate(w), k8s' # k8s
        PROVE  \E j \in Jobs : Lifecycle!Start(j)
    <2> DEFINE j == wk[w].job
               c == k8s[j]
    <2>1. ~c.present /\ k8s' = [k8s EXCEPT ![j] = Created(c)] /\ wk[w].pc = "k8sCreate"
      BY <1>5 DEF K8sCreate
    <2>2. j \in Jobs /\ c \in Cluster /\ Created(c) \in Cluster /\ rec[j] \in Item
      <3>1. j \in Jobs /\ wk[w].pc \in ClaimPcs
        BY <1>0, <2>1 DEF Local, BusyPcs, ClaimPcs, ApplyPcs
      <3>2. c \in Cluster /\ c.made + 1 \in Nat
        BY <1>0, <3>1 DEF Cluster
      <3> QED
        BY <1>0, <3>1, <3>2 DEF Created, Cluster
    <2>3. rec[j].gen > 0 /\ rec[j].gen \in Nat
      BY <1>0, <2>1, <2>2 DEF WorkInv, FenceInv, Honest, ClaimPcs, ApplyPcs, Item, Local
    <2>4. life[j] \notin {"absent", "new"}
      <3>1. rec[j].status # "absent" /\ rec[j].status \in Status
        BY <2>2, <2>3 DEF WorkInv, Tracks, Item
      <3> QED
        BY <1>2, <2>2, <2>3, <3>1, LifeFacts DEF Status, Transient, Active, Terminal
    <2>5. /\ c.phase = "pending" /\ c.made \in Nat
          /\ Created(c).present = TRUE /\ Created(c).phase = "pending"
          /\ Created(c).made = c.made + 1 /\ Created(c).completed = c.completed
      BY <1>0, <2>1, <2>2 DEF Counted, Created, Cluster
    <2>6. WorkIn(c) = "none" /\ WorkIn(Created(c)) = "started"
      BY <2>1, <2>2, <2>5, WorkFacts
    <2>7. PastIn(Created(c)) = PastIn(c) \union {"started"}
      BY <2>1, <2>5, PastFacts DEF Gone
    <2>8. /\ work' = [work EXCEPT ![j] = "started"]
          /\ past' = [past EXCEPT ![j] = past[j] \union {"started"}]
      <3>1. /\ work' = [work EXCEPT ![j] = WorkIn(Created(c))]
            /\ past' = [past EXCEPT ![j] = PastIn(Created(c))]
        BY <1>3, <2>1, <2>2, Zenon
      <3>2. past[j] = PastIn(c)
        BY <1>2, <2>2
      <3> QED
        BY <2>6, <2>7, <3>1, <3>2
    <2>9. work[j] \in {"none"}
      BY <1>2, <2>2, <2>6
    <2>10. Lifecycle!Start(j)
      BY <1>1, <2>4, <2>8, <2>9 DEF Lifecycle!Start, Lifecycle!Turn, life, work, past
    <2> QED
      BY <2>2, <2>10
  <1>6. ASSUME NEW j \in Jobs, K8sPods(j)
        PROVE  work' = work /\ past' = past
    <2> DEFINE c == k8s[j]
    <2>1. PICK p \in {"pending", "running"} :
            /\ c.present /\ c.phase \in {"pending", "running"}
            /\ k8s' = [k8s EXCEPT ![j] = [c EXCEPT !.phase = p]]
      BY <1>0, <1>6 DEF K8sPods
    <2> DEFINE d == [c EXCEPT !.phase = p]
    <2>2. /\ c \in Cluster /\ d \in Cluster /\ d.present = c.present /\ d.phase = p
          /\ d.made = c.made /\ d.completed = c.completed
      BY <1>0, <2>1 DEF Cluster
    <2>3. WorkIn(c) = "started" /\ WorkIn(d) = "started"
      BY <2>1, <2>2, WorkFacts
    <2>4. PastIn(d) = PastIn(c)
      BY <2>2 DEF PastIn
    <2>5. /\ work' = [work EXCEPT ![j] = work[j]]
          /\ past' = [past EXCEPT ![j] = past[j]]
      <3>1. /\ work' = [work EXCEPT ![j] = WorkIn(d)]
            /\ past' = [past EXCEPT ![j] = PastIn(d)]
        BY <1>3, <2>1, Zenon
      <3>2. work[j] = WorkIn(c) /\ past[j] = PastIn(c)
        BY <1>2
      <3> QED
        BY <2>3, <2>4, <3>1, <3>2
    <2> QED
      BY <1>4, <2>5
  <1>7. ASSUME NEW j \in Jobs, K8sFinish(j)
        PROVE  Lifecycle!Finish(j)
    <2> DEFINE c == k8s[j]
               d == [c EXCEPT !.phase = "complete", !.completed = @ \union {c.made}]
               e == [c EXCEPT !.phase = "failed"]
    <2>1. /\ c.present /\ c.phase \in {"pending", "running"}
          /\ k8s' = [k8s EXCEPT ![j] = d] \/ k8s' = [k8s EXCEPT ![j] = e]
      BY <1>0, <1>7 DEF K8sFinish
    <2>2. /\ c \in Cluster
          /\ d \in Cluster /\ d.present = c.present /\ d.phase = "complete"
          /\ d.made = c.made /\ d.completed = c.completed \union {c.made}
          /\ e \in Cluster /\ e.present = c.present /\ e.phase = "failed"
          /\ e.made = c.made /\ e.completed = c.completed
      <3>1. c \in Cluster
        BY <1>0
      <3>2. /\ d \in Cluster /\ d.present = c.present /\ d.phase = "complete"
            /\ d.made = c.made /\ d.completed = c.completed \union {c.made}
        BY <3>1 DEF Cluster
      <3>3. /\ e \in Cluster /\ e.present = c.present /\ e.phase = "failed"
            /\ e.made = c.made /\ e.completed = c.completed
        BY <3>1 DEF Cluster
      <3> QED
        BY <3>1, <3>2, <3>3
    <2> HIDE DEF d, e
    <2>3. WorkIn(c) = "started" /\ WorkIn(d) = "complete" /\ WorkIn(e) = "broken"
      BY <2>1, <2>2, WorkFacts
    <2>4. PastIn(d) = PastIn(c) \union {"completed"} /\ PastIn(e) = PastIn(c) \union {}
      BY <2>2, PastFacts DEF Gone
    <2>5. CASE k8s' = [k8s EXCEPT ![j] = d]
      <3>1. /\ work' = [work EXCEPT ![j] = "complete"]
            /\ past' = [past EXCEPT ![j] = past[j] \union {"completed"}]
            /\ work[j] \in {"started"}
        <4>1. /\ work' = [work EXCEPT ![j] = WorkIn(d)]
              /\ past' = [past EXCEPT ![j] = PastIn(d)]
          BY <1>3, <2>5, Zenon
        <4>2. work[j] = WorkIn(c) /\ past[j] = PastIn(c)
          BY <1>2
        <4> QED
          BY <2>3, <2>4, <4>1, <4>2
      <3> QED
        BY <1>1, <3>1 DEF Lifecycle!Finish, Lifecycle!Turn, life, work, past
    <2>6. CASE k8s' = [k8s EXCEPT ![j] = e]
      <3>1. /\ work' = [work EXCEPT ![j] = "broken"]
            /\ past' = [past EXCEPT ![j] = past[j] \union {}]
            /\ work[j] \in {"started"}
        <4>1. /\ work' = [work EXCEPT ![j] = WorkIn(e)]
              /\ past' = [past EXCEPT ![j] = PastIn(e)]
          BY <1>3, <2>6, Zenon
        <4>2. work[j] = WorkIn(c) /\ past[j] = PastIn(c)
          BY <1>2
        <4> QED
          BY <2>3, <2>4, <4>1, <4>2
      <3> QED
        BY <1>1, <3>1 DEF Lifecycle!Finish, Lifecycle!Turn, life, work, past
    <2> QED
      BY <2>1, <2>5, <2>6
  <1>8. ASSUME NEW j \in Jobs, K8sDelete(j)
        PROVE  Lifecycle!Remove(j)
    <2> DEFINE c == k8s[j]
               d == [c EXCEPT !.present = FALSE, !.phase = "pending"]
    <2>1. c.present /\ k8s' = [k8s EXCEPT ![j] = d]
      BY <1>0, <1>8 DEF K8sDelete
    <2>2. /\ c \in Cluster /\ c.made > 0 /\ c.made \in Nat
          /\ c.phase \in {"pending", "running", "complete", "failed"}
          /\ d \in Cluster /\ d.present = FALSE /\ d.phase = "pending"
          /\ d.made = c.made /\ d.completed = c.completed
      BY <1>0, <2>1 DEF Cluster, Counted
    <2> HIDE DEF d
    <2>3. WorkIn(c) \in {"started", "complete", "broken"} /\ WorkIn(d) = "none"
      BY <2>1, <2>2, WorkFacts
    <2>4. PastIn(d) = PastIn(c) \union {"removed"}
      BY <2>1, <2>2, PastFacts DEF Gone
    <2>5. /\ work' = [work EXCEPT ![j] = "none"]
          /\ past' = [past EXCEPT ![j] = past[j] \union {"removed"}]
          /\ work[j] \in Lifecycle!Work \ {"none"}
      <3>1. /\ work' = [work EXCEPT ![j] = WorkIn(d)]
            /\ past' = [past EXCEPT ![j] = PastIn(d)]
        BY <1>3, <2>1, Zenon
      <3>2. work[j] = WorkIn(c) /\ past[j] = PastIn(c)
        BY <1>2
      <3> QED
        BY <2>3, <2>4, <3>1, <3>2 DEF Lifecycle!Work
    <2> QED
      BY <1>1, <2>5 DEF Lifecycle!Remove, Lifecycle!Turn, life, work, past
  <1> QED
    BY <1>1, <1>5, <1>6, <1>7, <1>8, Zenon DEF Lifecycle!Next, life, work, past

(* Whatever its workers, its faults and the cluster do, the queue does to  *)
(* every job only what the abstract life cycle allows: no workload before  *)
(* a dispatch, no success without a completion, no failure of an active    *)
(* job without a broken or a removed workload.                             *)
THEOREM QueueImplements == Spec => ImplementsLifecycle
  <1>1. Init => Lifecycle!Init
    <2> SUFFICES ASSUME Init PROVE Lifecycle!Init
      OBVIOUS
    <2>1. \A i \in Jobs : rec[i] = NoItem /\ k8s[i] = NoCluster
      BY DEF Init
    <2>2. NoItem \in Item /\ NoCluster \in Cluster
      BY <2>1, InitType DEF TypeOK, NoItem, NoCluster, Item, Cluster, Status
    <2>3. LifeIn(NoItem) = "absent" /\ WorkIn(NoCluster) = "none"
      BY <2>2, LifeFacts, WorkFacts DEF NoItem, NoCluster
    <2>4. PastIn(NoCluster) = {}
      BY PastFacts DEF NoCluster, Gone
    <2>5. \A i \in Jobs : LifeOf(i) = "absent" /\ WorkOf(i) = "none" /\ PastOf(i) = {}
      <3>1. \A i \in Jobs : /\ LifeOf(i) = LifeIn(rec[i])
                            /\ WorkOf(i) = WorkIn(k8s[i])
                            /\ PastOf(i) = PastIn(k8s[i])
        BY Zenon DEF LifeOf, LifeIn, WorkOf, WorkIn, PastOf, PastIn
      <3> QED
        BY <2>1, <2>3, <2>4, <3>1
    <2> QED
      BY <2>5 DEF Lifecycle!Init
  <1>2. WorkInv /\ [Next]_vars =>
          [Lifecycle!Next]_<<[j \in Jobs |-> LifeOf(j)], [j \in Jobs |-> WorkOf(j)],
                            [j \in Jobs |-> PastOf(j)]>>
    <2> SUFFICES ASSUME WorkInv, [Next]_vars
                 PROVE  [Lifecycle!Next]_<<[j \in Jobs |-> LifeOf(j)],
                                           [j \in Jobs |-> WorkOf(j)],
                                           [j \in Jobs |-> PastOf(j)]>>
      OBVIOUS
    <2>1. FenceInv /\ TypeOK /\ TypeOK'
      BY NextType DEF WorkInv, FenceInv
    <2>2. CASE UNCHANGED <<rec, k8s>>
      BY <2>2, LifeSame, WorkSame
    <2>3. CASE UNCHANGED k8s /\ \E j \in Jobs : \A i \in Jobs : i # j => rec'[i] = rec[i]
      BY <2>1, <2>3, NextChange, RecordRefines
    <2>4. CASE /\ UNCHANGED rec
               /\ \/ \E w \in Workers : K8sCreate(w) /\ k8s' # k8s
                  \/ \E j \in Jobs : K8sPods(j) \/ K8sFinish(j) \/ K8sDelete(j)
      BY <2>4, ClusterRefines
    <2> QED
      BY <2>1, <2>2, <2>3, <2>4, OneThing
  <1> QED
    BY <1>1, <1>2, WorkHolds, PTL DEF Spec, ImplementsLifecycle, Lifecycle!Spec
=============================================================================

---------------------------- MODULE CentralQueue ----------------------------
(***************************************************************************)
(* The global job queue: the DynamoDB jobs table (JobStore), the regional  *)
(* workers that claim, apply and reconcile its records, and the            *)
(* Kubernetes Jobs they create.                                            *)
(*                                                                         *)
(* One action is one call that leaves a worker's process: a consistent     *)
(* read, a conditional write, a Kubernetes request.  Everything a worker   *)
(* remembers from one call to the next is in wk, so every other actor may  *)
(* move between a read and the write that depends on it.                   *)
(*                                                                         *)
(* Time is not a number.  A claim's lease is "live" until it runs out.  A  *)
(* fenced write compares the lease with a clock its caller read just       *)
(* after the item, so that comparison belongs to the read.                 *)
(*                                                                         *)
(* A definition introduced by "Faulty:" is not part of the model.  It is a *)
(* plausible mistake in the definition that follows it, which the runs     *)
(* named in PROJECT.json must notice.                                      *)
(***************************************************************************)
EXTENDS Naturals, FiniteSets

CONSTANTS
  Jobs,         \* queue job ids, each submitted at most once
  Workers,      \* worker processes: manifest-processor replicas
  Pollers,      \* the Workers that stand for a POST /queue/poll request
  Regions,
  TargetOf,     \* target_region of each job
  RegionOf,     \* the cluster a worker serves
  Rank,         \* position of each job in the worker index: priority, then FIFO
  Capped,       \* jobs that carry a spot price cap
  Rejections,   \* the policies in force: each is the set of jobs it rejects
  BatchLimit,   \* batch_size: claims per pass
  FetchLimit,   \* fetch_limit: candidates read per pass
  RecordLimit,  \* reconcile_limit: records recovered, or reconciled, per pass
  MaxFaults,    \* bound: crashes, stalls and failed calls in a behaviour
  MaxDeletes,   \* bound: Kubernetes Jobs removed from under the queue
  NoWorker, NoJob

ASSUME CountsAssumption ==
  /\ BatchLimit \in Nat \ {0} /\ RecordLimit \in Nat \ {0}
  /\ FetchLimit \in Nat /\ BatchLimit < FetchLimit
  /\ MaxFaults \in Nat /\ MaxDeletes \in Nat
ASSUME PlacementAssumption ==
  /\ TargetOf \in [Jobs -> Regions]
  /\ RegionOf \in [Workers -> Regions]
  /\ Pollers \subseteq Workers
  /\ Rejections \subseteq SUBSET Jobs
ASSUME NamesAssumption == NoWorker \notin Workers /\ NoJob \notin Jobs
\* work_sort ends in the job id, so no two records share a position.
ASSUME RankAssumption ==
  /\ Rank \in [Jobs -> Nat]
  /\ \A i, j \in Jobs : Rank[i] = Rank[j] => i = j

VARIABLES
  rec,      \* the jobs table: one item per job
  wk,       \* each worker's local state
  k8s,      \* the Kubernetes Job each queue id names in its region
  faults,   \* faults spent so far
  deletes   \* Kubernetes Jobs removed so far

vars == <<rec, wk, k8s, faults, deletes>>

-----------------------------------------------------------------------------
(* States *)

Terminal == {"succeeded", "failed", "cancelled"}
Transient == {"claimed", "applying"}
Active == {"pending", "running"}
Status == {"absent", "queued"} \union Transient \union Active \union Terminal

(* One item.  ver stands for updated_at, rewritten by every status change  *)
(* and by nothing else; owner stands for claimed_by and claim_token, which *)
(* are removed together; gen is claim_generation, which is never removed.  *)
Item == [status: Status, owner: Workers \union {NoWorker}, gen: Nat, ver: Nat,
         lease: {"none", "live", "expired"}, uid: Nat, notCreated: BOOLEAN]

(* The _ALLOWED_JOB_TRANSITIONS matrix. *)
Allowed ==
  [s \in Status |->
     CASE s = "queued"   -> {"claimed", "cancelled"}
       [] s = "claimed"  -> {"applying", "failed"}
       [] s = "applying" -> {"pending", "failed"}
       [] s = "pending"  -> {"running", "succeeded", "failed"}
       [] s = "running"  -> {"succeeded", "failed"}
       [] OTHER          -> {}]

(* What a worker kept of an item a query returned. *)
Entry == [job: Jobs, status: Status, gen: Nat, ver: Nat, uid: Nat]

ApplyPcs == {"k8sRead", "k8sCreate", "k8sAdopt"}
ClaimPcs == {"startRead", "startWrite", "pendRead", "pendWrite",
             "failRead", "failWrite"} \union ApplyPcs
BusyPcs == {"claimWrite", "recRead", "recWrite"} \union ClaimPcs
Pcs == {"down", "idle", "recover", "next", "reconcile"} \union BusyPcs

Local ==
  {local \in [pc: Pcs, todo: SUBSET Entry, attempted: Nat,
              job: Jobs \union {NoJob}, gen: Nat, snap: Nat, lost: BOOLEAN,
              uid: Nat, proof: BOOLEAN, seen: Status, obs: Status,
              rejects: SUBSET Jobs] :
     local.pc \in BusyPcs <=> local.job # NoJob}

(* The Kubernetes Job under the deterministic name of a queue id: made     *)
(* counts the objects created so far (the newest one's uid), present says  *)
(* whether the newest still exists, completed holds the uids that          *)
(* finished with the Complete condition.                                   *)
Cluster == [present: BOOLEAN, made: Nat, completed: SUBSET Nat,
            phase: {"pending", "running", "complete", "failed"}]

TypeOK ==
  /\ rec \in [Jobs -> Item]
  /\ wk \in [Workers -> Local]
  /\ k8s \in [Jobs -> Cluster]
  /\ faults \in Nat
  /\ deletes \in Nat

-----------------------------------------------------------------------------
(* Helpers *)

NoItem == [status |-> "absent", owner |-> NoWorker, gen |-> 0, ver |-> 0,
           lease |-> "none", uid |-> 0, notCreated |-> FALSE]

AtRest(pc, rejects) ==
  [pc |-> pc, todo |-> {}, attempted |-> 0, job |-> NoJob, gen |-> 0,
   snap |-> 0, lost |-> FALSE, uid |-> 0, proof |-> FALSE,
   seen |-> "absent", obs |-> "absent", rejects |-> rejects]

EntryOf(j) == [job |-> j, status |-> rec[j].status, gen |-> rec[j].gen,
               ver |-> rec[j].ver, uid |-> rec[j].uid]

(* What a query of the work index in one status can return to w. *)
InRegion(w, status) ==
  {j \in Jobs : rec[j].status = status /\ TargetOf[j] = RegionOf[w]}

\* Faulty: only CLAIMED records are recovered.
ExpiredClaimed(w, status) ==
  {j \in InRegion(w, status) : status = "claimed" /\ rec[j].lease = "expired"}

Expired(w, status) == {j \in InRegion(w, status) : rec[j].lease = "expired"}

(* The first n of S in index order. *)
Top(S, n) == {j \in S : Cardinality({i \in S : Rank[i] < Rank[j]}) < n}

(* The pages of n that lease order, which is not modelled, may return.     *)
Pages(S, n) ==
  {T \in SUBSET S : Cardinality(T) = (IF Cardinality(S) < n THEN Cardinality(S) ELSE n)}

(* The share of a limit the first of two statuses gets. *)
Half(n) == IF n > 1 THEN n \div 2 ELSE 1

NoFault == UNCHANGED faults
Fault == faults < MaxFaults /\ faults' = faults + 1

Put(w, local) == wk' = [wk EXCEPT ![w] = local]

Idle(w) == AtRest("idle", wk[w].rejects)
Dropped(w, e) == [wk[w] EXCEPT !.todo = @ \ {e}]

(* The worker gives up its current record and turns to the next candidate. *)
Skipped(w) == [wk[w] EXCEPT !.pc = "next", !.job = NoJob, !.gen = 0,
                 !.snap = 0, !.lost = FALSE, !.uid = 0, !.proof = FALSE]

\* Faulty: every failure carries the proof.
FailingProven(w, proof) ==
  [wk[w] EXCEPT !.pc = "failRead", !.snap = 0, !.lost = FALSE, !.uid = 0,
                !.proof = TRUE]

(* An exception while a claim is held: the handler tries APPLYING ->       *)
(* FAILED, with the no-workload proof only for QueuedJobNotCreatedError.   *)
Failing(w, proof) ==
  [wk[w] EXCEPT !.pc = "failRead", !.snap = 0, !.lost = FALSE, !.uid = 0,
                !.proof = proof]

(* claimed_by, claim_token and claim_generation of the item are w's.       *)
Owns(w, j) == rec[j].owner = w /\ rec[j].gen = wk[w].gen

\* Faulty: the write is conditional on the status alone.
FencedByStatus(w, expected) == rec[wk[w].job].status = expected

(* The conditions of a fenced write: the item is the one that was read,    *)
(* and is still w's.                                                       *)
Fenced(w, expected) ==
  LET j == wk[w].job IN
  rec[j].status = expected /\ rec[j].ver = wk[w].snap /\ Owns(w, j)

\* Faulty: the lease expiry stays behind.
MovedWithLease(item, status) ==
  [item EXCEPT !.status = status, !.ver = @ + 1,
               !.owner = IF status \in Transient THEN @ ELSE NoWorker]

(* A status change: updated_at is rewritten, and unless the new status     *)
(* keeps a claim the claim's attributes are removed.                       *)
Moved(item, status) ==
  IF status \in Transient
    THEN [item EXCEPT !.status = status, !.ver = @ + 1]
    ELSE [item EXCEPT !.status = status, !.ver = @ + 1,
                      !.owner = NoWorker, !.lease = "none"]

(* One conditional write by w.  It takes effect and w learns so; or its    *)
(* condition fails; or it is lost; or it takes effect and the reply is     *)
(* lost, and then w sees either an error or, when the SDK's own retry met  *)
(* the item it had just written, a failed condition.                       *)
Cas(w, j, cond, item, won, refused, broken) ==
  /\ \/ cond /\ NoFault /\ rec' = [rec EXCEPT ![j] = item] /\ Put(w, won)
     \/ ~cond /\ NoFault /\ UNCHANGED rec /\ Put(w, refused)
     \/ Fault /\ UNCHANGED rec /\ Put(w, broken)
     \/ /\ cond /\ Fault /\ rec' = [rec EXCEPT ![j] = item]
        /\ Put(w, refused) \/ Put(w, broken)
  /\ UNCHANGED <<k8s, deletes>>

-----------------------------------------------------------------------------
(* The start of a pass: recover expired claims, then fetch candidates.     *)

(* An error of this query ends the pass before anything is remembered.     *)
QueryExpired(w) ==
  /\ wk[w].pc = "idle" /\ w \notin Pollers
  /\ \E claimed \in Pages(Expired(w, "claimed"), Half(RecordLimit)) :
       \E applying \in Pages(Expired(w, "applying"),
                             RecordLimit - Cardinality(claimed)) :
         Put(w, [wk[w] EXCEPT !.pc = "recover",
                   !.todo = {EntryOf(j) : j \in claimed \union applying}])
  /\ NoFault /\ UNCHANGED <<rec, k8s, deletes>>

\* Faulty: a candidate is requeued without looking again.
RequeueBlindly(w) ==
  /\ wk[w].pc = "recover"
  /\ \E e \in wk[w].todo :
       Cas(w, e.job, TRUE, Moved(rec[e.job], "queued"),
           Dropped(w, e), Dropped(w, e), Idle(w))

(* claim_generation is never reused, so an equal generation is an equal    *)
(* owner and token.                                                        *)
RequeueExpired(w) ==
  /\ wk[w].pc = "recover"
  /\ \E e \in wk[w].todo :
       Cas(w, e.job,
           /\ rec[e.job].status = e.status /\ rec[e.job].gen = e.gen
           /\ rec[e.job].ver = e.ver /\ rec[e.job].lease = "expired",
           Moved(rec[e.job], "queued"),
           Dropped(w, e), Dropped(w, e), Idle(w))

QueryQueued(w) ==
  /\ \/ wk[w].pc = "recover" /\ wk[w].todo = {}
     \/ wk[w].pc = "idle" /\ w \in Pollers
  /\ \/ /\ NoFault
        /\ Put(w, [wk[w] EXCEPT !.pc = "next",
                     !.todo = {EntryOf(j) : j \in Top(InRegion(w, "queued"), FetchLimit)}])
     \/ Fault /\ Put(w, Idle(w))
  /\ UNCHANGED <<rec, k8s, deletes>>
-----------------------------------------------------------------------------
(* The batch: claim, apply and record one candidate after another.         *)

(* e is the candidate w considers next. *)
Candidate(w, e) ==
  /\ wk[w].pc = "next" /\ e \in wk[w].todo
  /\ wk[w].attempted < BatchLimit
  /\ \A f \in wk[w].todo : Rank[e.job] <= Rank[f.job]

\* Faulty: a deferral counts as an attempt.
DeferGatedCounted(w) ==
  /\ \E e \in wk[w].todo :
       /\ Candidate(w, e) /\ e.job \in Capped
       /\ Put(w, [Dropped(w, e) EXCEPT !.attempted = @ + 1])
  /\ NoFault /\ UNCHANGED <<rec, k8s, deletes>>

(* The spot price is above the job's cap, or unknown. *)
DeferGated(w) ==
  /\ \E e \in wk[w].todo :
       Candidate(w, e) /\ e.job \in Capped /\ Put(w, Dropped(w, e))
  /\ NoFault /\ UNCHANGED <<rec, k8s, deletes>>

ClaimRead(w) ==
  /\ \E e \in wk[w].todo :
       /\ Candidate(w, e)
       /\ \/ /\ e.job \in InRegion(w, "queued") /\ NoFault
             /\ Put(w, [Dropped(w, e) EXCEPT !.pc = "claimWrite", !.job = e.job,
                          !.gen = rec[e.job].gen + 1, !.snap = rec[e.job].ver])
          \/ /\ e.job \notin InRegion(w, "queued") /\ NoFault
             /\ Put(w, Dropped(w, e))
          \/ Fault /\ Put(w, [Dropped(w, e) EXCEPT !.attempted = @ + 1])
  /\ UNCHANGED <<rec, k8s, deletes>>

\* Faulty: the stored generation is not advanced.
ClaimedSameGeneration(w, item) ==
  [Moved(item, "claimed") EXCEPT !.owner = w, !.lease = "live"]

Claimed(w, item) ==
  [Moved(item, "claimed") EXCEPT !.owner = w, !.gen = wk[w].gen, !.lease = "live"]

(* A failed condition is not an attempt; an error may be, and is one.      *)
ClaimWrite(w) ==
  LET j == wk[w].job
      counted == [Skipped(w) EXCEPT !.attempted = @ + 1]
  IN  /\ wk[w].pc = "claimWrite"
      /\ Cas(w, j,
             rec[j].status = "queued" /\ rec[j].ver = wk[w].snap,
             Claimed(w, rec[j]),
             [wk[w] EXCEPT !.pc = "startRead", !.snap = 0, !.attempted = @ + 1],
             Skipped(w), counted)

(* transition_job reads the item, then the clock, before it writes.  The   *)
(* handler's own transition swallows an error; the others raise one.       *)
ReadForTransition(w) ==
  LET j == wk[w].job
      pc == wk[w].pc
      expected == IF pc = "startRead" THEN "claimed" ELSE "applying"
      readable == /\ rec[j].status = expected /\ Owns(w, j)
                  /\ rec[j].lease = "live"
                  /\ wk[w].proof => rec[j].uid = 0
      write == CASE pc = "startRead" -> "startWrite"
                 [] pc = "pendRead"  -> "pendWrite"
                 [] OTHER            -> "failWrite"
  IN  /\ pc \in {"startRead", "pendRead", "failRead"}
      /\ \/ readable /\ NoFault /\ Put(w, [wk[w] EXCEPT !.pc = write, !.snap = rec[j].ver])
         \/ ~readable /\ NoFault /\ Put(w, Skipped(w))
         \/ /\ Fault
            /\ Put(w, IF pc = "failRead" THEN Skipped(w) ELSE Failing(w, FALSE))
      /\ UNCHANGED <<rec, k8s, deletes>>

StartWrite(w) ==
  /\ wk[w].pc = "startWrite"
  /\ Cas(w, wk[w].job, Fenced(w, "claimed"), Moved(rec[wk[w].job], "applying"),
         [wk[w] EXCEPT !.pc = "k8sRead", !.snap = 0],
         Skipped(w), Failing(w, FALSE))

(* apply_queued_job returned uid; a lease lost meanwhile fences the result. *)
Applied(w, uid) ==
  IF wk[w].lost THEN Skipped(w) ELSE [wk[w] EXCEPT !.pc = "pendRead", !.uid = uid]

(* An inconclusive answer leaves the record APPLYING; any other fails it.  *)
K8sError(w) == Fault /\ (Put(w, Skipped(w)) \/ Put(w, Failing(w, FALSE)))

K8sRead(w) ==
  LET j == wk[w].job IN
  /\ wk[w].pc = "k8sRead"
  /\ IF j \in wk[w].rejects
       THEN NoFault /\ Put(w, Failing(w, TRUE))
       ELSE \/ k8s[j].present /\ NoFault /\ Put(w, Applied(w, k8s[j].made))
            \/ ~k8s[j].present /\ NoFault /\ Put(w, [wk[w] EXCEPT !.pc = "k8sCreate"])
            \/ K8sError(w)
  /\ UNCHANGED <<rec, k8s, deletes>>

Created(job) == [job EXCEPT !.present = TRUE, !.made = @ + 1, !.phase = "pending"]

\* Faulty: a name that is taken is avoided, as the generic apply path does.
K8sCreateRenamed(w) ==
  LET j == wk[w].job IN
  /\ wk[w].pc = "k8sCreate"
  /\ k8s' = [k8s EXCEPT ![j] = Created(k8s[j])]
  /\ NoFault /\ Put(w, Applied(w, k8s[j].made + 1))
  /\ UNCHANGED <<rec, deletes>>

K8sCreate(w) ==
  LET j == wk[w].job IN
  /\ wk[w].pc = "k8sCreate"
  /\ \/ /\ ~k8s[j].present
        /\ k8s' = [k8s EXCEPT ![j] = Created(k8s[j])]
        /\ \/ NoFault /\ Put(w, Applied(w, k8s[j].made + 1))
           \/ K8sError(w)
     \/ /\ k8s[j].present /\ UNCHANGED k8s
        /\ NoFault /\ Put(w, [wk[w] EXCEPT !.pc = "k8sAdopt"])
     \/ K8sError(w) /\ UNCHANGED k8s
  /\ UNCHANGED <<rec, deletes>>

K8sAdopt(w) ==
  LET j == wk[w].job IN
  /\ wk[w].pc = "k8sAdopt"
  /\ \/ k8s[j].present /\ NoFault /\ Put(w, Applied(w, k8s[j].made))
     \/ ~k8s[j].present /\ NoFault /\ Put(w, Skipped(w))
     \/ K8sError(w)
  /\ UNCHANGED <<rec, k8s, deletes>>

PendWrite(w) ==
  LET j == wk[w].job IN
  /\ wk[w].pc = "pendWrite"
  /\ Cas(w, j, Fenced(w, "applying"),
         [Moved(rec[j], "pending") EXCEPT !.uid = wk[w].uid],
         Skipped(w), Skipped(w), Failing(w, FALSE))

FailWrite(w) ==
  LET j == wk[w].job IN
  /\ wk[w].pc = "failWrite"
  /\ Cas(w, j, Fenced(w, "applying"),
         [Moved(rec[j], "failed") EXCEPT !.notCreated = wk[w].proof],
         Skipped(w), Skipped(w), Skipped(w))

(* The lease heartbeat, while apply_queued_job runs.  A renewal whose      *)
(* clock was read before the lease ran out succeeds after it did.          *)
Heartbeat(w) ==
  LET j == wk[w].job
      renewable == Owns(w, j) /\ rec[j].status \in Transient
      Renew == rec' = [rec EXCEPT ![j].lease = "live"]
      Lose == Put(w, [wk[w] EXCEPT !.lost = TRUE])
  IN  /\ wk[w].pc \in ApplyPcs /\ ~wk[w].lost
      /\ \/ renewable /\ NoFault /\ Renew /\ UNCHANGED wk
         \/ /\ ~renewable \/ rec[j].lease = "expired"
            /\ NoFault /\ UNCHANGED rec /\ Lose
         \/ Fault /\ UNCHANGED rec /\ Lose
         \/ renewable /\ Fault /\ Renew /\ Lose
      /\ UNCHANGED <<k8s, deletes>>
-----------------------------------------------------------------------------
(* Reconciliation of pending and running records with their Jobs.          *)

\* Faulty: running records are not looked at again.
SamplePending(w) == Top(InRegion(w, "pending"), RecordLimit)

Sample(w) ==
  LET running == Top(InRegion(w, "running"), Half(RecordLimit))
  IN  running \union Top(InRegion(w, "pending"), RecordLimit - Cardinality(running))

(* The batch is over; only a worker's own loop goes on to reconcile. *)
EndBatch(w) ==
  /\ wk[w].pc = "next"
  /\ wk[w].todo = {} \/ wk[w].attempted >= BatchLimit
  /\ \/ w \in Pollers /\ NoFault /\ Put(w, Idle(w))
     \/ /\ w \notin Pollers /\ NoFault
        /\ Put(w, [wk[w] EXCEPT !.pc = "reconcile", !.attempted = 0,
                     !.todo = {EntryOf(j) : j \in Sample(w)}])
     \/ w \notin Pollers /\ Fault /\ Put(w, Idle(w))
  /\ UNCHANGED <<rec, k8s, deletes>>

\* Faulty: a Job of another uid under the name is taken for the record's.
ObservedByName(e) ==
  LET job == k8s[e.job] IN
  IF ~job.present THEN "failed"
  ELSE IF job.phase = "complete" THEN "succeeded" ELSE job.phase
\* Faulty: no active pod is taken for a failure.
ObservedByPods(e) ==
  LET job == k8s[e.job] IN
  IF ~job.present \/ job.made # e.uid \/ job.phase = "pending" THEN "failed"
  ELSE IF job.phase = "complete" THEN "succeeded" ELSE job.phase

(* _observed_job_state, or the verdict on a Job that is gone or replaced.  *)
Observed(e) ==
  LET job == k8s[e.job] IN
  IF ~job.present \/ job.made # e.uid THEN "failed"
  ELSE IF job.phase = "complete" THEN "succeeded" ELSE job.phase

(* A pending observation, or no change, moves nothing. *)
ReconcileRead(w) ==
  /\ wk[w].pc = "reconcile"
  /\ \E e \in wk[w].todo :
       \/ /\ Observed(e) \notin {"pending", e.status} /\ NoFault
          /\ Put(w, [Dropped(w, e) EXCEPT !.pc = "recRead", !.job = e.job,
                       !.uid = e.uid, !.seen = e.status, !.obs = Observed(e)])
       \/ /\ Observed(e) \in {"pending", e.status} /\ NoFault
          /\ Put(w, Dropped(w, e))
       \/ Fault /\ Put(w, Dropped(w, e))
  /\ UNCHANGED <<rec, k8s, deletes>>

NextActive(w) ==
  [wk[w] EXCEPT !.pc = "reconcile", !.job = NoJob, !.uid = 0, !.snap = 0,
                !.seen = "absent", !.obs = "absent"]

(* An error here ends the pass. *)
ReadForReconcile(w) ==
  LET j == wk[w].job
      same == rec[j].status = wk[w].seen /\ rec[j].uid = wk[w].uid
  IN  /\ wk[w].pc = "recRead"
      /\ \/ same /\ NoFault /\ Put(w, [wk[w] EXCEPT !.pc = "recWrite", !.snap = rec[j].ver])
         \/ ~same /\ NoFault /\ Put(w, NextActive(w))
         \/ Fault /\ Put(w, Idle(w))
      /\ UNCHANGED <<rec, k8s, deletes>>

ReconcileWrite(w) ==
  LET j == wk[w].job IN
  /\ wk[w].pc = "recWrite"
  /\ Cas(w, j,
         /\ rec[j].status = wk[w].seen /\ rec[j].ver = wk[w].snap
         /\ rec[j].uid = wk[w].uid,
         Moved(rec[j], wk[w].obs),
         NextActive(w), NextActive(w), Idle(w))

EndPass(w) ==
  /\ wk[w].pc = "reconcile" /\ wk[w].todo = {}
  /\ Put(w, Idle(w))
  /\ NoFault /\ UNCHANGED <<rec, k8s, deletes>>
-----------------------------------------------------------------------------
(* Clients, the cluster, time and crashes.  A client's conditional write   *)
(* is one step: what it read before only decides whether it takes effect.  *)

Submit(j) ==
  /\ rec[j].status = "absent"
  /\ rec' = [rec EXCEPT ![j] = Moved(@, "queued")]
  /\ UNCHANGED <<wk, k8s, faults, deletes>>

(* The SQS consumer records a terminal failure for an id nobody tracks.    *)
RecordJobFailure(j) ==
  /\ rec[j].status = "absent"
  /\ rec' = [rec EXCEPT ![j] = Moved(@, "failed")]
  /\ UNCHANGED <<wk, k8s, faults, deletes>>

\* Faulty: a claimed record can be cancelled too.
CancelClaimed(j) ==
  /\ rec[j].status \in {"queued", "claimed"}
  /\ rec' = [rec EXCEPT ![j] = Moved(@, "cancelled")]
  /\ UNCHANGED <<wk, k8s, faults, deletes>>

Cancel(j) ==
  /\ rec[j].status = "queued"
  /\ rec' = [rec EXCEPT ![j] = Moved(@, "cancelled")]
  /\ UNCHANGED <<wk, k8s, faults, deletes>>

(* w still means to use its claim on j. *)
Holds(w, j) == wk[w].pc \in ClaimPcs /\ wk[w].job = j /\ Owns(w, j) /\ ~wk[w].lost

(* Nobody renews an abandoned claim.  A held one runs out only when its    *)
(* holder stalls for a whole lease, which is a fault.                      *)
LeaseRunsOut(j) ==
  /\ rec[j].lease = "live"
  /\ IF \E w \in Workers : Holds(w, j) THEN Fault ELSE NoFault
  /\ rec' = [rec EXCEPT ![j].lease = "expired"]
  /\ UNCHANGED <<wk, k8s, deletes>>

(* Pods start, or are lost and wait to be rescheduled. *)
K8sPods(j) ==
  /\ k8s[j].present /\ k8s[j].phase \in {"pending", "running"}
  /\ k8s' = [k8s EXCEPT ![j].phase = IF @ = "pending" THEN "running" ELSE "pending"]
  /\ UNCHANGED <<rec, wk, faults, deletes>>

K8sFinish(j) ==
  /\ k8s[j].present /\ k8s[j].phase \in {"pending", "running"}
  /\ \/ k8s' = [k8s EXCEPT ![j].phase = "complete", ![j].completed = @ \union {k8s[j].made}]
     \/ k8s' = [k8s EXCEPT ![j].phase = "failed"]
  /\ UNCHANGED <<rec, wk, faults, deletes>>

(* The TTL controller or a person removes the Job. *)
K8sDelete(j) ==
  /\ k8s[j].present /\ deletes < MaxDeletes
  /\ deletes' = deletes + 1
  /\ k8s' = [k8s EXCEPT ![j].present = FALSE, ![j].phase = "pending"]
  /\ UNCHANGED <<rec, wk, faults>>

(* A graceful stop ends a pass at a record boundary: one of these places.  *)
Crash(w) ==
  /\ wk[w].pc # "down"
  /\ Fault /\ Put(w, AtRest("down", wk[w].rejects))
  /\ UNCHANGED <<rec, k8s, deletes>>

(* The new process has a new identity and reads the policy in force.       *)
Restart(w) ==
  /\ wk[w].pc = "down"
  /\ \E rejects \in Rejections : Put(w, AtRest("idle", rejects))
  /\ NoFault /\ UNCHANGED <<rec, k8s, deletes>>
-----------------------------------------------------------------------------
NoCluster == [present |-> FALSE, made |-> 0, completed |-> {}, phase |-> "pending"]

Init ==
  /\ rec = [j \in Jobs |-> NoItem]
  /\ wk = [w \in Workers |-> AtRest("down", {})]
  /\ k8s = [j \in Jobs |-> NoCluster]
  /\ faults = 0 /\ deletes = 0

Step(w) ==
  \/ QueryExpired(w) \/ RequeueExpired(w) \/ QueryQueued(w)
  \/ DeferGated(w) \/ ClaimRead(w) \/ ClaimWrite(w)
  \/ ReadForTransition(w) \/ StartWrite(w)
  \/ K8sRead(w) \/ K8sCreate(w) \/ K8sAdopt(w)
  \/ PendWrite(w) \/ FailWrite(w)
  \/ EndBatch(w) \/ ReconcileRead(w) \/ ReadForReconcile(w)
  \/ ReconcileWrite(w) \/ EndPass(w)

Next ==
  \/ \E w \in Workers : Step(w) \/ Heartbeat(w) \/ Crash(w) \/ Restart(w)
  \/ \E j \in Jobs : \/ Submit(j) \/ RecordJobFailure(j) \/ Cancel(j)
                     \/ LeaseRunsOut(j)
                     \/ K8sPods(j) \/ K8sFinish(j) \/ K8sDelete(j)

Spec == Init /\ [][Next]_vars

(* The loop polls for ever, a Deployment restarts its pods, an abandoned   *)
(* lease runs out, and the cluster ends every Job it was given.            *)
Fairness ==
  /\ \A w \in Workers \ Pollers : WF_vars(Step(w)) /\ WF_vars(Restart(w))
  /\ \A w \in Pollers : WF_vars(wk[w].pc # "idle" /\ Step(w))
  /\ \A j \in Jobs : WF_vars(LeaseRunsOut(j) /\ NoFault) /\ WF_vars(K8sFinish(j))

FairSpec == Spec /\ Fairness
-----------------------------------------------------------------------------
(* Claims *)

(* A record carries a complete claim exactly while a claim is what its     *)
(* status says it has: recovery refuses an incomplete one, for ever.       *)
ClaimComplete ==
  \A j \in Jobs :
    /\ (rec[j].status \in Transient) <=> (rec[j].owner # NoWorker)
    /\ (rec[j].status \in Transient) <=> (rec[j].lease # "none")

(* Whatever a process still believes, it never holds a later generation    *)
(* than the table, no two processes hold one generation of one job, and    *)
(* the generation a process is about to write was never given to another.  *)
ClaimFence ==
  /\ \A w \in Workers : wk[w].pc \in ClaimPcs =>
       LET j == wk[w].job IN
       /\ 0 < wk[w].gen /\ wk[w].gen <= rec[j].gen
       /\ wk[w].gen = rec[j].gen => rec[j].owner \in {w, NoWorker}
  /\ \A w \in Workers : wk[w].pc = "claimWrite" =>
       LET j == wk[w].job IN
       /\ 0 < wk[w].gen /\ wk[w].snap <= rec[j].ver
       /\ rec[j].ver = wk[w].snap => wk[w].gen = rec[j].gen + 1
  /\ \A v, w \in Workers :
       v # w /\ wk[v].pc \in ClaimPcs /\ wk[w].pc \in ClaimPcs /\ wk[v].job = wk[w].job
         => wk[v].gen # wk[w].gen

(* The owner of a claim takes this step, or the claim has run out. *)
OwnerMoves(j) ==
  rec[j].status \in Transient /\ rec'[j].status # rec[j].status =>
    \/ rec'[j].status = "queued" /\ rec[j].lease = "expired"
    \/ \E w \in Workers : /\ Owns(w, j) /\ wk[w].job = j
                           /\ wk[w].pc \in ClaimPcs /\ wk'[w] # wk[w]

(* Only the process that holds the current claim of a record moves it out  *)
(* of CLAIMED or APPLYING; the one other way out is recovery, to QUEUED,   *)
(* of a lease that has run out.                                            *)
OnlyOwnerMoves ==
  [][\A j \in Jobs : OwnerMoves(j)]_vars

LegalMove(old, new) ==
  /\ new.status # old.status =>
       \/ new.status \in Allowed[old.status]
       \/ old.status \in Transient /\ new.status = "queued"
       \/ old.status = "absent" /\ new.status \in {"queued", "failed"}
  /\ old.status \in Terminal => new = old
  /\ new.gen # old.gen => new.gen = old.gen + 1 /\ new.status = "claimed"
  /\ new.status # old.status <=> new.ver # old.ver

(* A record follows the transition matrix, recovery excepted; a terminal   *)
(* record never changes again, whatever late writes arrive; and a          *)
(* generation names one claim.                                             *)
LegalMoves == [][\A j \in Jobs : LegalMove(rec[j], rec'[j])]_vars
-----------------------------------------------------------------------------
(* Workloads *)

(* However often a job is claimed, retried, recovered and raced over, its  *)
(* workload is created once; a second needs the first to have been removed. *)
SingleWorkload == \A j \in Jobs : k8s[j].made <= 1 + deletes

(* SUCCEEDED is said only of the workload that completed. *)
SucceededIsReal ==
  \A j \in Jobs : rec[j].status = "succeeded" => rec[j].uid \in k8s[j].completed

(* While nobody removes Kubernetes Jobs, FAILED with an identity is said   *)
(* only of a workload that failed.                                         *)
FailedIsReal ==
  deletes = 0 => \A j \in Jobs :
    rec[j].status = "failed" /\ rec[j].uid # 0 => k8s[j].phase = "failed"

(* The no-workload proof means that no workload was ever created.          *)
NotCreatedProof == \A j \in Jobs : rec[j].notCreated => k8s[j].made = 0
-----------------------------------------------------------------------------
(* Liveness, for jobs whose price gate is not closed for ever.             *)

(* Every queued job ends, through crashes, lost replies, stalls and races. *)
EveryJobEnds ==
  \A j \in Jobs \ Capped : rec[j].status = "queued" ~> rec[j].status \in Terminal

(* The completion of a tracked workload is recorded as success.            *)
CompletionRecorded ==
  \A j \in Jobs :
    rec[j].status \in Active /\ rec[j].uid \in k8s[j].completed
      ~> rec[j].status = "succeeded"
=============================================================================

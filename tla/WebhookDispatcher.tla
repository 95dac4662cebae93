-------------------------- MODULE WebhookDispatcher --------------------------
(***************************************************************************)
(* The webhook dispatcher of the health monitor's replicas: one elected    *)
(* deliverer watches Kubernetes Jobs, compares each status with the one it *)
(* remembers, and announces the transitions.                               *)
(*                                                                         *)
(* A delivery is one call of _dispatch_event; its HTTP attempts are not    *)
(* modelled.  A turn is a change of a Job's status that is worth an        *)
(* announcement.  Definitions introduced by "Faulty:" are plausible        *)
(* mistakes, as in CentralQueue.                                           *)
(***************************************************************************)
EXTENDS LeaderLease, Sequences

CONSTANTS
  Jobs,        \* Kubernetes Jobs, by uid
  Several,     \* Jobs of more than one completion
  BatchSize,   \* events after which a watch returns
  MaxTurns     \* bound: announceable changes of one Job, of each kind

ASSUME WatchAssumption ==
  BatchSize \in Nat \ {0} /\ MaxTurns \in Nat /\ Several \subseteq Jobs

VARIABLES
  job,      \* each Job: its status and its turns so far
  rep,      \* each replica's dispatcher
  posted,   \* deliveries so far, of each kind, by anyone
  blind     \* whether a replica became leader and could not list the Jobs

hookVars == <<job, rep, posted, blind>>
vars == <<leaseVars, hookVars>>

(* What _compute_job_status says: for want of a condition "failed" also of *)
(* a Job that is about to retry, and "succeeded" of one between two of its *)
(* completions.                                                            *)
Computed == {"pending", "running", "failed", "succeeded"}
Kinds == {"started", "completed", "failed"}
NoTurns == [k \in Kinds |-> 0]
Exists(j) == job[j].status \in Computed

Pcs == {"down", "elect", "watch", "watching", "process"}
Events == [job: Jobs, status: Computed \union {"deleted"}]

TypeOK ==
  /\ LeaseTypeOK
  /\ job \in [Jobs -> [status: Computed \union {"absent", "deleted"}, turns: [Kinds -> 0..MaxTurns]]]
  /\ rep \in [Replicas ->
       [pc: Pcs, leader: BOOLEAN, cache: [Jobs -> Computed \union {"unknown"}],
        events: Seq(Events), sent: [Jobs -> [Kinds -> Nat]]]]
  /\ posted \in [Jobs -> [Kinds -> Nat]]
  /\ blind \in BOOLEAN

Fresh(pc) == [pc |-> pc, leader |-> FALSE, cache |-> [j \in Jobs |-> "unknown"],
              events |-> <<>>, sent |-> [j \in Jobs |-> NoTurns]]
At(p, pc) == rep' = [rep EXCEPT ![p].pc = pc]
-----------------------------------------------------------------------------
(* Election: _acquire_leadership *)

CallLease(p) ==
  /\ rep[p].pc = "elect"
  /\ ReadLease(p) \/ ReplaceLease(p)
  /\ UNCHANGED <<job, rep, posted, blind>>

Listed(cache) == [j \in Jobs |-> IF Exists(j) THEN job[j].status ELSE cache[j]]

\* Faulty: the flag is set and the cache left alone.
LeadUnseeded(p) ==
  /\ rep' = [rep EXCEPT ![p].pc = "watch", ![p].leader = TRUE]
  /\ NoFault /\ UNCHANGED blind

(* Leadership new to p seeds its cache; a listing that fails is only       *)
(* logged.                                                                 *)
Lead(p) ==
  \/ /\ rep[p].leader /\ NoFault
     /\ At(p, "watch") /\ UNCHANGED blind
  \/ /\ ~rep[p].leader /\ NoFault
     /\ rep' = [rep EXCEPT ![p].pc = "watch", ![p].leader = TRUE,
                           ![p].cache = Listed(@)]
     /\ UNCHANGED blind
  \/ /\ ~rep[p].leader /\ Fault
     /\ rep' = [rep EXCEPT ![p].pc = "watch", ![p].leader = TRUE]
     /\ blind' = TRUE

AcquireLeadership(p) ==
  /\ rep[p].pc = "elect" /\ Answered(p)
  /\ \/ call[p] = "yes" /\ Lead(p)
     \/ /\ call[p] = "no" /\ NoFault
        /\ rep' = [rep EXCEPT ![p].leader = FALSE]
        /\ UNCHANGED blind
  /\ UNCHANGED <<job, posted>>
-----------------------------------------------------------------------------
(* Watching: _sync_watch_jobs *)

(* A new watch starts with what exists, in the server's order, and returns *)
(* once it has a batch.                                                    *)
Listings ==
  LET present == {j \in Jobs : Exists(j)} IN
  {s \in UNION {[1..n -> present] : n \in 0..BatchSize} :
     /\ \A i1, i2 \in DOMAIN s : s[i1] = s[i2] => i1 = i2
     /\ Len(s) = BatchSize \/ \A j \in present : \E i \in DOMAIN s : s[i] = j}

OpenWatch(p) ==
  /\ rep[p].pc = "watch"
  /\ \E s \in Listings :
       rep' = [rep EXCEPT ![p].pc = "watching",
                 ![p].events = [i \in 1..Len(s) |-> [job |-> s[i], status |-> job[s[i]].status]]]
  /\ UNCHANGED <<leaseVars, job, posted, blind>>

(* Time is up, or the batch is full; an error loses the events. *)
CloseWatch(p) ==
  /\ rep[p].pc = "watching"
  /\ \/ NoFault /\ At(p, IF rep[p].events = <<>> THEN "elect" ELSE "process")
     \/ Fault /\ rep' = [rep EXCEPT ![p].pc = "elect", ![p].events = <<>>]
  /\ UNCHANGED <<lease, call, term, overruns, job, posted, blind>>

(* Every open watch with room for it sees the change of j to status. *)
Notify(j, status) ==
  rep' = [p \in Replicas |->
    IF rep[p].pc = "watching" /\ Len(rep[p].events) < BatchSize
      THEN [rep[p] EXCEPT !.events = Append(@, [job |-> j, status |-> status])]
      ELSE rep[p]]
-----------------------------------------------------------------------------
(* Processing: _process_job_event *)

\* Faulty: a running Job is announced whatever it was before.
DetermineStarted(previous, current) ==
  CASE current = "running" -> {"started"}
    [] previous \in {"pending", "running"} /\ current = "succeeded" -> {"completed"}
    [] previous \in {"pending", "running"} /\ current = "failed" -> {"failed"}
    [] OTHER -> {}

\* Faulty: only a running Job can end.
DetermineFromRunning(previous, current) ==
  CASE previous \in {"unknown", "pending"} /\ current = "running" -> {"started"}
    [] previous = "running" /\ current = "succeeded" -> {"completed"}
    [] previous = "running" /\ current = "failed" -> {"failed"}
    [] OTHER -> {}

(* _determine_event: the kind to announce, if any. *)
DetermineEvent(previous, current) ==
  CASE previous \in {"unknown", "pending"} /\ current = "running" -> {"started"}
    [] previous \in {"pending", "running"} /\ current = "succeeded" -> {"completed"}
    [] previous \in {"pending", "running"} /\ current = "failed" -> {"failed"}
    [] OTHER -> {}

(* The cache moves before the delivery, which may fail.  The last event of *)
(* a batch ends the cycle.                                                 *)
ProcessEvent(p) ==
  /\ rep[p].pc = "process"
  /\ LET e == Head(rep[p].events)
         kinds == IF e.status = "deleted" THEN {}
                  ELSE DetermineEvent(rep[p].cache[e.job], e.status)
         seen == IF e.status = "deleted" THEN "unknown" ELSE e.status
         Count(counts) == [k \in Kinds |-> IF k \in kinds THEN counts[k] + 1 ELSE counts[k]]
         next == [rep[p] EXCEPT !.events = Tail(@), !.cache[e.job] = seen,
                    !.pc = IF Tail(rep[p].events) = <<>> THEN "elect" ELSE "process"]
     IN  \/ /\ NoFault
            /\ rep' = [rep EXCEPT ![p] = [next EXCEPT !.sent[e.job] = Count(@)]]
            /\ posted' = [posted EXCEPT ![e.job] = Count(@)]
         \/ /\ kinds # {} /\ Fault
            /\ rep' = [rep EXCEPT ![p] = next] /\ UNCHANGED posted
  /\ UNCHANGED <<lease, call, term, overruns, job, blind>>
-----------------------------------------------------------------------------
(* The cluster, time, and the replicas' lives *)

KindOf(status) ==
  CASE status = "running" -> {"started"} [] status = "succeeded" -> {"completed"}
    [] status = "failed" -> {"failed"} [] OTHER -> {}

(* Pods start, are lost, fail and are retried.  A Job that failed for good *)
(* looks like one that has yet to retry, one that is complete like one     *)
(* with completions to come, and does not change again.                    *)
Follows(j) ==
  CASE job[j].status = "absent" -> {"pending"}
    [] job[j].status = "pending" -> {"running", "failed", "succeeded"}
    [] job[j].status = "running" -> {"pending", "failed", "succeeded"}
    [] job[j].status = "failed" -> {"running", "succeeded"}
    [] job[j].status = "succeeded" /\ j \in Several -> {"running", "failed"}
    [] OTHER -> {}

JobChanges(j, status) ==
  /\ status \in Follows(j)
  /\ LET turns == [k \in Kinds |-> job[j].turns[k] + (IF k \in KindOf(status) THEN 1 ELSE 0)] IN
     /\ \A k \in Kinds : turns[k] <= MaxTurns
     /\ job' = [job EXCEPT ![j] = [status |-> status, turns |-> turns]]
  /\ Notify(j, status)
  /\ UNCHANGED <<leaseVars, posted, blind>>

JobDeleted(j) ==
  /\ Exists(j)
  /\ job' = [job EXCEPT ![j].status = "deleted"]
  /\ Notify(j, "deleted")
  /\ UNCHANGED <<leaseVars, posted, blind>>

TimePasses == LeaseRunsOut /\ UNCHANGED hookVars

Crash(p) ==
  /\ rep[p].pc # "down" /\ LeaveElection(p)
  /\ rep' = [rep EXCEPT ![p] = Fresh("down")]
  /\ UNCHANGED <<job, posted, blind>>

Restart(p) ==
  /\ rep[p].pc = "down" /\ At(p, "elect")
  /\ UNCHANGED <<leaseVars, job, posted, blind>>
-----------------------------------------------------------------------------
Init ==
  /\ LeaseInit
  /\ job = [j \in Jobs |-> [status |-> "absent", turns |-> NoTurns]]
  /\ rep = [p \in Replicas |-> Fresh("down")]
  /\ posted = [j \in Jobs |-> NoTurns]
  /\ blind = FALSE

Step(p) ==
  \/ CallLease(p) \/ AcquireLeadership(p) \/ OpenWatch(p) \/ CloseWatch(p)
  \/ ProcessEvent(p) \/ Restart(p)

Next ==
  \/ TimePasses
  \/ \E p \in Replicas : Step(p) \/ Crash(p)
  \/ \E j \in Jobs : JobDeleted(j) \/ \E status \in Computed : JobChanges(j, status)

Spec == Init /\ [][Next]_vars

(* The loops run on, pods are restarted, and a lease nobody relies on runs *)
(* out.                                                                    *)
Fairness ==
  /\ \A p \in Replicas : WF_vars(Step(p))
  /\ WF_vars(TimePasses /\ UNCHANGED overruns)

FairSpec == Spec /\ Fairness
-----------------------------------------------------------------------------
(* Deliveries *)

(* Every transition is delivered at most once, over any number of crashes, *)
(* failovers and lost calls, as long as no leader outlives its lease and   *)
(* every new leader could list the Jobs.                                   *)
AtMostOnce ==
  overruns = 0 /\ ~blind =>
    \A j \in Jobs, k \in Kinds : posted[j][k] <= job[j].turns[k]

(* Whatever becomes of the lease, one process never announces one          *)
(* transition twice: a repetition takes two.                               *)
NeverRepeats ==
  \A p \in Replicas, j \in Jobs, k \in Kinds : rep[p].sent[j][k] <= job[j].turns[k]

(* A leader that cannot lose its lease any more remembers j unfinished.    *)
Unheard(j) ==
  /\ job[j].status = "succeeded" /\ job[j].turns["failed"] = 0
  /\ faults = MaxFaults /\ overruns = MaxOverruns
  /\ \E p \in Replicas : /\ term[p] = "live" /\ rep[p].leader
                         /\ rep[p].cache[j] \in {"pending", "running"}

(* Once faults and overruns are over, a completion the leader has yet to   *)
(* hear of is announced, unless the Job is deleted first.  A Job that ever *)
(* looked failed is excepted: from "failed" no event is fired; so is one   *)
(* that may look complete in between.                                      *)
CompletionAnnounced ==
  \A j \in Jobs \ Several :
    Unheard(j) ~> posted[j]["completed"] > 0 \/ job[j].status = "deleted"

(* docs/API.md:1861 "Each transition is therefore delivered at most once; *)
(* during a failover (bounded by the 90-second lease duration) transitions *)
(* may be dropped, never duplicated": where nothing fails or overruns any  *)
(* more, the leader announces a completion that is news to it, also of a   *)
(* Job that it saw between two attempts.                                   *)
OnlyFailoversDrop ==
  \A j \in Jobs \ Several :
    /\ job[j].status = "succeeded"
    /\ faults = MaxFaults /\ overruns = MaxOverruns
    /\ \E p \in Replicas : /\ term[p] = "live" /\ rep[p].leader
                           /\ rep[p].cache[j] \in {"pending", "running", "failed"}
    ~> posted[j]["completed"] > 0 \/ job[j].status = "deleted"

(* webhook_dispatcher.py:17 "a webhook must fire once per job transition", *)
(* :22 "Delivery is therefore at-most-once across a failover": also when a *)
(* lease was overrun or a new leader could not list the Jobs.              *)
OncePerTransition ==
  \A j \in Jobs, k \in Kinds : posted[j][k] <= job[j].turns[k]

(* webhook_dispatcher.py:20 "a replica that becomes leader re-seeds its    *)
(* job-state cache first so transitions the previous leader already        *)
(* delivered are not fired again": whoever takes the Lease from another    *)
(* does not remember itself as the leader, and so seeds.                   *)
TakeoversReseed ==
  [][\A p \in Replicas :
       lease.holder # p /\ lease'.holder = p /\ term'[p] = "live" => ~rep[p].leader]_vars
=============================================================================

---------------------------- MODULE JobLifecycle ----------------------------
(***************************************************************************)
(* What the global job queue promises about one job, with no workers, no   *)
(* claims and no failures in sight.  A job waits, is dispatched, may be    *)
(* put back, and ends.  Its workload never starts before the job was first *)
(* dispatched, and starts again only after it was removed; the queue calls *)
(* a job active only if its workload started, succeeded only if it         *)
(* completed, and failed while active only if it broke or was removed.     *)
(*                                                                         *)
(* What it does not promise is here too: a job put back may be cancelled,  *)
(* or a dispatched one fail, while its workload exists or is yet to start. *)
(***************************************************************************)
CONSTANT Jobs

VARIABLES
  life,  \* the record, as a client may read it
  work,  \* the workload in the cluster
  past   \* what has happened to the workloads of the job

Ended == {"succeeded", "failed", "cancelled"}
Life == {"absent", "new", "dispatched", "returned", "active"} \union Ended
Work == {"none", "started", "complete", "broken"}
Facts == {"started", "completed", "removed"}

TypeOK ==
  /\ life \in [Jobs -> Life]
  /\ work \in [Jobs -> Work]
  /\ past \in [Jobs -> SUBSET Facts]

Init ==
  /\ life = [j \in Jobs |-> "absent"]
  /\ work = [j \in Jobs |-> "none"]
  /\ past = [j \in Jobs |-> {}]

(* The record of j moves from one of these states to that one. *)
Move(j, from, to) ==
  life[j] \in from /\ life' = [life EXCEPT ![j] = to] /\ UNCHANGED <<work, past>>

Submit(j) == Move(j, {"absent"}, "new")
RecordFailure(j) == Move(j, {"absent"}, "failed")
Dispatch(j) == Move(j, {"new", "returned"}, "dispatched")
PutBack(j) == Move(j, {"dispatched"}, "returned")
Cancel(j) == Move(j, {"new", "returned"}, "cancelled")
Refuse(j) == Move(j, {"dispatched"}, "failed")
Activate(j) == "started" \in past[j] /\ Move(j, {"dispatched"}, "active")
Succeed(j) == "completed" \in past[j] /\ Move(j, {"active"}, "succeeded")
Break(j) ==
  (work[j] = "broken" \/ "removed" \in past[j]) /\ Move(j, {"active"}, "failed")

(* The workload moves, and fact is remembered of it. *)
Turn(j, from, to, fact) ==
  /\ work[j] \in from /\ work' = [work EXCEPT ![j] = to]
  /\ past' = [past EXCEPT ![j] = @ \union fact] /\ UNCHANGED life

(* After the first dispatch; perhaps long after, by a late worker. *)
Start(j) == life[j] \notin {"absent", "new"} /\ Turn(j, {"none"}, "started", {"started"})
Finish(j) ==
  \/ Turn(j, {"started"}, "complete", {"completed"})
  \/ Turn(j, {"started"}, "broken", {})
Remove(j) == Turn(j, Work \ {"none"}, "none", {"removed"})

Next ==
  \E j \in Jobs :
    \/ Submit(j) \/ RecordFailure(j) \/ Dispatch(j) \/ PutBack(j) \/ Cancel(j)
    \/ Refuse(j) \/ Activate(j) \/ Succeed(j) \/ Break(j)
    \/ Start(j) \/ Finish(j) \/ Remove(j)

Spec == Init /\ [][Next]_<<life, work, past>>
=============================================================================

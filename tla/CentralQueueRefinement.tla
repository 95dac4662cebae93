----------------------- MODULE CentralQueueRefinement -----------------------
(***************************************************************************)
(* The central queue implements JobLifecycle.                              *)
(***************************************************************************)
EXTENDS CentralQueue

LifeOf(j) ==
  LET s == rec[j].status IN
  CASE s = "queued"     -> IF rec[j].gen = 0 THEN "new" ELSE "returned"
    [] s \in Transient  -> "dispatched"
    [] s \in Active     -> "active"
    [] OTHER            -> s

WorkOf(j) ==
  CASE ~k8s[j].present          -> "none"
    [] k8s[j].phase = "complete" -> "complete"
    [] k8s[j].phase = "failed"   -> "broken"
    [] OTHER                     -> "started"

PastOf(j) ==
  {fact \in {"started", "completed", "removed"} :
     CASE fact = "started"   -> k8s[j].made > 0
       [] fact = "completed" -> k8s[j].completed # {}
       [] fact = "removed"   -> k8s[j].made > 1 \/ (k8s[j].made = 1 /\ ~k8s[j].present)}

Lifecycle == INSTANCE JobLifecycle
  WITH life <- [j \in Jobs |-> LifeOf(j)],
       work <- [j \in Jobs |-> WorkOf(j)],
       past <- [j \in Jobs |-> PastOf(j)]

(* Every behaviour of the queue, its races and faults included, is one of  *)
(* the abstract life cycle.                                                *)
ImplementsLifecycle == Lifecycle!Spec
=============================================================================

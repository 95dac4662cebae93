---------------------------- MODULE SqsProcessor ----------------------------
(***************************************************************************)
(* The regional SQS path: short-lived processors receive one message each, *)
(* validate all its manifests, apply them in order to the cluster, and     *)
(* delete the message only when every one was applied.  Other messages     *)
(* return to the queue and, after Final receives, dead-letter.             *)
(*                                                                         *)
(* A processor that could not load its Kubernetes configuration drains one *)
(* message into a FAILED record instead.  The redrive policy's             *)
(* maxReceiveCount and FINAL_RECEIVE_COUNT are one constant, as deployed.  *)
(* Definitions introduced by "Faulty:" are plausible mistakes.             *)
(***************************************************************************)
EXTENDS Naturals, Sequences, FiniteSets

CONSTANTS
  Messages,
  Processors,   \* pods of the ScaledJob that may run at once
  Resources,    \* kind, namespace and name of a manifest
  JobKinds,     \* the resources of kind Job
  Manifests,    \* the manifests of each message, in order
  Invalid,      \* messages with a manifest validate_manifest refuses
  Unreadable,   \* messages whose body is not a JSON object
  Nameless,     \* messages whose body has no job_id that is a string
  Final,        \* FINAL_RECEIVE_COUNT
  Overlap,      \* whether a message may return while its processor runs
  NoMessage

ASSUME SqsAssumption ==
  /\ Final \in Nat \ {0}
  /\ Manifests \in [Messages -> Seq(Resources)]
  /\ NoMessage \notin Messages
  /\ Invalid \subseteq Messages
  /\ Overlap \in BOOLEAN

VARIABLES
  msg,       \* the queue: where each message is, and its receive count
  hand,      \* each processor: its message and how far it is
  obj,       \* the cluster: each resource
  rec,       \* the jobs table: the record of each message's job
  applied,   \* history: the manifests created or patched for each message
  cut        \* history: whether the answer to a message's last receive was cut off

vars == <<msg, hand, obj, rec, applied, cut>>

Places == {"unsent", "visible", "hidden", "acked", "drained", "dead"}
Applying == {"look", "delete", "create", "patch"}
Pcs == Applying \union {"down", "record", "ack", "drain", "drainack"}

Idle == [pc |-> "down", msg |-> NoMessage, count |-> 0, i |-> 0, failed |-> FALSE]
Hands == [pc: Pcs, msg: Messages \union {NoMessage}, count: 0..Final, i: Nat, failed: BOOLEAN]

TypeOK ==
  /\ msg \in [Messages -> [at: Places, count: 0..Final]]
  /\ hand \in [Processors -> Hands]
  /\ \A p \in Processors : hand[p].pc # "down" => hand[p].msg \in Messages
  /\ \A p \in Processors :
       hand[p].pc \in Applying => hand[p].i \in 1..Len(Manifests[hand[p].msg])
  /\ obj \in [Resources -> {"absent", "running", "finished"}]
  /\ rec \in [Messages -> {"none", "failed"}]
  /\ applied \in [Messages -> SUBSET Nat]
  /\ cut \in [Messages -> BOOLEAN]

Init ==
  /\ msg = [m \in Messages |-> [at |-> "unsent", count |-> 0]]
  /\ hand = [p \in Processors |-> Idle]
  /\ obj \in [Resources -> {"absent", "running"}]
  /\ rec = [m \in Messages |-> "none"]
  /\ applied = [m \in Messages |-> {}]
  /\ cut = [m \in Messages |-> FALSE]

Current(p) == Manifests[hand[p].msg][hand[p].i]
Becomes(p, h) == hand' = [hand EXCEPT ![p] = h]
Move(p, pc) == Becomes(p, [hand[p] EXCEPT !.pc = pc])
-----------------------------------------------------------------------------
(* process_one_message: receive and validate *)

Received(m) ==
  /\ msg[m].at = "visible" /\ msg[m].count < Final
  /\ msg' = [msg EXCEPT ![m].at = "hidden", ![m].count = @ + 1]

(* Only the receive that exhausts the redrive policy is recorded.          *)
\* Faulty: the comparison is off by one.
FailedLate(m, c) ==
  IF c > Final THEN [Idle EXCEPT !.pc = "record", !.msg = m, !.count = c] ELSE Idle

Failed(m, c) ==
  IF c >= Final THEN [Idle EXCEPT !.pc = "record", !.msg = m, !.count = c] ELSE Idle

AtManifest(m, c, i, failed) ==
  [pc |-> IF Manifests[m][i] \in JobKinds THEN "look" ELSE "create",
   msg |-> m, count |-> c, i |-> i, failed |-> failed]

\* Faulty: nothing is validated before the first manifest is applied.
ValidatedLater(m, c) ==
  IF m \in Unreadable \/ Manifests[m] = <<>> THEN Idle ELSE AtManifest(m, c, 1, FALSE)

(* A body without manifests is retained with nothing recorded.  The whole  *)
(* batch is validated before anything is applied.                          *)
Validated(m, c) ==
  IF m \in Unreadable \/ Manifests[m] = <<>> THEN Idle
  ELSE IF m \in Invalid THEN Failed(m, c)
  ELSE AtManifest(m, c, 1, FALSE)

ProcessMessage(p, m) ==
  /\ hand[p].pc = "down" /\ Received(m)
  /\ Becomes(p, Validated(m, msg[m].count + 1))
  /\ UNCHANGED <<obj, rec, applied, cut>>
-----------------------------------------------------------------------------
(* apply_manifest *)

\* Faulty: only the last manifest decides.
ProceedOnLast(p, ok) ==
  LET h == hand[p] IN
  Becomes(p, IF h.i < Len(Manifests[h.msg]) THEN AtManifest(h.msg, h.count, h.i + 1, ~ok)
             ELSE IF ok THEN [h EXCEPT !.pc = "ack"]
             ELSE Failed(h.msg, h.count))

(* One failure does not stop the batch; any failure keeps the message.     *)
Proceed(p, ok) ==
  LET h == hand[p]
      failed == h.failed \/ ~ok
  IN Becomes(p, IF h.i < Len(Manifests[h.msg])
                  THEN AtManifest(h.msg, h.count, h.i + 1, failed)
                ELSE IF ~failed THEN [h EXCEPT !.pc = "ack"]
                ELSE Failed(h.msg, h.count))

(* An API error in the look-up is only logged; any other is a failure.     *)
LookUp(p) ==
  /\ hand[p].pc = "look"
  /\ \/ obj[Current(p)] = "finished" /\ Move(p, "delete")
     \/ obj[Current(p)] # "finished" /\ Move(p, "create")
     \/ Move(p, "create")
     \/ Proceed(p, FALSE)
  /\ UNCHANGED <<msg, obj, rec, applied, cut>>

(* By name: whatever has the name now.  The call or its reply may be lost. *)
DeleteFinished(p) ==
  /\ hand[p].pc = "delete"
  /\ obj' = [obj EXCEPT ![Current(p)] = "absent"] \/ UNCHANGED obj
  /\ Move(p, "create") \/ Proceed(p, FALSE)
  /\ UNCHANGED <<msg, rec, applied, cut>>

Effected(p) == applied' = [applied EXCEPT ![hand[p].msg] = @ \union {hand[p].i}]

Create(p) ==
  /\ hand[p].pc = "create"
  /\ \/ /\ obj[Current(p)] = "absent"
        /\ obj' = [obj EXCEPT ![Current(p)] = "running"] /\ Effected(p)
        /\ \E ok \in BOOLEAN : Proceed(p, ok)
     \/ /\ obj[Current(p)] # "absent" /\ Move(p, "patch")
        /\ UNCHANGED <<obj, applied>>
     \/ Proceed(p, FALSE) /\ UNCHANGED <<obj, applied>>
  /\ UNCHANGED <<msg, rec, cut>>

Patch(p) ==
  /\ hand[p].pc = "patch"
  /\ \/ /\ obj[Current(p)] # "absent" /\ Effected(p)
        /\ \E ok \in BOOLEAN : Proceed(p, ok)
     \/ Proceed(p, FALSE) /\ UNCHANGED applied
  /\ UNCHANGED <<msg, obj, rec, cut>>
-----------------------------------------------------------------------------
(* The end of a message *)

(* delete_message.  The receipt of an earlier receive may delete nothing.  *)
DeleteMessage(p, at) ==
  LET m == hand[p].msg IN
  /\ \/ /\ msg[m].at \in {"visible", "hidden"}
        /\ msg' = [msg EXCEPT ![m].at = at]
     \/ UNCHANGED msg
  /\ Becomes(p, Idle)

Ack(p) ==
  /\ hand[p].pc = "ack" /\ DeleteMessage(p, "acked")
  /\ UNCHANGED <<obj, rec, applied, cut>>

CutOff(p) == cut' = [cut EXCEPT ![hand[p].msg] = @ \/ hand[p].count >= Final]

Recorded(p) == rec' = [rec EXCEPT ![hand[p].msg] = "failed"]

(* Best effort: what the table answers is swallowed.  A message without a  *)
(* job_id has its record, if any, under "unknown".                         *)
RecordFailure(p) ==
  /\ hand[p].pc = "record" /\ Becomes(p, Idle)
  /\ \/ Recorded(p) /\ UNCHANGED cut
     \/ CutOff(p) /\ UNCHANGED rec
  /\ UNCHANGED <<msg, obj, applied>>
-----------------------------------------------------------------------------
(* drain_one_message_after_config_failure *)

DrainReceive(p, m) ==
  /\ hand[p].pc = "down" /\ Received(m)
  /\ Becomes(p, IF m \in Unreadable \union Nameless THEN Idle
                ELSE [Idle EXCEPT !.pc = "drain", !.msg = m, !.count = msg[m].count + 1])
  /\ UNCHANGED <<obj, rec, applied, cut>>

\* Faulty: the message is deleted whatever became of the record.
DrainAnyway(p) ==
  /\ hand[p].pc = "drain" /\ Move(p, "drainack")
  /\ Recorded(p) \/ UNCHANGED rec
  /\ UNCHANGED <<msg, obj, applied, cut>>

(* The message is deleted only after this call created its record: neither *)
(* a record that was there nor a lost reply will do.                       *)
DrainRecord(p) ==
  /\ hand[p].pc = "drain"
  /\ \/ /\ rec[hand[p].msg] = "none" /\ Recorded(p)
        /\ Move(p, "drainack") /\ UNCHANGED cut
     \/ Recorded(p) /\ Becomes(p, Idle) /\ UNCHANGED cut
     \/ CutOff(p) /\ Becomes(p, Idle) /\ UNCHANGED rec
  /\ UNCHANGED <<msg, obj, applied>>

DrainAck(p) ==
  /\ hand[p].pc = "drainack" /\ DeleteMessage(p, "drained")
  /\ UNCHANGED <<obj, rec, applied, cut>>
-----------------------------------------------------------------------------
(* The environment *)

(* Pods end at any step: crash, eviction, the Job's deadline.              *)
Crash(p) ==
  /\ hand[p].pc # "down" /\ Becomes(p, Idle) /\ CutOff(p)
  /\ UNCHANGED <<msg, obj, rec, applied>>

Send(m) ==
  /\ msg[m].at = "unsent" /\ msg' = [msg EXCEPT ![m].at = "visible"]
  /\ UNCHANGED <<hand, obj, rec, applied, cut>>

(* Pods are bounded by as much time as a message stays hidden; Overlap     *)
(* allows for pods that outlive it and for duplicate deliveries.           *)
TimesOut(m) ==
  /\ msg[m].at = "hidden"
  /\ Overlap \/ \A p \in Processors : hand[p].msg # m
  /\ msg' = [msg EXCEPT ![m].at = "visible"]
  /\ UNCHANGED <<hand, obj, rec, applied, cut>>

Redrive(m) ==
  /\ msg[m].at = "visible" /\ msg[m].count = Final
  /\ msg' = [msg EXCEPT ![m].at = "dead"]
  /\ UNCHANGED <<hand, obj, rec, applied, cut>>

JobFinishes(r) ==
  /\ r \in JobKinds /\ obj[r] = "running" /\ obj' = [obj EXCEPT ![r] = "finished"]
  /\ UNCHANGED <<msg, hand, rec, applied, cut>>

JobExpires(r) ==
  /\ obj[r] = "finished" /\ obj' = [obj EXCEPT ![r] = "absent"]
  /\ UNCHANGED <<msg, hand, rec, applied, cut>>

Step(p) ==
  \/ LookUp(p) \/ DeleteFinished(p) \/ Create(p) \/ Patch(p)
  \/ Ack(p) \/ RecordFailure(p) \/ DrainRecord(p) \/ DrainAck(p)

Next ==
  \/ \E p \in Processors : Step(p) \/ Crash(p)
  \/ \E p \in Processors, m \in Messages : ProcessMessage(p, m) \/ DrainReceive(p, m)
  \/ \E m \in Messages : Send(m) \/ TimesOut(m) \/ Redrive(m)
  \/ \E r \in Resources : JobFinishes(r) \/ JobExpires(r)

Spec == Init /\ [][Next]_vars

(* Processors run to their end; the queue returns and redrives messages;   *)
(* KEDA starts processors while the queue is not empty.                    *)
Fairness ==
  /\ \A p \in Processors : WF_vars(Step(p))
  /\ \A m \in Messages : WF_vars(TimesOut(m)) /\ WF_vars(Redrive(m))
  /\ \A m \in Messages :
       WF_vars(\E p \in Processors : ProcessMessage(p, m) \/ DrainReceive(p, m))

FairSpec == Spec /\ Fairness
-----------------------------------------------------------------------------
Complete(m) == 1..Len(Manifests[m]) \subseteq applied[m]
Held(m) == \E p \in Processors : hand[p].msg = m /\ hand[p].count = Final
WellFormed(m) == m \notin Unreadable /\ Manifests[m] # <<>>
Named(m) == WellFormed(m) /\ m \notin Nameless

(* No submission is lost (process_one_message: delete "only after complete *)
(* success"; drain: "ONLY after its job_id was recorded FAILED"): whatever *)
(* crashed or overlapped, an acknowledged message had all its manifests    *)
(* applied, and a drained one has its record.                              *)
NothingLost ==
  \A m \in Messages :
    /\ msg[m].at = "acked" => Complete(m)
    /\ msg[m].at = "drained" => rec[m] = "failed"

(* "A disallowed resource later in the message must not leave an earlier   *)
(* resource partially applied", over all its receives.                     *)
RejectedTouchNothing == \A m \in Invalid : applied[m] = {}

(* A job that dead-letters is visible: unless its last receive was cut     *)
(* off, or still runs, it has a FAILED record or was in fact applied.      *)
DeadIsTold ==
  \A m \in Messages :
    msg[m].at = "dead" /\ Named(m) =>
      rec[m] = "failed" \/ Complete(m) \/ cut[m] \/ Held(m)

(* Every submission is answered, through any number of crashes, retries    *)
(* and overlapping deliveries.                                             *)
EventuallyTold ==
  \A m \in Messages :
    msg[m].at # "unsent" /\ Named(m) ~>
      rec[m] = "failed" \/ Complete(m) \/ cut[m]
=============================================================================

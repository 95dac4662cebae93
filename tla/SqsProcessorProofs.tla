------------------------- MODULE SqsProcessorProofs -------------------------
(***************************************************************************)
(* What the SQS path promises, for any messages, manifests, processors and *)
(* receive limit, through any crashes and overlapping deliveries.          *)
(*                                                                         *)
(* Inv strengthens the properties with what a processor has earned at each *)
(* point of its run: the manifests behind it were applied unless it knows  *)
(* of a failure, and whoever holds a message's last receive answers it.    *)
(***************************************************************************)
EXTENDS SqsProcessor, TLAPS

(* What a processor whose state is h has earned, given what was applied    *)
(* for each message and what the jobs table holds.                         *)
Earned(h, a, r) ==
  /\ h.pc = "down" => h.msg = NoMessage
  /\ h.pc \in Applying \union {"ack"} => h.msg \notin Invalid /\ WellFormed(h.msg)
  /\ h.pc \in Applying /\ ~h.failed => 1..(h.i - 1) \subseteq a[h.msg]
  /\ h.pc = "ack" => 1..Len(Manifests[h.msg]) \subseteq a[h.msg]
  /\ h.pc = "drainack" => r[h.msg] = "failed"

(* A processor's record that is typed and points at a manifest of its own. *)
HandOK(h) ==
  /\ h \in Hands
  /\ h.pc # "down" => h.msg \in Messages
  /\ h.pc \in Applying => h.i \in 1..Len(Manifests[h.msg])

HandsOK == \A p \in Processors : HandOK(hand[p]) /\ Earned(hand[p], applied, rec)

Told(m) == rec[m] = "failed" \/ Complete(m) \/ cut[m]

LastAnswered ==
  \A m \in Messages : msg[m].count = Final /\ Named(m) => Told(m) \/ Held(m)

DeadAfterLast == \A m \in Messages : msg[m].at = "dead" => msg[m].count = Final

Inv == TypeOK /\ HandsOK /\ LastAnswered /\ DeadAfterLast /\ NothingLost /\ RejectedTouchNothing
-----------------------------------------------------------------------------
(* The records a processor can become *)

LEMMA IdleOK ==
  ASSUME NEW a, NEW r
  PROVE  HandOK(Idle) /\ Earned(Idle, a, r)
  BY SqsAssumption DEF HandOK, Hands, Pcs, Idle, Applying, Earned

LEMMA AtManifestOK ==
  ASSUME NEW m \in Messages, NEW c \in 0..Final, NEW i \in 1..Len(Manifests[m]), NEW f \in BOOLEAN
  PROVE  LET h == AtManifest(m, c, i, f)
         IN HandOK(h) /\ h.pc \in Applying /\ h.msg = m /\ h.count = c /\ h.i = i /\ h.failed = f
<1>1. Len(Manifests[m]) \in Nat
  BY SqsAssumption
<1> QED
  BY <1>1 DEF HandOK, Hands, Pcs, Applying, AtManifest

LEMMA BusyOK ==
  ASSUME NEW m \in Messages, NEW c \in 0..Final, NEW pc \in {"record", "drain"}, NEW a, NEW r
  PROVE  LET h == [Idle EXCEPT !.pc = pc, !.msg = m, !.count = c]
         IN HandOK(h) /\ Earned(h, a, r) /\ h.msg = m /\ h.count = c
  BY SqsAssumption DEF HandOK, Hands, Pcs, Idle, Applying, Earned

LEMMA FailedOK ==
  ASSUME NEW m \in Messages, NEW c \in 0..Final, NEW a, NEW r
  PROVE  /\ HandOK(Failed(m, c)) /\ Earned(Failed(m, c), a, r)
         /\ c = Final => Failed(m, c).msg = m /\ Failed(m, c).count = c
<1>1. CASE c >= Final
  BY <1>1, BusyOK DEF Failed
<1>2. CASE ~(c >= Final)
  BY <1>2, IdleOK, SqsAssumption DEF Failed
<1> QED BY <1>1, <1>2
-----------------------------------------------------------------------------
(* Steps of one processor *)

(* The histories and the jobs table only grow. *)
Grows ==
  /\ applied' \in [Messages -> SUBSET Nat] /\ \A m \in Messages : applied[m] \subseteq applied'[m]
  /\ rec' \in [Messages -> {"none", "failed"}]
  /\ \A m \in Messages : rec[m] = "failed" => rec'[m] = "failed"
  /\ cut' \in [Messages -> BOOLEAN] /\ \A m \in Messages : cut[m] => cut'[m]

LEMMA HandsKept ==
  ASSUME HandsOK, hand \in [Processors -> Hands], NEW p \in Processors, NEW h, Becomes(p, h),
         HandOK(h), Earned(h, applied', rec'), Grows
  PROVE  HandsOK' /\ hand' \in [Processors -> Hands]
<1>1. hand' \in [Processors -> Hands]
  BY DEF Becomes, HandOK
<1>2. ASSUME NEW q \in Processors
      PROVE  HandOK(hand'[q]) /\ Earned(hand'[q], applied', rec')
  <2>1. CASE q = p
    BY <2>1 DEF Becomes
  <2>2. CASE q # p
    <3>1. hand'[q] = hand[q]
      BY <2>2 DEF Becomes
    <3>2. HandOK(hand[q]) /\ Earned(hand[q], applied, rec)
      BY DEF HandsOK
    <3>3. hand[q].pc # "down" => hand[q].msg \in Messages
      BY <3>2 DEF HandOK
    <3> QED BY <3>1, <3>2, <3>3 DEF Earned, Grows, Applying
  <2> QED BY <2>1, <2>2
<1> QED BY <1>1, <1>2 DEF HandsOK

(* A step of p answers its message or goes on holding it.                  *)
LEMMA AnsweredKept ==
  ASSUME LastAnswered, hand \in [Processors -> Hands], NEW p \in Processors, NEW h, Becomes(p, h),
         Grows, \A m \in Messages : msg'[m].count = msg[m].count,
         NEW m0 \in Messages, hand[p].msg = m0,
         hand[p].count = Final => (h.msg = m0 /\ h.count = Final) \/ Told(m0)'
  PROVE  LastAnswered'
<1> SUFFICES ASSUME NEW m \in Messages, msg'[m].count = Final, Named(m)
             PROVE  Told(m)' \/ Held(m)'
  BY DEF LastAnswered, Named, WellFormed
<1>1. CASE Told(m)
  BY <1>1 DEF Told, Complete, Grows
<1>2. CASE Held(m)
  <2>1. PICK q \in Processors : hand[q].msg = m /\ hand[q].count = Final
    BY <1>2 DEF Held
  <2>2. CASE q # p
    <3>1. hand'[q] = hand[q]
      BY <2>2 DEF Becomes
    <3> QED BY <2>1, <3>1 DEF Held
  <2>3. CASE q = p
    <3>1. hand'[p] = h
      BY DEF Becomes
    <3> QED BY <2>1, <2>3, <3>1 DEF Held
  <2> QED BY <2>2, <2>3
<1> QED BY <1>1, <1>2 DEF LastAnswered

LEMMA QueueKept ==
  ASSUME NothingLost, DeadAfterLast, Grows, msg' = msg
  PROVE  NothingLost' /\ DeadAfterLast'
  BY DEF NothingLost, DeadAfterLast, Complete, Grows

(* What every step of a processor that leaves the queue alone comes to.    *)
LEMMA Advance ==
  ASSUME Inv, NEW p \in Processors, NEW h, Becomes(p, h), HandOK(h), Earned(h, applied', rec'),
         Grows, hand[p].pc # "down", NEW m0, hand[p].msg = m0,
         hand[p].count = Final => (h.msg = m0 /\ h.count = Final) \/ Told(m0)',
         msg' = msg, obj' \in [Resources -> {"absent", "running", "finished"}],
         RejectedTouchNothing'
  PROVE  Inv'
<1>1. m0 \in Messages
  BY DEF Inv, TypeOK
<1>2. HandsOK' /\ hand' \in [Processors -> Hands]
  BY HandsKept DEF Inv, TypeOK
<1>3. LastAnswered'
  BY <1>1, AnsweredKept DEF Inv, TypeOK
<1>4. NothingLost' /\ DeadAfterLast'
  BY QueueKept DEF Inv
<1>5. TypeOK'
  BY <1>2 DEF Inv, TypeOK, Grows, HandsOK, HandOK
<1> QED BY <1>2, <1>3, <1>4, <1>5 DEF Inv
-----------------------------------------------------------------------------
(* The disjuncts of apply_manifest *)

(* What Proceed does to a processor whose manifest was applied if it says  *)
(* so: it goes on, or acknowledges, or has failed.                         *)
LEMMA ProceedOK ==
  ASSUME Inv, NEW p \in Processors, hand[p].pc \in Applying, NEW ok \in BOOLEAN, Proceed(p, ok),
         Grows, ok => hand[p].i \in applied'[hand[p].msg]
  PROVE  \E h : /\ Becomes(p, h) /\ HandOK(h) /\ Earned(h, applied', rec')
                /\ hand[p].count = Final => h.msg = hand[p].msg /\ h.count = Final
<1> DEFINE g == hand[p]
           failed == g.failed \/ ~ok
           n == Len(Manifests[g.msg])
<1>1. /\ g.msg \in Messages /\ g.count \in 0..Final /\ g.i \in 1..n /\ g.failed \in BOOLEAN
      /\ g \in Hands
  BY DEF Inv, TypeOK, Applying, Hands
<1>2. n \in Nat
  BY <1>1, SqsAssumption
<1>3. g.msg \notin Invalid /\ WellFormed(g.msg) /\ (~g.failed => 1..(g.i - 1) \subseteq applied[g.msg])
  BY DEF Inv, HandsOK, Earned
<1>4. ~failed => 1..g.i \subseteq applied'[g.msg]
  <2> SUFFICES ASSUME ~failed, NEW k \in 1..g.i PROVE k \in applied'[g.msg]
    OBVIOUS
  <2>1. CASE k = g.i
    BY <2>1
  <2>2. CASE k # g.i
    BY <2>2, <1>1, <1>2, <1>3 DEF Grows
  <2> QED BY <2>1, <2>2
<1>5. CASE g.i < n
  <2>1. g.i + 1 \in 1..n
    BY <1>1, <1>2, <1>5
  <2> DEFINE h == AtManifest(g.msg, g.count, g.i + 1, failed)
  <2>2. Becomes(p, h)
    BY <1>5 DEF Proceed
  <2>3. /\ HandOK(h) /\ h.pc \in Applying /\ h.msg = g.msg /\ h.count = g.count
        /\ h.i = g.i + 1 /\ h.failed = failed
    <3>1. failed \in BOOLEAN
      BY <1>1
    <3> HIDE DEF g, failed
    <3> QED BY <1>1, <2>1, <3>1, AtManifestOK
  <2> HIDE DEF h
  <2>4. ~h.failed => 1..(h.i - 1) \subseteq applied'[h.msg]
    <3>1. (g.i + 1) - 1 = g.i
      BY <1>1, <1>2
    <3> HIDE DEF g, failed, n
    <3> QED BY <1>4, <2>3, <3>1
  <2>5. Earned(h, applied', rec')
    <3> HIDE DEF g, failed, n
    <3> QED BY <1>3, <2>3, <2>4 DEF Earned, Applying
  <2> QED BY <2>2, <2>3, <2>5
<1>6. CASE ~(g.i < n) /\ ~failed
  <2> DEFINE h == [g EXCEPT !.pc = "ack"]
  <2>1. Becomes(p, h)
    BY <1>6 DEF Proceed
  <2>2. HandOK(h) /\ h.pc = "ack" /\ h.msg = g.msg /\ h.count = g.count
    BY <1>1 DEF HandOK, Hands, Pcs, Applying
  <2>3. n = g.i
    BY <1>1, <1>2, <1>6
  <2> HIDE DEF h
  <2>4. Earned(h, applied', rec')
    BY <1>3, <1>4, <1>6, <2>2, <2>3 DEF Earned, Applying
  <2> QED BY <2>1, <2>2, <2>4
<1>7. CASE ~(g.i < n) /\ failed
  BY <1>1, <1>7, FailedOK DEF Proceed
<1> QED BY <1>5, <1>6, <1>7

(* A move within apply_manifest that changes nothing else of the record.   *)
LEMMA MoveOK ==
  ASSUME Inv, NEW p \in Processors, hand[p].pc \in Applying, NEW pc \in Applying, Move(p, pc), Grows
  PROVE  \E h : /\ Becomes(p, h) /\ HandOK(h) /\ Earned(h, applied', rec')
                /\ h.msg = hand[p].msg /\ h.count = hand[p].count
<1> DEFINE h == [hand[p] EXCEPT !.pc = pc]
<1>1. Becomes(p, h)
  BY DEF Move
<1>2. /\ HandOK(h) /\ h.pc = pc /\ h.msg = hand[p].msg /\ h.count = hand[p].count
      /\ h.i = hand[p].i /\ h.failed = hand[p].failed /\ h.msg \in Messages
  BY DEF Inv, TypeOK, HandOK, Hands, Pcs, Applying
<1>3. Earned(hand[p], applied, rec)
  BY DEF Inv, HandsOK
<1> HIDE DEF h
<1>4. Earned(h, applied', rec')
  BY <1>2, <1>3 DEF Earned, Applying, Grows
<1> QED BY <1>1, <1>2, <1>4
(* A step of apply_manifest: p's record goes on within its message.        *)
LEMMA ApplyingKeeps ==
  ASSUME Inv, NEW p \in Processors, hand[p].pc \in Applying, Grows,
         \/ \E pc \in Applying : Move(p, pc)
         \/ Proceed(p, FALSE)
         \/ Proceed(p, TRUE) /\ hand[p].i \in applied'[hand[p].msg],
         msg' = msg, obj' \in [Resources -> {"absent", "running", "finished"}],
         RejectedTouchNothing'
  PROVE  Inv'
<1>1. PICK h : /\ Becomes(p, h) /\ HandOK(h) /\ Earned(h, applied', rec')
               /\ hand[p].count = Final => h.msg = hand[p].msg /\ h.count = Final
  BY ProceedOK, MoveOK
<1>2. hand[p].pc # "down"
  BY DEF Applying
<1> QED BY <1>1, <1>2, Advance

LEMMA SameGrows ==
  ASSUME Inv, UNCHANGED <<rec, applied, cut>>
  PROVE  Grows /\ RejectedTouchNothing'
  BY DEF Grows, Inv, TypeOK, RejectedTouchNothing

LEMMA EffectGrows ==
  ASSUME Inv, NEW p \in Processors, hand[p].pc \in Applying, Effected(p), UNCHANGED <<rec, cut>>
  PROVE  Grows /\ RejectedTouchNothing' /\ hand[p].i \in applied'[hand[p].msg]
<1>1. hand[p].msg \in Messages /\ hand[p].i \in Nat /\ hand[p].msg \notin Invalid
  BY DEF Inv, TypeOK, HandsOK, Earned, Hands, Applying
<1>2. applied' = [applied EXCEPT ![hand[p].msg] = @ \union {hand[p].i}]
  BY DEF Effected
<1> QED BY <1>1, <1>2 DEF Grows, Inv, TypeOK, RejectedTouchNothing

LEMMA LookUpKeeps == ASSUME Inv, NEW p \in Processors, LookUp(p) PROVE Inv'
<1>1. hand[p].pc \in Applying /\ {"create", "delete"} \subseteq Applying
  BY DEF LookUp, Applying
<1>2. Grows /\ RejectedTouchNothing'
  BY SameGrows DEF LookUp
<1>3. obj' \in [Resources -> {"absent", "running", "finished"}] /\ msg' = msg
  BY DEF LookUp, Inv, TypeOK
<1> QED BY <1>1, <1>2, <1>3, ApplyingKeeps DEF LookUp

LEMMA DeleteFinishedKeeps == ASSUME Inv, NEW p \in Processors, DeleteFinished(p) PROVE Inv'
<1>1. hand[p].pc \in Applying /\ "create" \in Applying
  BY DEF DeleteFinished, Applying
<1>2. Grows /\ RejectedTouchNothing'
  BY SameGrows DEF DeleteFinished
<1>3. obj' \in [Resources -> {"absent", "running", "finished"}] /\ msg' = msg
  BY DEF DeleteFinished, Inv, TypeOK
<1> QED BY <1>1, <1>2, <1>3, ApplyingKeeps DEF DeleteFinished

LEMMA CreateKeeps == ASSUME Inv, NEW p \in Processors, Create(p) PROVE Inv'
<1>1. hand[p].pc \in Applying /\ "patch" \in Applying
  BY DEF Create, Applying
<1>2. obj' \in [Resources -> {"absent", "running", "finished"}] /\ msg' = msg
  BY DEF Create, Inv, TypeOK
<1>3. CASE Effected(p) /\ \E ok \in BOOLEAN : Proceed(p, ok)
  <2>1. Grows /\ RejectedTouchNothing' /\ hand[p].i \in applied'[hand[p].msg]
    BY <1>1, <1>3, EffectGrows DEF Create
  <2>2. Proceed(p, FALSE) \/ Proceed(p, TRUE)
    BY <1>3
  <2> QED BY <1>1, <1>2, <2>1, <2>2, ApplyingKeeps
<1>4. CASE UNCHANGED applied /\ (Move(p, "patch") \/ Proceed(p, FALSE))
  <2>1. Grows /\ RejectedTouchNothing'
    BY <1>4, SameGrows DEF Create
  <2> QED BY <1>1, <1>2, <1>4, <2>1, ApplyingKeeps
<1> QED BY <1>3, <1>4 DEF Create

LEMMA PatchKeeps == ASSUME Inv, NEW p \in Processors, Patch(p) PROVE Inv'
<1>1. hand[p].pc \in Applying
  BY DEF Patch, Applying
<1>2. obj' \in [Resources -> {"absent", "running", "finished"}] /\ msg' = msg
  BY DEF Patch, Inv, TypeOK
<1>3. CASE Effected(p) /\ \E ok \in BOOLEAN : Proceed(p, ok)
  <2>1. Grows /\ RejectedTouchNothing' /\ hand[p].i \in applied'[hand[p].msg]
    BY <1>1, <1>3, EffectGrows DEF Patch
  <2>2. Proceed(p, FALSE) \/ Proceed(p, TRUE)
    BY <1>3
  <2> QED BY <1>1, <1>2, <2>1, <2>2, ApplyingKeeps
<1>4. CASE UNCHANGED applied /\ Proceed(p, FALSE)
  <2>1. Grows /\ RejectedTouchNothing'
    BY <1>4, SameGrows DEF Patch
  <2> QED BY <1>1, <1>2, <1>4, <2>1, ApplyingKeeps
<1> QED BY <1>3, <1>4 DEF Patch
-----------------------------------------------------------------------------
(* The end of a message *)

(* p lets its message go once it is answered.                              *)
LEMMA LetGoKeeps ==
  ASSUME Inv, NEW p \in Processors, hand[p].pc # "down", Becomes(p, Idle), Grows,
         NEW m0, hand[p].msg = m0, hand[p].count = Final => Told(m0)',
         UNCHANGED <<msg, obj, applied>>
  PROVE  Inv'
<1>1. obj' \in [Resources -> {"absent", "running", "finished"}] /\ RejectedTouchNothing'
  BY DEF Inv, TypeOK, RejectedTouchNothing
<1> QED BY <1>1, Advance, IdleOK

LEMMA RecordedGrows ==
  ASSUME Inv, NEW p \in Processors, hand[p].pc # "down",
         (Recorded(p) /\ UNCHANGED cut) \/ (CutOff(p) /\ UNCHANGED rec), UNCHANGED applied,
         NEW m0, hand[p].msg = m0
  PROVE  /\ Grows /\ m0 \in Messages
         /\ Recorded(p) => rec'[m0] = "failed"
         /\ hand[p].count = Final => Told(m0)'
<1>1. m0 \in Messages
  BY DEF Inv, TypeOK
<1>2. CASE Recorded(p) /\ UNCHANGED cut
  <2>1. rec' = [rec EXCEPT ![m0] = "failed"] /\ rec \in [Messages -> {"none", "failed"}]
    BY <1>2 DEF Recorded, Inv, TypeOK
  <2>2. rec'[m0] = "failed" /\ Told(m0)'
    BY <1>1, <2>1 DEF Told
  <2>3. Grows
    BY <1>1, <1>2, <2>1 DEF Grows, Inv, TypeOK
  <2> QED BY <1>1, <2>2, <2>3
<1>3. CASE CutOff(p) /\ UNCHANGED rec
  <2>1. hand[p].count = Final => hand[p].count >= Final
    BY SqsAssumption
  <2>2. cut' = [cut EXCEPT ![m0] = @ \/ hand[p].count >= Final]
    BY <1>3 DEF CutOff
  <2>3. cut'[m0] = (cut[m0] \/ hand[p].count >= Final) /\ \A m \in Messages : cut[m] => cut'[m]
    BY <1>1, <2>2 DEF Inv, TypeOK
  <2>4. cut' \in [Messages -> BOOLEAN]
    BY <1>1, <2>2 DEF Inv, TypeOK
  <2>5. Grows
    BY <1>3, <2>3, <2>4 DEF Grows, Inv, TypeOK
  <2>6. hand[p].count = Final => Told(m0)'
    BY <2>1, <2>3 DEF Told
  <2>7. Recorded(p) => rec'[m0] = "failed"
    BY <1>1 DEF Recorded, Inv, TypeOK
  <2> QED BY <1>1, <2>5, <2>6, <2>7
<1> QED BY <1>2, <1>3

LEMMA RecordFailureKeeps == ASSUME Inv, NEW p \in Processors, RecordFailure(p) PROVE Inv'
<1>1. hand[p].pc # "down"
  BY DEF RecordFailure
<1>2. UNCHANGED applied /\ ((Recorded(p) /\ UNCHANGED cut) \/ (CutOff(p) /\ UNCHANGED rec))
  BY DEF RecordFailure
<1>3. Grows /\ \A m0 : hand[p].msg = m0 /\ hand[p].count = Final => Told(m0)'
  BY <1>1, <1>2, RecordedGrows
<1> QED BY <1>1, <1>3, LetGoKeeps DEF RecordFailure

LEMMA CrashKeeps == ASSUME Inv, NEW p \in Processors, Crash(p) PROVE Inv'
<1>1. hand[p].pc # "down"
  BY DEF Crash
<1>2. UNCHANGED applied /\ ((Recorded(p) /\ UNCHANGED cut) \/ (CutOff(p) /\ UNCHANGED rec))
  BY DEF Crash
<1>3. Grows /\ \A m0 : hand[p].msg = m0 /\ hand[p].count = Final => Told(m0)'
  BY <1>1, <1>2, RecordedGrows
<1> QED BY <1>1, <1>3, LetGoKeeps DEF Crash
LEMMA DrainRecordKeeps == ASSUME Inv, NEW p \in Processors, DrainRecord(p) PROVE Inv'
<1>1. hand[p].pc = "drain" /\ hand[p].pc # "down" /\ UNCHANGED applied
  BY DEF DrainRecord
<1>2. CASE Recorded(p) /\ Move(p, "drainack") /\ UNCHANGED cut
  <2> DEFINE h == [hand[p] EXCEPT !.pc = "drainack"]
  <2>1. Becomes(p, h)
    BY <1>2 DEF Move
  <2>2. HandOK(h) /\ h.pc = "drainack" /\ h.msg = hand[p].msg /\ h.count = hand[p].count
    BY <1>1 DEF Inv, TypeOK, HandOK, Hands, Pcs, Applying
  <2>3. Grows /\ rec'[hand[p].msg] = "failed"
    BY <1>1, <1>2, RecordedGrows
  <2> HIDE DEF h
  <2>4. Earned(h, applied', rec')
    BY <2>2, <2>3 DEF Earned, Applying
  <2>5. RejectedTouchNothing'
    BY <1>1 DEF Inv, RejectedTouchNothing
  <2>6. msg' = msg /\ obj' \in [Resources -> {"absent", "running", "finished"}]
    BY DEF DrainRecord, Inv, TypeOK
  <2> QED BY <1>1, <2>1, <2>2, <2>3, <2>4, <2>5, <2>6, Advance
<1>3. CASE /\ (Recorded(p) /\ UNCHANGED cut) \/ (CutOff(p) /\ UNCHANGED rec)
           /\ Becomes(p, Idle)
  <2>1. Grows /\ \A m0 : hand[p].msg = m0 /\ hand[p].count = Final => Told(m0)'
    BY <1>1, <1>3, RecordedGrows
  <2> QED BY <1>1, <1>3, <2>1, LetGoKeeps DEF DrainRecord
<1> QED BY <1>2, <1>3 DEF DrainRecord

(* A deletion leaves the queue with one message less, or as it was.        *)
LEMMA DeletionKeeps ==
  ASSUME Inv, NEW p \in Processors, hand[p].pc # "down", NEW at \in {"acked", "drained"},
         DeleteMessage(p, at), UNCHANGED <<obj, rec, applied, cut>>,
         at = "acked" => Complete(hand[p].msg),
         at = "drained" => rec[hand[p].msg] = "failed",
         Told(hand[p].msg)
  PROVE  Inv'
<1> DEFINE m0 == hand[p].msg
<1>1. m0 \in Messages /\ msg \in [Messages -> [at: Places, count: 0..Final]]
  BY DEF Inv, TypeOK
<1>2. Becomes(p, Idle) /\ Grows /\ RejectedTouchNothing'
  BY SameGrows DEF DeleteMessage
<1>3. \A m \in Messages :
        /\ msg'[m].count = msg[m].count
        /\ msg'[m].at = msg[m].at \/ (m = m0 /\ msg'[m].at = at)
  BY <1>1 DEF DeleteMessage
<1>4. msg' \in [Messages -> [at: Places, count: 0..Final]]
  BY <1>1 DEF DeleteMessage, Places
<1>5. HandsOK' /\ hand' \in [Processors -> Hands]
  BY <1>2, HandsKept, IdleOK DEF Inv, TypeOK
<1>6. LastAnswered'
  <2>1. \A m : m = m0 => Told(m)'
    BY DEF Told, Complete
  <2> QED BY <1>1, <1>2, <1>3, <2>1, AnsweredKept DEF Inv, TypeOK
<1>7. DeadAfterLast' /\ NothingLost'
  <2>1. DeadAfterLast'
    BY <1>3 DEF Inv, DeadAfterLast
  <2>2. Complete(m0) => \A m : m = m0 => Complete(m)'
    BY DEF Complete
  <2>3. \A m : Complete(m) => Complete(m)'
    BY DEF Complete
  <2>4. NothingLost'
    BY <1>3, <2>2, <2>3 DEF Inv, NothingLost
  <2> QED BY <2>1, <2>4
<1>8. TypeOK'
  BY <1>2, <1>4, <1>5 DEF Inv, TypeOK, Grows, HandsOK, HandOK
<1> QED BY <1>2, <1>5, <1>6, <1>7, <1>8 DEF Inv

LEMMA AckKeeps == ASSUME Inv, NEW p \in Processors, Ack(p) PROVE Inv'
<1>1. hand[p].pc = "ack" /\ hand[p].pc # "down"
  BY DEF Ack
<1>2. Complete(hand[p].msg)
  BY <1>1 DEF Inv, HandsOK, Earned, Complete
<1>3. Told(hand[p].msg)
  BY <1>2 DEF Told
<1> QED BY <1>1, <1>2, <1>3, DeletionKeeps DEF Ack

LEMMA DrainAckKeeps == ASSUME Inv, NEW p \in Processors, DrainAck(p) PROVE Inv'
<1>1. hand[p].pc = "drainack" /\ hand[p].pc # "down"
  BY DEF DrainAck
<1>2. rec[hand[p].msg] = "failed"
  BY <1>1 DEF Inv, HandsOK, Earned
<1>3. Told(hand[p].msg)
  BY <1>2 DEF Told
<1> QED BY <1>1, <1>2, <1>3, DeletionKeeps DEF DrainAck
-----------------------------------------------------------------------------
(* Receiving *)

(* A processor that receives m for the last time holds it, unless the body *)
(* cannot be read.                                                         *)
LEMMA ReceiveKeeps ==
  ASSUME Inv, NEW p \in Processors, NEW m \in Messages, hand[p].pc = "down", Received(m),
         NEW h, Becomes(p, h), HandOK(h), Earned(h, applied, rec),
         msg[m].count + 1 = Final /\ Named(m) => h.msg = m /\ h.count = Final,
         UNCHANGED <<obj, rec, applied, cut>>
  PROVE  Inv'
<1>1. Grows /\ RejectedTouchNothing' /\ Earned(h, applied', rec')
  BY SameGrows DEF Earned
<1>2. HandsOK' /\ hand' \in [Processors -> Hands]
  BY <1>1, HandsKept DEF Inv, TypeOK
<1>3. /\ msg \in [Messages -> [at: Places, count: 0..Final]]
      /\ msg[m].at = "visible" /\ msg[m].count < Final
      /\ msg' = [msg EXCEPT ![m].at = "hidden", ![m].count = @ + 1]
  BY DEF Inv, TypeOK, Received
<1>4. msg' \in [Messages -> [at: Places, count: 0..Final]]
  <2>1. msg[m].count \in 0..Final /\ msg[m].count + 1 \in 0..Final
    BY <1>3, SqsAssumption
  <2> QED BY <1>3, <2>1 DEF Places
<1>5. /\ msg'[m].at = "hidden" /\ msg'[m].count = msg[m].count + 1
      /\ \A n \in Messages \ {m} : msg'[n] = msg[n]
  BY <1>3
<1>6. NothingLost' /\ DeadAfterLast'
  BY <1>5 DEF Inv, NothingLost, DeadAfterLast, Complete
<1>7. LastAnswered'
  <2> SUFFICES ASSUME NEW n \in Messages, msg'[n].count = Final, Named(n)
               PROVE  Told(n)' \/ Held(n)'
    BY DEF LastAnswered, Named, WellFormed
  <2>1. CASE n = m
    <3>1. hand'[p] = h
      BY DEF Becomes, Inv, TypeOK
    <3> QED BY <1>5, <2>1, <3>1 DEF Held
  <2>2. CASE n # m
    <3>1. Told(n) \/ Held(n)
      BY <1>5, <2>2 DEF Inv, LastAnswered
    <3>2. Told(n) => Told(n)'
      BY DEF Told, Complete
    <3>3. ASSUME Held(n) PROVE Held(n)'
      <4>1. PICK q \in Processors : hand[q].msg = n /\ hand[q].count = Final
        BY <3>3 DEF Held
      <4>2. q # p
        BY <4>1, SqsAssumption DEF Inv, HandsOK, Earned
      <4>3. hand'[q] = hand[q]
        BY <4>2 DEF Becomes, Inv, TypeOK
      <4> QED BY <4>1, <4>3 DEF Held
    <3> QED BY <3>1, <3>2, <3>3
  <2> QED BY <2>1, <2>2
<1>8. TypeOK'
  BY <1>1, <1>2, <1>4 DEF Inv, TypeOK, Grows, HandsOK, HandOK
<1> QED BY <1>1, <1>2, <1>6, <1>7, <1>8 DEF Inv
LEMMA ProcessMessageKeeps ==
  ASSUME Inv, NEW p \in Processors, NEW m \in Messages, ProcessMessage(p, m)
  PROVE  Inv'
<1> DEFINE c == msg[m].count + 1
           h == Validated(m, c)
<1>1. hand[p].pc = "down" /\ Received(m) /\ Becomes(p, h) /\ UNCHANGED <<obj, rec, applied, cut>>
  BY DEF ProcessMessage
<1>2. c \in 0..Final
  BY <1>1, SqsAssumption DEF Received, Inv, TypeOK
<1> HIDE DEF c
<1>3. /\ HandOK(h) /\ Earned(h, applied, rec)
      /\ c = Final /\ Named(m) => h.msg = m /\ h.count = Final
  <2>1. CASE m \in Unreadable \/ Manifests[m] = <<>>
    BY <2>1, IdleOK DEF Validated, Named, WellFormed
  <2>2. CASE WellFormed(m) /\ m \in Invalid
    BY <1>2, <2>2, FailedOK DEF Validated, WellFormed
  <2>3. CASE WellFormed(m) /\ m \notin Invalid
    <3>1. h = AtManifest(m, c, 1, FALSE)
      BY <2>3 DEF Validated, WellFormed
    <3>2. Manifests[m] \in Seq(Resources) /\ Manifests[m] # <<>>
      BY <2>3, SqsAssumption DEF WellFormed
    <3>3. 1 \in 1..Len(Manifests[m])
      BY <3>2
    <3> HIDE DEF h
    <3>4. /\ HandOK(h) /\ h.pc \in Applying /\ h.msg = m /\ h.count = c /\ h.i = 1
      <4>1. \A f \in BOOLEAN :
              LET g == AtManifest(m, c, 1, f)
              IN HandOK(g) /\ g.pc \in Applying /\ g.msg = m /\ g.count = c /\ g.i = 1
        BY <1>2, <3>3, AtManifestOK
      <4> QED BY <3>1, <4>1
    <3>5. 1..(h.i - 1) = {}
      BY <3>4
    <3> QED BY <2>3, <3>4, <3>5 DEF Earned, Applying
  <2> QED BY <2>1, <2>2, <2>3 DEF Named, WellFormed
<1> QED BY <1>1, <1>3, ReceiveKeeps DEF c

LEMMA DrainReceiveKeeps ==
  ASSUME Inv, NEW p \in Processors, NEW m \in Messages, DrainReceive(p, m)
  PROVE  Inv'
<1> DEFINE c == msg[m].count + 1
           h == IF m \in Unreadable \union Nameless THEN Idle
                ELSE [Idle EXCEPT !.pc = "drain", !.msg = m, !.count = c]
<1>1. hand[p].pc = "down" /\ Received(m) /\ Becomes(p, h) /\ UNCHANGED <<obj, rec, applied, cut>>
  BY DEF DrainReceive
<1>2. c \in 0..Final
  BY <1>1, SqsAssumption DEF Received, Inv, TypeOK
<1> HIDE DEF c
<1>3. /\ HandOK(h) /\ Earned(h, applied, rec)
      /\ c = Final /\ Named(m) => h.msg = m /\ h.count = Final
  <2>1. CASE m \in Unreadable \union Nameless
    BY <2>1, IdleOK DEF Named, WellFormed
  <2>2. CASE m \notin Unreadable \union Nameless
    BY <1>2, <2>2, BusyOK
  <2> QED BY <2>1, <2>2
<1> QED BY <1>1, <1>3, ReceiveKeeps DEF c
-----------------------------------------------------------------------------
(* The environment *)

LEMMA QueueMoves ==
  ASSUME Inv, NEW m \in Messages, NEW at \in {"visible", "dead"},
         msg[m].at \in {"unsent", "visible", "hidden"},
         at = "dead" => msg[m].count = Final,
         msg' = [msg EXCEPT ![m].at = at], UNCHANGED <<hand, obj, rec, applied, cut>>
  PROVE  Inv'
<1>1. msg \in [Messages -> [at: Places, count: 0..Final]]
  BY DEF Inv, TypeOK
<1>2. /\ msg' \in [Messages -> [at: Places, count: 0..Final]]
      /\ msg'[m].at = at /\ msg'[m].count = msg[m].count
      /\ \A n \in Messages \ {m} : msg'[n] = msg[n]
  BY <1>1 DEF Places
<1>3. TypeOK' /\ HandsOK' /\ RejectedTouchNothing'
  BY <1>2 DEF Inv, TypeOK, HandsOK, RejectedTouchNothing
<1>4. NothingLost' /\ DeadAfterLast'
  BY <1>2 DEF Inv, NothingLost, DeadAfterLast, Complete
<1>5. LastAnswered'
  BY <1>2 DEF Inv, LastAnswered, Told, Complete, Held, Named, WellFormed
<1> QED BY <1>3, <1>4, <1>5 DEF Inv

LEMMA ClusterMoves ==
  ASSUME Inv, obj' \in [Resources -> {"absent", "running", "finished"}],
         UNCHANGED <<msg, hand, rec, applied, cut>>
  PROVE  Inv'
  BY DEF Inv, TypeOK, HandsOK, RejectedTouchNothing, NothingLost, DeadAfterLast, Complete,
         LastAnswered, Told, Held, Named, WellFormed
-----------------------------------------------------------------------------
LEMMA InitInv == Init => Inv
<1> SUFFICES ASSUME Init PROVE Inv
  OBVIOUS
<1>1. TypeOK
  <2>1. msg \in [Messages -> [at: Places, count: 0..Final]]
    BY SqsAssumption DEF Init, Places
  <2>2. /\ hand \in [Processors -> Hands]
        /\ \A p \in Processors : hand[p].pc = "down"
    BY IdleOK DEF Init, HandOK, Idle
  <2> QED BY <2>1, <2>2 DEF Init, TypeOK, Applying
<1>4. RejectedTouchNothing /\ NothingLost /\ DeadAfterLast
  BY SqsAssumption DEF Init, RejectedTouchNothing, NothingLost, DeadAfterLast
<1>2. HandsOK
  BY IdleOK DEF Init, HandsOK
<1>3. LastAnswered
  BY SqsAssumption DEF Init, LastAnswered
<1> QED BY <1>1, <1>2, <1>3, <1>4 DEF Inv

LEMMA NextInv == Inv /\ [Next]_vars => Inv'
<1> SUFFICES ASSUME Inv, [Next]_vars PROVE Inv'
  OBVIOUS
<1>1. ASSUME NEW p \in Processors, Step(p) PROVE Inv'
  BY <1>1, LookUpKeeps, DeleteFinishedKeeps, CreateKeeps, PatchKeeps, AckKeeps,
     RecordFailureKeeps, DrainRecordKeeps, DrainAckKeeps DEF Step
<1>2. ASSUME NEW p \in Processors, Crash(p) PROVE Inv'
  BY <1>2, CrashKeeps
<1>3. ASSUME NEW p \in Processors, NEW m \in Messages, ProcessMessage(p, m) \/ DrainReceive(p, m)
      PROVE  Inv'
  BY <1>3, ProcessMessageKeeps, DrainReceiveKeeps
<1>4. ASSUME NEW m \in Messages, Send(m) \/ TimesOut(m) \/ Redrive(m) PROVE Inv'
  BY <1>4, QueueMoves DEF Send, TimesOut, Redrive
<1>5. ASSUME NEW r \in Resources, JobFinishes(r) \/ JobExpires(r) PROVE Inv'
  BY <1>5, ClusterMoves DEF JobFinishes, JobExpires, Inv, TypeOK
<1>6. CASE UNCHANGED vars
  BY <1>6, ClusterMoves DEF vars, Inv, TypeOK
<1> QED BY <1>1, <1>2, <1>3, <1>4, <1>5, <1>6 DEF Next

THEOREM Invariance == Spec => []Inv
  BY InitInv, NextInv, PTL DEF Spec

(* The state of the queue, its processors and the cluster is well typed.   *)
THEOREM TypeCorrect == Spec => []TypeOK
<1>1. Inv => TypeOK
  BY DEF Inv
<1> QED BY <1>1, Invariance, PTL

(* An acknowledged message had every manifest applied and a drained one    *)
(* its record, whatever crashed or overlapped.                             *)
THEOREM NoSubmissionLost == Spec => []NothingLost
<1>1. Inv => NothingLost
  BY DEF Inv
<1> QED BY <1>1, Invariance, PTL

(* No manifest of a batch with an inadmissible one is ever applied.        *)
THEOREM BatchesRejectedWhole == Spec => []RejectedTouchNothing
<1>1. Inv => RejectedTouchNothing
  BY DEF Inv
<1> QED BY <1>1, Invariance, PTL

(* A dead-lettered job is recorded, applied, still in hand, or was cut off *)
(* on its last receive.                                                    *)
THEOREM DeadLettersTold == Spec => []DeadIsTold
<1>1. Inv => DeadIsTold
  BY DEF Inv, DeadIsTold, DeadAfterLast, LastAnswered, Told
<1> QED BY <1>1, Invariance, PTL
=============================================================================

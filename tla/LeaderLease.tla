----------------------------- MODULE LeaderLease -----------------------------
(***************************************************************************)
(* Single-writer election on a Kubernetes Lease: try_acquire_lease, which  *)
(* every replica calls before each cycle of its elected duty.              *)
(*                                                                         *)
(* A call is two requests: a read, and a replace that carries the version  *)
(* read.  Versions are not numbers: a successful replace makes every other *)
(* read stale.  Nor is time: a lease is live until it runs out, and a      *)
(* caller judges that by a clock it read before the Lease.                 *)
(***************************************************************************)
EXTENDS Naturals, FiniteSets

CONSTANTS
  Replicas,
  NoReplica,    \* the holder of a Lease nobody took yet
  MaxFaults,    \* bound: calls that fail, and crashes, in a behaviour
  MaxOverruns   \* bound: leases that run out under a replica that relies on them

ASSUME LeaseAssumption ==
  NoReplica \notin Replicas /\ MaxFaults \in Nat /\ MaxOverruns \in Nat

VARIABLES
  lease,     \* the Lease object: who holds it, and whether it is live
  call,      \* each replica's call of try_acquire_lease
  term,      \* what a replica's last True answer is still worth
  faults,    \* faults spent so far
  overruns   \* overruns so far

leaseVars == <<lease, call, term, faults, overruns>>

(* none: no call; fresh, stale: the Lease was read, and not written or     *)
(* written by another since; yes, no: the answer.                          *)
Calls == {"none", "fresh", "stale", "yes", "no"}

(* none: the last answer was False; live: it was True, and that lease has  *)
(* not run out; over: it has.                                              *)
Terms == {"none", "live", "over"}

LeaseTypeOK ==
  /\ lease \in [holder: Replicas \union {NoReplica}, live: BOOLEAN]
  /\ call \in [Replicas -> Calls]
  /\ term \in [Replicas -> Terms]
  /\ faults \in Nat
  /\ overruns \in Nat

NoFault == UNCHANGED faults
Fault == faults < MaxFaults /\ faults' = faults + 1
-----------------------------------------------------------------------------
Takeable(p) == lease.holder \in {p, NoReplica} \/ ~lease.live

(* Every failure answers False. *)
Refuse(p) ==
  /\ call' = [call EXCEPT ![p] = "no"]
  /\ term' = [term EXCEPT ![p] = "none"]

(* A clock read before the Lease ran out still sees it live.               *)
ReadLease(p) ==
  /\ call[p] = "none"
  /\ \/ Takeable(p) /\ NoFault /\ call' = [call EXCEPT ![p] = "fresh"] /\ UNCHANGED term
     \/ lease.holder \notin {p, NoReplica} /\ NoFault /\ Refuse(p)
     \/ Fault /\ Refuse(p)
  /\ UNCHANGED <<lease, overruns>>

\* Faulty: the write does not carry the version that was read.
WrittenBlindly(p) ==
  /\ lease' = [holder |-> p, live |-> TRUE]
  /\ term' = [term EXCEPT ![p] = "live"]
  /\ call' = [call EXCEPT ![p] = "yes"]

(* The write succeeds if nobody wrote since the read; p holds the Lease.   *)
Written(p) ==
  /\ call[p] = "fresh"
  /\ lease' = [holder |-> p, live |-> TRUE]
  /\ term' = [term EXCEPT ![p] = "live"]
  /\ call' = [q \in Replicas |->
       IF q = p THEN "yes" ELSE IF call[q] = "fresh" THEN "stale" ELSE call[q]]

(* The write succeeds and its reply is lost: p holds the Lease and answers *)
(* False.                                                                  *)
WrittenUnknown(p) ==
  /\ call[p] = "fresh"
  /\ lease' = [holder |-> p, live |-> TRUE]
  /\ term' = [term EXCEPT ![p] = "none"]
  /\ call' = [q \in Replicas |->
       IF q = p THEN "no" ELSE IF call[q] = "fresh" THEN "stale" ELSE call[q]]

ReplaceLease(p) ==
  /\ call[p] \in {"fresh", "stale"}
  /\ \/ Written(p) /\ NoFault
     \/ WrittenUnknown(p) /\ Fault
     \/ call[p] = "stale" /\ NoFault /\ Refuse(p) /\ UNCHANGED lease
     \/ Fault /\ Refuse(p) /\ UNCHANGED lease
  /\ UNCHANGED overruns

(* The caller takes the answer. *)
Answered(p) ==
  /\ call[p] \in {"yes", "no"}
  /\ call' = [call EXCEPT ![p] = "none"]
  /\ UNCHANGED <<lease, term, overruns>>

(* Only a replica that does not come back to renew in time lets a lease it *)
(* relies on run out.                                                      *)
LeaseRunsOut ==
  /\ lease.live
  /\ lease' = [lease EXCEPT !.live = FALSE]
  /\ term' = [p \in Replicas |->
       IF p = lease.holder /\ term[p] = "live" THEN "over" ELSE term[p]]
  /\ overruns' = IF \E p \in Replicas : p = lease.holder /\ term[p] = "live"
                   THEN overruns + 1 ELSE overruns
  /\ overruns' <= MaxOverruns
  /\ UNCHANGED <<call, faults>>

(* The process ends, and with it what it believed. *)
LeaveElection(p) ==
  /\ Fault
  /\ call' = [call EXCEPT ![p] = "none"]
  /\ term' = [term EXCEPT ![p] = "none"]
  /\ UNCHANGED <<lease, overruns>>
-----------------------------------------------------------------------------
LeaseInit ==
  /\ lease = [holder |-> NoReplica, live |-> FALSE]
  /\ call = [p \in Replicas |-> "none"]
  /\ term = [p \in Replicas |-> "none"]
  /\ faults = 0 /\ overruns = 0

LeaseStep(p) ==
  \/ ReadLease(p) \/ ReplaceLease(p) \/ LeaveElection(p)
  \/ Answered(p) /\ (NoFault \/ Fault)

(* The last: a fault of the duty the election is for.                      *)
LeaseNext ==
  \/ LeaseRunsOut
  \/ \E p \in Replicas : LeaseStep(p)
  \/ Fault /\ UNCHANGED <<lease, call, term, overruns>>

LeaseSpec == LeaseInit /\ [][LeaseNext]_leaseVars
-----------------------------------------------------------------------------
(* No two replicas hold a live term: whatever calls race, fail or answer   *)
(* late, a replica that was told True is the only one until that lease     *)
(* runs out.                                                               *)
OneLeader ==
  \A p, q \in Replicas : term[p] = "live" /\ term[q] = "live" => p = q
=============================================================================

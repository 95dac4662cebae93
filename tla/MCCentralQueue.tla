--------------------------- MODULE MCCentralQueue ---------------------------
(***************************************************************************)
(* Small instances of CentralQueue for TLC.                                *)
(***************************************************************************)
EXTENDS CentralQueueRefinement, TLC

CONSTANTS j1, j2, w1, w2, home

(* Their order in the worker index. *)
RankOf == [j \in Jobs |-> IF j = j1 THEN 1 ELSE 2]

HomeJobs == [j \in Jobs |-> home]
HomeWorkers == [w \in Workers |-> home]

(* The policy never changes: it accepts every job, or rejects j1. *)
AcceptAll == {{}}
RejectFirst == {{j1}}
Symmetry == Permutations(Workers)
=============================================================================

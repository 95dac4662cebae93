---------------------------- MODULE MCTlsRollover ----------------------------
(***************************************************************************)
(* A small policy for TlsRollover, in ticks: the clients' staleness is     *)
(* just shorter than the activation delay, a leaf's life just shorter than *)
(* the overlap, and a root is replaced early enough for two rounds of the  *)
(* schedule, the delay and the last leaf.                                  *)
(***************************************************************************)
EXTENDS TlsRollover

CONSTANTS c1

ASSUME Roomy == RoomyPolicy
=============================================================================

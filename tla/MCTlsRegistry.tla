---------------------------- MODULE MCTlsRegistry ----------------------------
(***************************************************************************)
(* A small instance of TlsRegistry: a region that stays and one that comes *)
(* and goes.                                                               *)
(***************************************************************************)
EXTENDS TlsRegistry

CONSTANTS r1, r2

Sets == {{r1}, {r1, r2}}
=============================================================================

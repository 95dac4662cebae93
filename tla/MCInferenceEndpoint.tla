------------------------- MODULE MCInferenceEndpoint -------------------------
(***************************************************************************)
(* Small instances of InferenceEndpoint for TLC.                           *)
(***************************************************************************)
EXTENDS InferenceEndpoint, TLC

CONSTANTS a, b, c, r1, r2

Placed == [m \in Monitors |-> IF m = c THEN r2 ELSE r1]
=============================================================================

--------------------------- MODULE MCTrafficDial ---------------------------
(***************************************************************************)
(* A small instance of TrafficDial for TLC.                                *)
(***************************************************************************)
EXTENDS TrafficDial, TLC

CONSTANTS east, west, p, q

ByName == east :> 1 @@ west :> 2
=============================================================================

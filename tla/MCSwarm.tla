------------------------------ MODULE MCSwarm ------------------------------
(***************************************************************************)
(* Two slots, one of which revises the directive of its replacement, and a *)
(* pool that a respawn can only be paid from by what is refunded.          *)
(***************************************************************************)
EXTENDS Swarm

CONSTANTS a, b
=============================================================================

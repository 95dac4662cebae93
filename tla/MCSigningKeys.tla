---------------------------- MODULE MCSigningKeys ----------------------------
(***************************************************************************)
(* One proxy and one validator: the properties are about pairs of them,    *)
(* and processes do not interact but through the Secret.                   *)
(***************************************************************************)
EXTENDS SigningKeys

CONSTANTS s1, v1
=============================================================================

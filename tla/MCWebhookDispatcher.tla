------------------------ MODULE MCWebhookDispatcher ------------------------
(***************************************************************************)
(* A small instance of WebhookDispatcher for TLC.                          *)
(***************************************************************************)
EXTENDS WebhookDispatcher

CONSTANTS j1, j2, p1, p2
=============================================================================

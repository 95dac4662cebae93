--------------------------- MODULE MCSqsProcessor ---------------------------
(***************************************************************************)
(* Small instances of SqsProcessor for TLC: m1 and m2 name the same Job,   *)
(* m3 ends in a manifest that is refused, m4 cannot be read.               *)
(***************************************************************************)
EXTENDS SqsProcessor, TLC

CONSTANTS m1, m2, m3, m4, p1, p2, job, service

Batches == (m1 :> <<job, service>>) @@ (m2 :> <<job>>) @@ (m3 :> <<service, job>>) @@ (m4 :> <<>>)
Submitted == [m \in Messages |-> Batches[m]]
=============================================================================

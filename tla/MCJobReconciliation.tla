------------------------ MODULE MCJobReconciliation ------------------------
(* Two workers, one of which leads, on one Job. *)
EXTENDS JobReconciliation
=============================================================================

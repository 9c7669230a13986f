--------------------------- MODULE MCFairScheduler --------------------------
(* Three projects of weights 2, 1 and 2.                                   *)
EXTENDS FairScheduler
MCWeight == [p \in Projects |-> IF p = 2 THEN 1 ELSE 2]
=============================================================================

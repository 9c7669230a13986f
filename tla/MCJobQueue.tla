------------------------------ MODULE MCJobQueue ------------------------------
(* Two actors on two Jobs of two projects and one that is submitted or      *)
(* retried.                                                                *)
EXTENDS JobQueue, TLC
CONSTANTS c1, c2, a, b, k, none
OneOfEach == <<a, b>>
ActorSymmetry == Permutations({c1, c2})
=============================================================================

-------------------------- MODULE MCMutationFence ---------------------------
(* Two processes and one command.                                          *)
EXTENDS MutationFence
CONSTANTS w1, w2, k1
MCWorker == {w1, w2}
MCKey == {k1}
=============================================================================

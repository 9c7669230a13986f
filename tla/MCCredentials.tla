---------------------------- MODULE MCCredentials ----------------------------
(* Two requests at a time about the credentials of two accounts, for three *)
(* seconds of two ticks: the text of a whole second is after its fraction's.*)
EXTENDS Credentials, TLC
MCText == (0 :> 1) @@ (1 :> 0)
Symmetry == Permutations(Account) \cup Permutations(Request)
=============================================================================

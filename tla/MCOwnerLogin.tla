---------------------------- MODULE MCOwnerLogin ----------------------------
(* Two requests at a time, among three people and two providers. *)
EXTENDS OwnerLogin, TLC
Symmetry == Permutations(Human) \cup Permutations(Provider) \cup Permutations(Fingerprint)
              \cup Permutations(Request)
=============================================================================

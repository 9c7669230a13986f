---------------------------- MODULE MCAccessControl ----------------------------
(* A small instance of AccessControl.  Principals, bindings and transactions *)
(* are only compared, so states that differ by their names are the same.     *)
EXTENDS AccessControl, TLC

Symmetry == Permutations(Principal) \cup Permutations(Binding) \cup Permutations(Tx)
================================================================================

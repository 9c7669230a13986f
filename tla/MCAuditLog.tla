------------------------------ MODULE MCAuditLog ------------------------------
(* Three events, of changes and of denials at a replica whose writer holds   *)
(* one, in an export with one event a page.                                  *)
EXTENDS AuditLog, TLC
Symmetry == Permutations(Replica) \cup Permutations(Project)
=============================================================================

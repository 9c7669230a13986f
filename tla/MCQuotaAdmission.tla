-------------------------- MODULE MCQuotaAdmission --------------------------
(* Jobs of one project, each in a namespace of its own, which goes by the   *)
(* name of the Job here.  At first one may be admitted in the project and   *)
(* one be queued, and two be retained.                                     *)
EXTENDS QuotaAdmission, TLC
CONSTANTS j1, j2, all, project
MCJob == {j1, j2}
MCScope == {all, project, j1, j2}
MCScopesOf == [j \in Job |-> {all, project, j}]
Counters(concurrent, queued, retained) ==
    [c \in Counter |-> CASE c = "concurrent" -> concurrent
                         [] c = "queued"     -> queued
                         [] c = "retained"   -> retained]
MCLimit(concurrent, queued, retained) ==
    [s \in MCScope |-> IF s = project THEN Counters(concurrent, queued, retained)
                       ELSE Counters(2, 2, 2)]
MCNarrow == MCLimit(1, 1, 2)
MCLimits == {MCLimit(2, 2, 2), MCNarrow}
Interchangeable == Permutations(MCJob)
=============================================================================

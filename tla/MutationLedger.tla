---------------------------- MODULE MutationLedger --------------------------
(***************************************************************************)
(* The durable record around one Kubernetes command (leadership/mutation.go *)
(* and the transactions of adapters/persistence/mutations.go).  A record is *)
(* the coordination state, the fencing generation of its latest attempt and *)
(* which attempt that was (the column attempt_id); NoRecord stands for a    *)
(* row that was never written.                                             *)
(***************************************************************************)
EXTENDS Naturals

States == {"Ready", "InFlight", "ObservationRequired", "Succeeded"}

Records == [state : States, generation : Nat, attempt : Nat]

NoRecord == [state |-> "Ready", generation |-> 0, attempt |-> 0]

\* A command whose effect nobody knows.
Pending(m) == m.state \in {"InFlight", "ObservationRequired"}

-----------------------------------------------------------------------------
(* The transitions of Mutation                                             *)

\* Mutant: a command in doubt may be tried again without an observation.
CanBeginInDoubt(m, generation) ==
    m.state \in {"Ready", "ObservationRequired"} /\ generation >= m.generation

CanBegin(m, generation) == m.state = "Ready" /\ generation >= m.generation

Begun(m, generation, attempt) ==
    [state |-> "InFlight", generation |-> generation, attempt |-> attempt]

CanComplete(m, generation) == m.state = "InFlight" /\ m.generation = generation

\* Mutant: an unknown outcome is taken for a success.
CompletedOptimistic(m, outcome) ==
    [m EXCEPT !.state = IF outcome = "failed" THEN "Ready" ELSE "Succeeded"]

\* Mutant: the state is the outcome.
CompletedAsOutcome(m, outcome) == [m EXCEPT !.state = outcome]

Completed(m, outcome) ==
    [m EXCEPT !.state = CASE outcome = "succeeded" -> "Succeeded"
                          [] outcome = "failed"    -> "Ready"
                          [] outcome = "uncertain" -> "ObservationRequired"]

CanObserve(m, generation) ==
    m.state = "ObservationRequired" /\ generation >= m.generation

Observed(m, generation, present) ==
    [m EXCEPT !.state = IF present THEN "Succeeded" ELSE "Ready",
              !.generation = generation]
=============================================================================

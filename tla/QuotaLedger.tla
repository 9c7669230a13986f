----------------------------- MODULE QuotaLedger ----------------------------
(***************************************************************************)
(* The quota counters and the reservations that hold them                  *)
(* (domain/policyquota/quota.go and adapters/persistence/quotas.go).  A    *)
(* reservation demands at most one unit of each counter, the same in each  *)
(* scope of its Job: the installation, a project and a namespace.  Every   *)
(* operator here is one transaction's effect on the usage rows, which it   *)
(* locks before it reads them.                                             *)
(***************************************************************************)
EXTENDS Naturals, FiniteSets

CONSTANTS
    Job,             \* Jobs that may be submitted
    Scope,           \* scopes that have a usage row
    ScopesOf,        \* the scopes of each Job
    Limits           \* the effective policies that there may be: limit[s][c]

Counter == {"concurrent", "queued", "retained"}

ASSUME LedgerAssumption ==
    /\ IsFiniteSet(Job)
    /\ ScopesOf \in [Job -> SUBSET Scope]
    /\ Limits \subseteq [Scope -> [Counter -> Nat]]

Usages == [Scope -> [Counter -> Nat]]
NoUsage == [s \in Scope |-> [c \in Counter |-> 0]]

\* "NONE" is a Job without a reservation.
Reservations == [state : {"NONE", "INTENT", "RESERVED", "RELEASED"}, demand : SUBSET Counter]
NoReservation == [state |-> "NONE", demand |-> {}]

Open(r) == r.state \in {"INTENT", "RESERVED"}

-----------------------------------------------------------------------------
(* Usage                                                                   *)

\* Usage.Add of a demand in the scopes ss.
AddUsage(usage, ss, demand) ==
    [s \in Scope |-> [c \in Counter |->
        usage[s][c] + IF s \in ss /\ c \in demand THEN 1 ELSE 0]]

\* Usage.Release fails rather than go below zero.
CanReleaseUsage(usage, ss, held) ==
    \A s \in ss, c \in held : usage[s][c] >= 1

ReleaseUsage(usage, ss, held) ==
    [s \in Scope |-> [c \in Counter |->
        usage[s][c] - IF s \in ss /\ c \in held THEN 1 ELSE 0]]

\* firstRejection finds nothing against the limits of the policy that the
\* request has composed: each counter is within its limit, those that are not
\* demanded included.
Fits(limit, usage, ss, demand) ==
    \A s \in ss, c \in Counter :
        usage[s][c] + (IF c \in demand THEN 1 ELSE 0) <= limit[s][c]

-----------------------------------------------------------------------------
(* Reservations                                                            *)

QueuedDemand(r) == {"queued"} \cup (r.demand \cap {"retained"})
ConcurrentDemand(r) == {"concurrent"} \cup (r.demand \cap {"retained"})
RetainedDemand(r) == r.demand \cap {"retained"}

\* What a reservation counts for: a released one only for the record that
\* is retained.
Held(r) == IF Open(r) THEN r.demand ELSE RetainedDemand(r)

\* What a submission reserves.
Intent == [state |-> "INTENT", demand |-> {"queued", "retained"}]
Reserved(r) == [state |-> "RESERVED", demand |-> ConcurrentDemand(r)]

\* Mutant: the state of the Job is written for that of the reservation.
RequeuedAsQueued(r) == [state |-> "QUEUED", demand |-> QueuedDemand(r)]
Requeued(r) == [state |-> "INTENT", demand |-> QueuedDemand(r)]
Released(r) == [r EXCEPT !.state = "RELEASED"]

\* The usage that admitJobQuotaTx decides from: without the intent.
BaseUsage(usage, ss, r) == ReleaseUsage(usage, ss, r.demand)

AdmissionFits(limit, usage, ss, r) ==
    Fits(limit, BaseUsage(usage, ss, r), ss, ConcurrentDemand(r))
AdmittedUsage(usage, ss, r) == AddUsage(BaseUsage(usage, ss, r), ss, ConcurrentDemand(r))

\* requeueJobQuotaTx: an intent again, whatever the limits say.
RequeuedUsage(usage, ss, r) == AddUsage(BaseUsage(usage, ss, r), ss, QueuedDemand(r))

\* Mutant: the end of a Job gives its retained place back too.
ReleasedEverything(usage, ss, r) == BaseUsage(usage, ss, r)

\* releaseJobQuotaTx on behalf of a Job that ended: its record is kept, and
\* counted as retained.
ReleasedUsage(usage, ss, r) == AddUsage(BaseUsage(usage, ss, r), ss, RetainedDemand(r))
=============================================================================

--------------------------- MODULE LeadershipLease --------------------------
(***************************************************************************)
(* The reconciliation lease row (leadership/leadership.go and              *)
(* adapters/persistence/leadership.go): one row, a holder, a fencing       *)
(* generation and an expiry.  This module has the row, the clock it is     *)
(* compared with and the decisions that are taken from it; the processes   *)
(* that use it are in LeadershipManager.  The upsert compares the texts of  *)
(* times (TextTime); a lease that was read is parsed and compared as a time. *)
(***************************************************************************)
EXTENDS TextTime, Integers, Sequences

CONSTANTS
    Holder,          \* worker processes; a restarted process is a new holder
    NoHolder,        \* stands for the empty holder of a missing row
    TTL,             \* lease duration, in clock ticks
    Skew,            \* how far each process's clock is ahead of real time
    MaxSkew,         \* largest skew between two processes
    MaxLag,          \* longest a statement may trail the clock reading in it
    MaxGeneration,   \* largest generation the column can hold (MaxInt64)
    MaxClock         \* bound of the model: time stops there

ASSUME LeaseAssumption ==
    /\ NoHolder \notin Holder
    /\ TTL \in Nat \ {0}
    /\ MaxSkew \in Nat
    /\ MaxLag \in Nat
    /\ MaxGeneration \in Nat \ {0}
    /\ MaxClock \in Nat
    /\ Skew \in [Holder -> 0..MaxSkew]

VARIABLES
    clock,           \* real time
    lease,           \* the row of table leadership_leases named "reconciler"
    grants           \* history: grants[g] is the holder that generation g went to

leaseVars == <<lease, grants>>

Leases == [holder : Holder \cup {NoHolder}, generation : Nat, expiresAt : Nat]

\* No row yet.
NoLease == [holder |-> NoHolder, generation |-> 0, expiresAt |-> 0]

\* time.Now() in the process h.
Now(h) == clock + Skew[h]

Active(l, now) == l.holder # NoHolder /\ l.generation # 0 /\ now < l.expiresAt

\* The authority a reconcile pass carries: its own generation, and the expiry
\* of the lease when it was issued (a later renewal does not extend it).
Authorities == [generation : Nat, validUntil : Nat]

NoAuthority == [generation |-> 0, validUntil |-> 0]

\* leadership.Authorize(authority of h, l, now) returns nil.
Authorized(h, authority, l, now) ==
    /\ authority.generation # 0
    /\ authority.generation = l.generation
    /\ l.holder = h
    /\ Active(l, now)
    /\ now < authority.validUntil

-----------------------------------------------------------------------------
LeaseInit ==
    /\ clock = 0
    /\ lease = NoLease
    /\ grants = <<>>

Tick ==
    /\ clock < MaxClock
    /\ clock' = clock + 1
    /\ UNCHANGED leaseVars

\* Mutant: the row is taken over whether it has expired or not.
AcquirableEarly(h, now) ==
    \/ lease = NoLease
    \/ lease.holder = h
    \/ lease.generation < MaxGeneration

\* The upsert changes the row: its own holder always, another holder only
\* once the text of the expiry is not after that of now, which can be up to a
\* second before the expiry.
Acquirable(h, now) ==
    \/ lease = NoLease
    \/ lease.holder = h
    \/ ~TextAfter(lease.expiresAt, now) /\ lease.generation < MaxGeneration

\* A holder that renews in time, by the texts, keeps its generation; every
\* other acquisition, its own after an expiry included, gets the next one.
Renews(h, now) == lease.holder = h /\ TextAfter(lease.expiresAt, now)

\* Mutant: a takeover keeps the generation of the row it takes.
AcquireKeepsGeneration(h, now) ==
    /\ Acquirable(h, now)
    /\ IF lease = NoLease
       THEN /\ lease' = [holder |-> h, generation |-> 1, expiresAt |-> now + TTL]
            /\ grants' = Append(grants, h)
       ELSE /\ lease' = [lease EXCEPT !.holder = h, !.expiresAt = now + TTL]
            /\ UNCHANGED grants

\* Mutant: the expiry is set on the wrong side of the clock.
AcquireInThePast(h, now) ==
    /\ Acquirable(h, now)
    /\ lease' = [holder |-> h, generation |-> lease.generation + 1, expiresAt |-> now - TTL]
    /\ grants' = Append(grants, h)

\* The upsert of AcquireLeadership, with the clock reading it carries.  The
\* statement of a process at the last generation fails on overflow.
AcquireLeadership(h, now) ==
    /\ Acquirable(h, now)
    /\ Renews(h, now) \/ lease.generation < MaxGeneration
    /\ IF Renews(h, now)
       THEN /\ lease' = [lease EXCEPT !.expiresAt = now + TTL]
            /\ UNCHANGED grants
       ELSE /\ lease' = [holder |-> h, generation |-> lease.generation + 1,
                         expiresAt |-> now + TTL]
            /\ grants' = Append(grants, h)

\* The statement returns no row: somebody else holds the lease, or the
\* generations are used up.
Exhausted(h, now) ==
    /\ lease.generation = MaxGeneration
    /\ ~Renews(h, now)
    /\ ~Active(lease, now)

\* Readings of the clock that a statement of h may carry when it executes.
Readings(h) ==
    (IF Now(h) > MaxLag THEN Now(h) - MaxLag ELSE 0) .. Now(h)
=============================================================================

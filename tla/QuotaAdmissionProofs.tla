------------------------ MODULE QuotaAdmissionProofs ------------------------
(***************************************************************************)
(* Proofs about quota, for any number of Jobs, scopes and requests in      *)
(* progress, and any policies that change: the types, that the counters    *)
(* are what the reservations hold, that only requests that fit the limits  *)
(* they go by raise them, and that what has ended holds nothing and takes  *)
(* nothing again.                                                          *)
(***************************************************************************)
EXTENDS QuotaAdmission, FiniteSetTheorems, TLAPS

-----------------------------------------------------------------------------
(* The inductive invariant                                                 *)

\* Only what was submitted has a reservation, an object in Kubernetes, a
\* request or a place in the pass.
SubmittedInv ==
    /\ \A j \in Job : ~Submitted(j) =>
         /\ reservation[j] = NoReservation
         /\ job[j].observed = "CREATED"
         /\ runtime[j] = "absent"
    /\ \A j \in Job : composed[j] # {} => ~Submitted(j)
    /\ \A r \in command : Submitted(r.job)
    /\ \A j \in pass.todo \cup pass.job : Submitted(j)

IInv == TypeOK /\ SubmittedInv /\ EndedHoldsNothing

-----------------------------------------------------------------------------
(* Lemmas about the ledger                                                 *)

LEMMA AddUsageIsUsage ==
    ASSUME NEW u \in Usages, NEW ss \in SUBSET Scope, NEW d \in SUBSET Counter
    PROVE  AddUsage(u, ss, d) \in Usages
BY DEF AddUsage, Usages

LEMMA ReleaseUsageIsUsage ==
    ASSUME NEW u \in Usages, NEW ss \in SUBSET Scope, NEW d \in SUBSET Counter,
           CanReleaseUsage(u, ss, d)
    PROVE  ReleaseUsage(u, ss, d) \in Usages
<1>1. ASSUME NEW s \in Scope, NEW c \in Counter
      PROVE  u[s][c] - (IF s \in ss /\ c \in d THEN 1 ELSE 0) \in Nat
  <2>1. u[s][c] \in Nat
    BY DEF Usages
  <2>2. QED
    BY <2>1 DEF CanReleaseUsage
<1>2. QED
  BY <1>1 DEF ReleaseUsage, Usages

\* The demands and the states a reservation goes through.
LEMMA ReservationTypes ==
    ASSUME NEW r \in Reservations
    PROVE  /\ r.demand \in SUBSET Counter
           /\ QueuedDemand(r) \in SUBSET Counter
           /\ ConcurrentDemand(r) \in SUBSET Counter
           /\ RetainedDemand(r) \in SUBSET Counter
           /\ Held(r) \in SUBSET Counter
           /\ Reserved(r) \in Reservations
           /\ Requeued(r) \in Reservations
           /\ Released(r) \in Reservations
           /\ [r EXCEPT !.demand = @ \ {"retained"}] \in Reservations
BY DEF Reservations, QueuedDemand, ConcurrentDemand, RetainedDemand, Held, Reserved,
       Requeued, Released, Counter

LEMMA IntentIsReservation ==
    /\ Intent \in Reservations
    /\ Intent.demand \in SUBSET Counter
    /\ NoReservation \in Reservations
BY DEF Intent, NoReservation, Reservations, Counter

-----------------------------------------------------------------------------
(* The five ways a reservation changes                                     *)

\* It is taken with a submission.
Takes(j) ==
    /\ reservation[j] = NoReservation
    /\ \E limit \in composed[j] : Fits(limit, usage, ScopesOf[j], Intent.demand)
    /\ usage' = AddUsage(usage, ScopesOf[j], Intent.demand)
    /\ reservation' = [reservation EXCEPT ![j] = Intent]

\* It ends with the Job.
GivesBack(j) ==
    /\ Open(reservation[j])
    /\ CanReleaseUsage(usage, ScopesOf[j], reservation[j].demand)
    /\ usage' = ReleasedUsage(usage, ScopesOf[j], reservation[j])
    /\ reservation' = [reservation EXCEPT ![j] = Released(@)]

\* The Job is admitted.
Admits(j) ==
    /\ reservation[j].state = "INTENT"
    /\ CanReleaseUsage(usage, ScopesOf[j], reservation[j].demand)
    /\ \E p \in pass.policy :
         /\ j \in pass.job /\ p.version = policy.version
         /\ AdmissionFits(p.limit, usage, ScopesOf[j], reservation[j])
    /\ usage' = AdmittedUsage(usage, ScopesOf[j], reservation[j])
    /\ reservation' = [reservation EXCEPT ![j] = Reserved(@)]

\* The admission is abandoned.
Requeues(j) ==
    /\ reservation[j].state = "RESERVED"
    /\ CanReleaseUsage(usage, ScopesOf[j], reservation[j].demand)
    /\ usage' = RequeuedUsage(usage, ScopesOf[j], reservation[j])
    /\ reservation' = [reservation EXCEPT ![j] = Requeued(@)]

\* The record is archived.
Forgets(j) ==
    /\ reservation[j].state = "RELEASED"
    /\ CanReleaseUsage(usage, ScopesOf[j], RetainedDemand(reservation[j]))
    /\ usage' = ReleaseUsage(usage, ScopesOf[j], RetainedDemand(reservation[j]))
    /\ reservation' = [reservation EXCEPT ![j].demand = @ \ {"retained"}]

QuotaStep(j) == Takes(j) \/ GivesBack(j) \/ Admits(j) \/ Requeues(j) \/ Forgets(j)

\* Every action leaves quota alone or takes one of these steps for one Job.
LEMMA QuotaSteps ==
    ASSUME TypeOK, SubmittedInv, Next
    PROVE  UNCHANGED quota \/ \E j \in Job : QuotaStep(j)
<1>1. ASSUME NEW j \in Job, ReleaseQuota(j) PROVE UNCHANGED quota \/ QuotaStep(j)
  BY <1>1 DEF ReleaseQuota, QuotaStep, GivesBack
<1>2. ASSUME NEW j \in Job, NEW st \in {"PAUSED", "QUEUED", "RUNNING", "FINISHED", "CANCELLED"},
             SetObserved(j, st)
      PROVE  UNCHANGED quota \/ QuotaStep(j)
  BY <1>1, <1>2 DEF SetObserved
<1>3. ASSUME NEW j \in Job, Submit(j) PROVE QuotaStep(j)
  BY <1>3 DEF Submit, QuotaStep, Takes, SubmittedInv
<1>4. ASSUME NEW j \in Job, WriteArchive(j) PROVE UNCHANGED quota \/ QuotaStep(j)
  BY <1>4 DEF WriteArchive, QuotaStep, Forgets
<1>5. ASSUME NEW j \in Job, NEW target \in Targets, WriteCommand(j, target)
      PROVE  UNCHANGED quota \/ QuotaStep(j)
  BY <1>1, <1>5 DEF WriteCommand
<1>6. ASSUME NEW j \in Job, Observe(j) PROVE UNCHANGED quota \/ QuotaStep(j)
  <2>1. Shown(runtime[j]) \subseteq {"PAUSED", "QUEUED", "RUNNING", "FINISHED"}
    BY DEF Shown
  <2>2. QED
    BY <1>2, <1>6, <2>1 DEF Observe
<1>7. ASSUME NEW j \in Job, ObserveAbsence(j) PROVE UNCHANGED quota \/ QuotaStep(j)
  BY <1>2, <1>7 DEF ObserveAbsence
<1>8. ASSUME NEW j \in Job, ApplyDelete(j) PROVE UNCHANGED quota \/ QuotaStep(j)
  BY <1>2, <1>8 DEF ApplyDelete, quota
<1>9. ASSUME NEW j \in Job, Commit(j) PROVE UNCHANGED quota \/ QuotaStep(j)
  BY <1>9 DEF Commit, Current, QuotaStep, Admits
<1>10. ASSUME NEW j \in Job, Create(j) PROVE UNCHANGED quota \/ QuotaStep(j)
  BY <1>2, <1>10 DEF Create, quota
<1>11. ASSUME NEW j \in Job, Abandon(j) PROVE UNCHANGED quota \/ QuotaStep(j)
  BY <1>11 DEF Abandon, QuotaStep, Requeues
<1>12. ASSUME NEW j \in Job,
             \/ Compose(j) \/ Reject(j)
             \/ \E target \in Targets : ReadCommand(j, target)
             \/ ApplyPause(j) \/ Choose(j) \/ CommitConflicts(j)
             \/ LegacyTake(j) \/ LegacySkip(j) \/ Resume(j)
             \/ AdmitFails(j) \/ AdmitUncertain(j)
             \/ ClaimExpires(j) \/ Finish(j) \/ Vanish(j)
       PROVE UNCHANGED quota
  BY <1>12 DEF Compose, Reject, ReadCommand, ApplyPause, Choose, CommitConflicts, LegacyTake,
               LegacySkip, Resume, AdmitFails, AdmitUncertain, ClaimExpires, Finish, Vanish
<1>13. BeginPass \/ EndPass \/ LegacyClaim \/ UpdatePolicy \/ AddPolicy => UNCHANGED quota
  BY DEF BeginPass, EndPass, LegacyClaim, UpdatePolicy, AddPolicy
<1>14. QED
  BY <1>3, <1>4, <1>5, <1>6, <1>7, <1>8, <1>9, <1>10, <1>11, <1>12, <1>13 DEF Next

-----------------------------------------------------------------------------
(* Counters                                                                *)

Unit(s, j, c, demand) == IF s \in ScopesOf[j] /\ c \in demand THEN 1 ELSE 0

\* The Jobs that hold a unit of c in s, with the reservations of res.
Holders(res, s, c) == {j \in Job : s \in ScopesOf[j] /\ c \in Held(res[j])}

\* A set of Jobs gains or loses at most the one whose reservation changes.
LEMMA HoldersChange ==
    ASSUME NEW res \in [Job -> Reservations], NEW j \in Job, NEW r \in Reservations,
           NEW s \in Scope, NEW c \in Counter
    PROVE  Cardinality(Holders([res EXCEPT ![j] = r], s, c))
             = Cardinality(Holders(res, s, c)) - Unit(s, j, c, Held(res[j]))
               + Unit(s, j, c, Held(r))
<1> DEFINE A == Holders(res, s, c)
           B == Holders([res EXCEPT ![j] = r], s, c)
           rest == A \ {j}
<1>1. IsFiniteSet(A) /\ IsFiniteSet(rest)
  <2>1. A \subseteq Job /\ rest \subseteq Job
    BY DEF Holders
  <2>2. QED
    BY <2>1, FS_Subset, LedgerAssumption
<1>2. Cardinality(rest) \in Nat
  BY <1>1, FS_CardinalityType
<1>3. Cardinality(A) = Cardinality(rest) + Unit(s, j, c, Held(res[j]))
  <2>1. CASE j \in A
    <3>1. Cardinality(rest) = Cardinality(A) - 1 /\ Cardinality(A) \in Nat
      BY <1>1, <2>1, FS_RemoveElement, FS_CardinalityType
    <3>2. Unit(s, j, c, Held(res[j])) = 1
      BY <2>1 DEF Unit, Holders
    <3>3. QED
      BY <3>1, <3>2
  <2>2. CASE j \notin A
    <3>1. rest = A /\ Unit(s, j, c, Held(res[j])) = 0
      BY <2>2 DEF Unit, Holders
    <3>2. QED
      BY <1>2, <3>1
  <2>3. QED
    BY <2>1, <2>2
<1>4. Cardinality(B) = Cardinality(rest) + Unit(s, j, c, Held(r))
  <2>1. CASE s \in ScopesOf[j] /\ c \in Held(r)
    <3>1. B = rest \cup {j} /\ j \notin rest
      BY <2>1 DEF Holders
    <3>2. Cardinality(B) = Cardinality(rest) + 1
      BY <1>1, <3>1, FS_AddElement
    <3>3. QED
      BY <2>1, <3>2 DEF Unit
  <2>2. CASE ~(s \in ScopesOf[j] /\ c \in Held(r))
    <3>1. B = rest
      BY <2>2 DEF Holders
    <3>2. Unit(s, j, c, Held(r)) = 0
      BY <2>2 DEF Unit
    <3>3. Cardinality(B) = Cardinality(rest)
      BY <3>1, Zenon
    <3>4. QED
      BY <1>2, <3>2, <3>3
  <2>3. QED
    BY <2>1, <2>2
<1>5. Unit(s, j, c, Held(res[j])) \in Nat /\ Unit(s, j, c, Held(r)) \in Nat
  BY DEF Unit
<1>6. QED
  BY <1>2, <1>3, <1>4, <1>5

\* A step of the ledger: one reservation becomes r, and each counter moves by
\* the difference of what is held.
Exchanges(j, r) ==
    /\ r \in Reservations
    /\ reservation' = [reservation EXCEPT ![j] = r]
    /\ \A s \in Scope, c \in Counter :
         usage'[s][c] = usage[s][c] - Unit(s, j, c, Held(reservation[j])) + Unit(s, j, c, Held(r))

LEMMA AddAt ==
    ASSUME NEW u \in Usages, NEW j \in Job, NEW d, NEW s \in Scope, NEW c \in Counter
    PROVE  /\ AddUsage(u, ScopesOf[j], d)[s][c] = u[s][c] + Unit(s, j, c, d)
           /\ ReleaseUsage(u, ScopesOf[j], d)[s][c] = u[s][c] - Unit(s, j, c, d)
           /\ u[s][c] \in Nat
BY DEF AddUsage, ReleaseUsage, Unit, Usages

\* Giving back d and taking e, in a usage that can give d back.
LEMMA SwapAt ==
    ASSUME NEW u \in Usages, NEW j \in Job,
           NEW d \in SUBSET Counter, NEW e \in SUBSET Counter,
           CanReleaseUsage(u, ScopesOf[j], d)
    PROVE  /\ AddUsage(ReleaseUsage(u, ScopesOf[j], d), ScopesOf[j], e) \in Usages
           /\ \A s \in Scope, c \in Counter :
                AddUsage(ReleaseUsage(u, ScopesOf[j], d), ScopesOf[j], e)[s][c]
                  = u[s][c] - Unit(s, j, c, d) + Unit(s, j, c, e)
<1>1. ScopesOf[j] \in SUBSET Scope
  BY LedgerAssumption
<1>2. ReleaseUsage(u, ScopesOf[j], d) \in Usages
  BY <1>1, ReleaseUsageIsUsage
<1>3. AddUsage(ReleaseUsage(u, ScopesOf[j], d), ScopesOf[j], e) \in Usages
  BY <1>1, <1>2, AddUsageIsUsage
<1>4. ASSUME NEW s \in Scope, NEW c \in Counter
      PROVE  AddUsage(ReleaseUsage(u, ScopesOf[j], d), ScopesOf[j], e)[s][c]
               = u[s][c] - Unit(s, j, c, d) + Unit(s, j, c, e)
  BY <1>2, AddAt
<1>5. QED
  BY <1>3, <1>4

\* What is held before and after each of the five steps.
LEMMA HeldAfter ==
    ASSUME NEW r \in Reservations
    PROVE  /\ Open(r) => Held(r) = r.demand
           /\ r.state = "RELEASED" => Held(r) = RetainedDemand(r)
           /\ Held(NoReservation) = {} /\ Held(Intent) = Intent.demand
           /\ Held(Released(r)) = RetainedDemand(r)
           /\ Held(Reserved(r)) = ConcurrentDemand(r)
           /\ Held(Requeued(r)) = QueuedDemand(r)
           /\ r.state = "RELEASED" => Held([r EXCEPT !.demand = @ \ {"retained"}]) = {}
BY DEF Reservations, Held, Open, NoReservation, Intent, Released, Reserved, Requeued,
       RetainedDemand

LEMMA StepExchanges ==
    ASSUME TypeOK, NEW j \in Job, QuotaStep(j)
    PROVE  usage' \in Usages /\ \E r \in Reservations : Exchanges(j, r)
<1> DEFINE r == reservation[j]
<1>1. /\ usage \in Usages /\ r \in Reservations
      /\ ScopesOf[j] \in SUBSET Scope /\ reservation \in [Job -> Reservations]
  BY LedgerAssumption DEF TypeOK
<1>2. CASE Takes(j)
  <2>1. usage' \in Usages
    BY <1>1, <1>2, AddUsageIsUsage, IntentIsReservation DEF Takes
  <2>2. ASSUME NEW s \in Scope, NEW c \in Counter
        PROVE  usage'[s][c] = usage[s][c] - Unit(s, j, c, Held(r)) + Unit(s, j, c, Held(Intent))
    <3>1. usage'[s][c] = usage[s][c] + Unit(s, j, c, Intent.demand) /\ usage[s][c] \in Nat
      BY <1>1, <1>2, AddAt DEF Takes
    <3>2. Held(r) = {} /\ Held(Intent) = Intent.demand
      BY <1>1, <1>2, HeldAfter DEF Takes
    <3>3. Unit(s, j, c, Held(r)) = 0 /\ Unit(s, j, c, Intent.demand) \in Nat
      BY <3>2 DEF Unit
    <3>4. QED
      BY <3>1, <3>2, <3>3
  <2>3. Exchanges(j, Intent)
    BY <1>2, <2>2, IntentIsReservation DEF Takes, Exchanges
  <2>4. QED
    BY <2>1, <2>3, IntentIsReservation
<1>3. CASE GivesBack(j)
  <2>1. Held(r) = r.demand /\ Held(Released(r)) = RetainedDemand(r)
    BY <1>1, <1>3, HeldAfter DEF GivesBack
  <2>2. /\ CanReleaseUsage(usage, ScopesOf[j], r.demand)
        /\ usage' = AddUsage(ReleaseUsage(usage, ScopesOf[j], r.demand), ScopesOf[j],
                             RetainedDemand(r))
        /\ reservation' = [reservation EXCEPT ![j] = Released(r)]
    BY <1>3 DEF GivesBack, ReleasedUsage, BaseUsage
  <2>3. r.demand \in SUBSET Counter /\ RetainedDemand(r) \in SUBSET Counter
        /\ Released(r) \in Reservations
    BY <1>1, ReservationTypes
  <2>4. /\ usage' \in Usages
        /\ \A s \in Scope, c \in Counter :
             usage'[s][c] = usage[s][c] - Unit(s, j, c, r.demand)
                              + Unit(s, j, c, RetainedDemand(r))
    BY <1>1, <2>2, <2>3, SwapAt
  <2>5. Exchanges(j, Released(r))
    BY <2>1, <2>2, <2>3, <2>4 DEF Exchanges
  <2>6. QED
    BY <2>3, <2>4, <2>5
<1>4. CASE Admits(j)
  <2>1. Held(r) = r.demand /\ Held(Reserved(r)) = ConcurrentDemand(r)
    BY <1>1, <1>4, HeldAfter DEF Admits, Open
  <2>2. /\ CanReleaseUsage(usage, ScopesOf[j], r.demand)
        /\ usage' = AddUsage(ReleaseUsage(usage, ScopesOf[j], r.demand), ScopesOf[j],
                             ConcurrentDemand(r))
        /\ reservation' = [reservation EXCEPT ![j] = Reserved(r)]
    BY <1>4 DEF Admits, AdmittedUsage, BaseUsage
  <2>3. r.demand \in SUBSET Counter /\ ConcurrentDemand(r) \in SUBSET Counter
        /\ Reserved(r) \in Reservations
    BY <1>1, ReservationTypes
  <2>4. /\ usage' \in Usages
        /\ \A s \in Scope, c \in Counter :
             usage'[s][c] = usage[s][c] - Unit(s, j, c, r.demand)
                              + Unit(s, j, c, ConcurrentDemand(r))
    BY <1>1, <2>2, <2>3, SwapAt
  <2>5. Exchanges(j, Reserved(r))
    BY <2>1, <2>2, <2>3, <2>4 DEF Exchanges
  <2>6. QED
    BY <2>3, <2>4, <2>5
<1>5. CASE Requeues(j)
  <2>1. Held(r) = r.demand /\ Held(Requeued(r)) = QueuedDemand(r)
    BY <1>1, <1>5, HeldAfter DEF Requeues, Open
  <2>2. /\ CanReleaseUsage(usage, ScopesOf[j], r.demand)
        /\ usage' = AddUsage(ReleaseUsage(usage, ScopesOf[j], r.demand), ScopesOf[j],
                             QueuedDemand(r))
        /\ reservation' = [reservation EXCEPT ![j] = Requeued(r)]
    BY <1>5 DEF Requeues, RequeuedUsage, BaseUsage
  <2>3. r.demand \in SUBSET Counter /\ QueuedDemand(r) \in SUBSET Counter
        /\ Requeued(r) \in Reservations
    BY <1>1, ReservationTypes
  <2>4. /\ usage' \in Usages
        /\ \A s \in Scope, c \in Counter :
             usage'[s][c] = usage[s][c] - Unit(s, j, c, r.demand)
                              + Unit(s, j, c, QueuedDemand(r))
    BY <1>1, <2>2, <2>3, SwapAt
  <2>5. Exchanges(j, Requeued(r))
    BY <2>1, <2>2, <2>3, <2>4 DEF Exchanges
  <2>6. QED
    BY <2>3, <2>4, <2>5
<1>6. CASE Forgets(j)
  <2> DEFINE f == [r EXCEPT !.demand = @ \ {"retained"}]
  <2>1. Held(r) = RetainedDemand(r) /\ Held(f) = {} /\ f \in Reservations
    BY <1>1, <1>6, HeldAfter, ReservationTypes DEF Forgets
  <2>2. usage' \in Usages
    BY <1>1, <1>6, ReleaseUsageIsUsage, ReservationTypes DEF Forgets
  <2>3. ASSUME NEW s \in Scope, NEW c \in Counter
        PROVE  usage'[s][c] = usage[s][c] - Unit(s, j, c, Held(r)) + Unit(s, j, c, Held(f))
    <3>1. usage'[s][c] = usage[s][c] - Unit(s, j, c, Held(r)) /\ usage[s][c] \in Nat
      BY <1>1, <1>6, <2>1, AddAt DEF Forgets
    <3>2. Unit(s, j, c, Held(f)) = 0 /\ Unit(s, j, c, Held(r)) \in Nat
      BY <2>1 DEF Unit
    <3>3. QED
      BY <3>1, <3>2
  <2>4. reservation' = [reservation EXCEPT ![j] = f]
    BY <1>6 DEF Forgets
  <2>5. Exchanges(j, f)
    BY <2>1, <2>3, <2>4 DEF Exchanges
  <2>6. QED
    BY <2>1, <2>2, <2>5
<1>7. QED
  BY <1>2, <1>3, <1>4, <1>5, <1>6 DEF QuotaStep

LEMMA HeldNext ==
    ASSUME TypeOK, SubmittedInv, Next, UsageIsHeld
    PROVE  UsageIsHeld'
<1>1. CASE UNCHANGED quota
  BY <1>1 DEF quota, UsageIsHeld
<1>2. ASSUME NEW j \in Job, QuotaStep(j) PROVE UsageIsHeld'
  <2>1. PICK r \in Reservations : Exchanges(j, r)
    BY <1>2, StepExchanges
  <2>2. reservation \in [Job -> Reservations]
    BY DEF TypeOK
  <2>3. ASSUME NEW s \in Scope, NEW c \in Counter
        PROVE  usage'[s][c] = Cardinality(Holders(reservation', s, c))
    <3>1. usage[s][c] = Cardinality(Holders(reservation, s, c))
      BY DEF UsageIsHeld, Holders
    <3>2. usage'[s][c] = Cardinality(Holders(reservation, s, c))
                           - Unit(s, j, c, Held(reservation[j])) + Unit(s, j, c, Held(r))
      BY <2>1, <3>1 DEF Exchanges
    <3>3. reservation' = [reservation EXCEPT ![j] = r]
      BY <2>1 DEF Exchanges
    <3>4. Cardinality(Holders([reservation EXCEPT ![j] = r], s, c))
             = Cardinality(Holders(reservation, s, c))
               - Unit(s, j, c, Held(reservation[j])) + Unit(s, j, c, Held(r))
      BY <2>2, HoldersChange
    <3>5. QED
      BY <3>2, <3>3, <3>4, Zenon
  <2>4. QED
    BY <2>3 DEF UsageIsHeld, Holders
<1>3. QED
  BY <1>1, <1>2, QuotaSteps

-----------------------------------------------------------------------------
(* Limits                                                                  *)

\* A demand that fits leaves every counter within its limit.
LEMMA FitsAt ==
    ASSUME NEW limit, NEW u, NEW j \in Job, NEW d, Fits(limit, u, ScopesOf[j], d),
           NEW s \in ScopesOf[j], NEW c \in Counter
    PROVE  u[s][c] + Unit(s, j, c, d) <= limit[s][c]
BY DEF Fits, Unit

\* A request of Job j that changes its reservation, by a limit that leaves room.
Allowed(s, c) ==
    \E j \in Job : \E limit \in Decides(j) :
        reservation'[j] # reservation[j] /\ usage'[s][c] <= limit[s][c]

Raised(s, c) == usage'[s][c] > usage[s][c]

\* What is taken with a submission, or by an admission, fits.
LEMMA TakenFits ==
    ASSUME TypeOK, NEW j \in Job, NEW s \in ScopesOf[j], NEW c \in Counter, Takes(j)
    PROVE  Allowed(s, c)
<1>1. usage \in Usages /\ s \in Scope /\ reservation \in [Job -> Reservations]
  BY LedgerAssumption DEF TypeOK
<1>2. PICK limit \in composed[j] : Fits(limit, usage, ScopesOf[j], Intent.demand)
  BY DEF Takes
<1>3. usage'[s][c] = usage[s][c] + Unit(s, j, c, Intent.demand)
  BY <1>1, AddAt DEF Takes
<1>4. usage'[s][c] <= limit[s][c]
  BY <1>2, <1>3, FitsAt
<1>5. reservation[j] = NoReservation /\ reservation'[j] = Intent
  BY <1>1 DEF Takes
<1>6. reservation'[j] # reservation[j]
  BY <1>5 DEF NoReservation, Intent
<1>7. QED
  BY <1>2, <1>4, <1>6 DEF Allowed, Decides

LEMMA AdmittedFits ==
    ASSUME TypeOK, NEW j \in Job, NEW s \in ScopesOf[j], NEW c \in Counter, Admits(j)
    PROVE  Allowed(s, c)
<1> DEFINE r == reservation[j]
           b == BaseUsage(usage, ScopesOf[j], r)
<1>1. /\ usage \in Usages /\ r \in Reservations /\ s \in Scope
      /\ ScopesOf[j] \in SUBSET Scope /\ reservation \in [Job -> Reservations]
  BY LedgerAssumption DEF TypeOK
<1>2. PICK p \in pass.policy :
         /\ j \in pass.job /\ p.version = policy.version
         /\ AdmissionFits(p.limit, usage, ScopesOf[j], r)
  BY DEF Admits
<1>3. b \in Usages
  BY <1>1, ReservationTypes, ReleaseUsageIsUsage DEF Admits, BaseUsage
<1>4. usage'[s][c] = b[s][c] + Unit(s, j, c, ConcurrentDemand(r))
  BY <1>1, <1>3, AddAt DEF Admits, AdmittedUsage
<1>5. Fits(p.limit, b, ScopesOf[j], ConcurrentDemand(r))
  BY <1>2 DEF AdmissionFits
<1>6. usage'[s][c] <= p.limit[s][c]
  BY <1>4, <1>5, FitsAt
<1>7. r.state = "INTENT" /\ reservation'[j].state = "RESERVED"
  BY <1>1 DEF Admits, Reserved
<1>8. p.limit \in Decides(j) /\ reservation'[j] # r
  BY <1>2, <1>7 DEF Decides
<1>9. QED
  BY <1>6, <1>8 DEF Allowed

\* The other three ways give back what they take, and more.
LEMMA ReturnedIsLess ==
    ASSUME TypeOK, NEW j \in Job, NEW s \in ScopesOf[j], NEW c \in {"concurrent", "retained"},
           GivesBack(j) \/ Requeues(j) \/ Forgets(j)
    PROVE  ~Raised(s, c)
<1> DEFINE r == reservation[j]
<1>1. /\ usage \in Usages /\ r \in Reservations /\ c \in Counter /\ s \in Scope
      /\ ScopesOf[j] \in SUBSET Scope
  BY LedgerAssumption DEF TypeOK, Counter
<1>2. /\ usage[s][c] \in Nat /\ r.demand \in SUBSET Counter
      /\ QueuedDemand(r) \in SUBSET Counter
      /\ RetainedDemand(r) \in SUBSET Counter
  BY <1>1, ReservationTypes DEF Usages
<1>3. CASE GivesBack(j)
  <2>1. usage'[s][c] = usage[s][c] - Unit(s, j, c, r.demand) + Unit(s, j, c, RetainedDemand(r))
    BY <1>1, <1>2, <1>3, SwapAt DEF GivesBack, ReleasedUsage, BaseUsage
  <2>2. Unit(s, j, c, RetainedDemand(r)) <= Unit(s, j, c, r.demand)
        /\ Unit(s, j, c, RetainedDemand(r)) \in Nat /\ Unit(s, j, c, r.demand) \in Nat
    BY DEF Unit, RetainedDemand
  <2>3. QED
    BY <1>2, <2>1, <2>2 DEF Raised
<1>4. CASE Requeues(j)
  <2>1. usage'[s][c] = usage[s][c] - Unit(s, j, c, r.demand) + Unit(s, j, c, QueuedDemand(r))
    BY <1>1, <1>2, <1>4, SwapAt DEF Requeues, RequeuedUsage, BaseUsage
  <2>2. Unit(s, j, c, QueuedDemand(r)) <= Unit(s, j, c, r.demand)
        /\ Unit(s, j, c, QueuedDemand(r)) \in Nat /\ Unit(s, j, c, r.demand) \in Nat
    BY DEF Unit, QueuedDemand
  <2>3. QED
    BY <1>2, <2>1, <2>2 DEF Raised
<1>5. CASE Forgets(j)
  <2>1. usage'[s][c] = usage[s][c] - Unit(s, j, c, RetainedDemand(r))
    BY <1>1, <1>5, AddAt DEF Forgets
  <2>2. Unit(s, j, c, RetainedDemand(r)) \in Nat
    BY DEF Unit
  <2>3. QED
    BY <1>2, <2>1, <2>2 DEF Raised
<1>6. QED
  BY <1>3, <1>4, <1>5

LEMMA LimitsStep ==
    ASSUME TypeOK, NEW j \in Job, QuotaStep(j),
           NEW s \in Scope, NEW c \in {"concurrent", "retained"}, Raised(s, c)
    PROVE  Allowed(s, c)
<1>1. usage \in Usages /\ usage[s][c] \in Nat /\ c \in Counter
  BY DEF TypeOK, Usages, Counter
<1>2. CASE s \notin ScopesOf[j]
  <2>1. ASSUME NEW d PROVE Unit(s, j, c, d) = 0
    BY <1>2 DEF Unit
  <2>2. PICK q \in Reservations : Exchanges(j, q)
    BY StepExchanges
  <2>3. usage'[s][c] = usage[s][c]
    BY <1>1, <2>1, <2>2 DEF Exchanges
  <2>4. QED
    BY <1>1, <2>3 DEF Raised
<1>3. CASE s \in ScopesOf[j] /\ Takes(j)
  BY <1>1, <1>3, TakenFits
<1>4. CASE s \in ScopesOf[j] /\ Admits(j)
  BY <1>1, <1>4, AdmittedFits
<1>5. CASE s \in ScopesOf[j] /\ (GivesBack(j) \/ Requeues(j) \/ Forgets(j))
  BY <1>5, ReturnedIsLess
<1>6. QED
  BY <1>2, <1>3, <1>4, <1>5 DEF QuotaStep

-----------------------------------------------------------------------------
(* Types                                                                   *)

\* The types of everything but quota.
RestTyped ==
    /\ job \in [Job -> Jobs]
    /\ runtime \in [Job -> Runtimes]
    /\ claim \subseteq Job
    /\ command \subseteq Commands
    /\ policy \in Policies
    /\ composed \in [Job -> SUBSET Limits]
    /\ pass \in Passes

ObservedStates == {"PAUSED", "QUEUED", "RUNNING", "FINISHED", "CANCELLED"}

LEMMA ShownStates == \A r : Shown(r) \subseteq ObservedStates
BY DEF Shown, ObservedStates

LEMMA SetObservedTyped ==
    ASSUME RestTyped, NEW j \in Job, NEW st \in ObservedStates, SetObserved(j, st)
    PROVE  job' \in [Job -> Jobs]
BY DEF RestTyped, SetObserved, Jobs, ObservedStates

LEMMA RestNext ==
    ASSUME RestTyped, Next
    PROVE  RestTyped'
<1> USE DEF RestTyped, policies
<1>1. ASSUME NEW j \in Job, Submit(j) PROVE RestTyped'
  BY <1>1 DEF Submit, Jobs
<1>2. ASSUME NEW j \in Job, WriteArchive(j) PROVE RestTyped'
  <2>1. job' \in [Job -> Jobs]
    BY ZenonT(60), <1>2 DEF WriteArchive, Jobs
  <2>2. runtime' \in [Job -> Runtimes] /\ claim' \subseteq Job
        /\ command' \subseteq Commands /\ pass' \in Passes
        /\ policy' \in Policies /\ composed' \in [Job -> SUBSET Limits]
    BY <1>2 DEF WriteArchive
  <2>3. QED
    BY <2>1, <2>2
<1>3. ASSUME NEW j \in Job, NEW target \in Targets, ReadCommand(j, target) PROVE RestTyped'
  BY <1>3 DEF ReadCommand, Commands
<1>4. ASSUME NEW j \in Job, NEW target \in Targets, WriteCommand(j, target) PROVE RestTyped'
  BY <1>4 DEF WriteCommand, Jobs, Targets
<1>5. ASSUME NEW j \in Job, Observe(j) PROVE RestTyped'
  BY <1>5, ShownStates, SetObservedTyped DEF Observe
<1>6. ASSUME NEW j \in Job, ObserveAbsence(j) PROVE RestTyped'
  <2>1. ASSUME SetObserved(j, "CANCELLED") PROVE job' \in [Job -> Jobs]
    BY <2>1, SetObservedTyped DEF ObservedStates
  <2>2. ASSUME job' = [job EXCEPT ![j].missing = TRUE] PROVE job' \in [Job -> Jobs]
    BY <2>2 DEF Jobs
  <2>3. QED
    BY <1>6, <2>1, <2>2 DEF ObserveAbsence
<1>7. ASSUME NEW j \in Job, ApplyPause(j) PROVE RestTyped'
  BY <1>7 DEF ApplyPause, Runtimes
<1>8. ASSUME NEW j \in Job, ApplyDelete(j) PROVE RestTyped'
  <2>1. ASSUME SetObserved(j, "CANCELLED") PROVE job' \in [Job -> Jobs]
    BY <2>1, SetObservedTyped DEF ObservedStates
  <2>2. QED
    BY <1>8, <2>1 DEF ApplyDelete, Runtimes
<1>9. ASSUME NEW j \in Job, Commit(j) PROVE RestTyped'
  <2>1. pass' \in Passes
    <3>1. Admitted(j) \in Passes /\ [Chosen EXCEPT !.todo = @ \ {j}] \in Passes
      BY <1>9 DEF Commit, Admitted, Chosen, Passes
    <3>2. QED
      BY <1>9, <3>1 DEF Commit
  <2>2. QED
    BY <1>9, <2>1 DEF Commit
<1>10. ASSUME NEW j \in Job, LegacyTake(j) \/ LegacySkip(j) PROVE RestTyped'
  <2>1. CASE LegacyTake(j)
    BY <2>1 DEF LegacyTake, Passes
  <2>2. CASE LegacySkip(j)
    BY <2>2 DEF LegacySkip, Passes
  <2>3. QED
    BY <1>10, <2>1, <2>2
<1>11. ASSUME NEW j \in Job, Create(j) PROVE RestTyped'
  <2>1. ASSUME SetObserved(j, "PAUSED") PROVE job' \in [Job -> Jobs]
    BY <2>1, SetObservedTyped DEF ObservedStates
  <2>2. QED
    BY <1>11, <2>1 DEF Create, Runtimes, Passes
<1>12. ASSUME NEW j \in Job, Resume(j) PROVE RestTyped'
  BY <1>12 DEF Resume, Chosen, Runtimes, Passes
<1>13. ASSUME NEW j \in Job, AdmitFails(j) PROVE RestTyped'
  <2>1. runtime' \in [Job -> Runtimes]
    BY <1>13 DEF AdmitFails, Runtimes
  <2>2. job' \in [Job -> Jobs] /\ claim' \subseteq Job
    BY ZenonT(60), <1>13 DEF AdmitFails, Jobs
  <2>3. /\ pass' \in Passes /\ command' \subseteq Commands
        /\ policy' \in Policies /\ composed' \in [Job -> SUBSET Limits]
    BY <1>13 DEF AdmitFails, Chosen, Passes
  <2>4. QED
    BY <2>1, <2>2, <2>3
<1>14. ASSUME NEW j \in Job, AdmitUncertain(j) PROVE RestTyped'
  BY <1>14 DEF AdmitUncertain, Idle, Runtimes, Passes
<1>15. ASSUME NEW j \in Job, Abandon(j) PROVE RestTyped'
  BY <1>15 DEF Abandon, Chosen, Passes
<1>16. ASSUME NEW j \in Job, ClaimExpires(j) \/ Finish(j) \/ Vanish(j) PROVE RestTyped'
  BY <1>16 DEF ClaimExpires, Finish, Vanish, Runtimes
<1>17. CASE BeginPass
  BY <1>17 DEF BeginPass, Idle, Passes
<1>18. CASE EndPass \/ LegacyClaim
  <2>1. CASE EndPass
    BY <2>1 DEF EndPass, Idle, Passes
  <2>2. CASE LegacyClaim
    BY <2>2 DEF LegacyClaim, Passes
  <2>3. QED
    BY <1>18, <2>1, <2>2
<1>19. ASSUME NEW j \in Job, Compose(j) \/ Reject(j) PROVE RestTyped'
  <2>1. CASE Compose(j)
    BY <2>1 DEF Compose, Policies
  <2>2. CASE Reject(j)
    BY <2>2 DEF Reject
  <2>3. QED
    BY <1>19, <2>1, <2>2
<1>20. ASSUME NEW j \in Job, Choose(j) \/ CommitConflicts(j) PROVE RestTyped'
  <2>1. CASE Choose(j)
    BY <2>1 DEF Choose, Passes
  <2>2. CASE CommitConflicts(j)
    BY <2>2 DEF CommitConflicts, Chosen, Passes
  <2>3. QED
    BY <1>20, <2>1, <2>2
<1>21. CASE UpdatePolicy
  BY <1>21 DEF UpdatePolicy, Policies
<1>22. CASE AddPolicy
  BY <1>22 DEF AddPolicy, Policies
<1>23. QED
  BY <1>1, <1>2, <1>3, <1>4, <1>5, <1>6, <1>7, <1>8, <1>9, <1>10, <1>11, <1>12, <1>13,
     <1>14, <1>15, <1>16, <1>17, <1>18, <1>19, <1>20, <1>21, <1>22 DEF Next

LEMMA TypesNext ==
    ASSUME TypeOK, SubmittedInv, Next
    PROVE  TypeOK'
<1>1. RestTyped'
  BY RestNext DEF TypeOK, RestTyped
<1>2. usage' \in Usages /\ reservation' \in [Job -> Reservations]
  <2>1. CASE UNCHANGED quota
    BY <2>1 DEF quota, TypeOK
  <2>2. ASSUME NEW j \in Job, QuotaStep(j)
        PROVE  usage' \in Usages /\ reservation' \in [Job -> Reservations]
    BY <2>2, StepExchanges DEF Exchanges, TypeOK
  <2>3. QED
    BY <2>1, <2>2, QuotaSteps
<1>3. QED
  BY <1>1, <1>2 DEF TypeOK, RestTyped

-----------------------------------------------------------------------------
(* What was submitted, and what has ended                                  *)

\* A step for Job j: it is submitted, or is now; the others are left alone.
Touched(j) ==
    /\ job'[j].desired # "none"
    /\ \A k \in Job \ {j} :
         job'[k] = job[k] /\ reservation'[k] = reservation[k] /\ runtime'[k] = runtime[k]
    /\ \A r \in command' : r \in command \/ r.job = j
    /\ \/ Submitted(j) /\ composed' = composed
       \/ composed' = [composed EXCEPT ![j] = {}]
    /\ pass'.todo \cup pass'.job \subseteq pass.todo \cup pass.job

JobStep(j) ==
    \/ Submit(j) \/ WriteArchive(j)
    \/ \E target \in Targets : ReadCommand(j, target) \/ WriteCommand(j, target)
    \/ Observe(j) \/ ObserveAbsence(j)
    \/ ApplyPause(j) \/ ApplyDelete(j)
    \/ Choose(j) \/ CommitConflicts(j) \/ Commit(j) \/ LegacyTake(j) \/ LegacySkip(j)
    \/ Create(j) \/ Resume(j) \/ AdmitFails(j) \/ AdmitUncertain(j) \/ Abandon(j)
    \/ Finish(j) \/ Vanish(j)

LEMMA SetObservedTouches ==
    ASSUME TypeOK, NEW j \in Job, Submitted(j), NEW st \in ObservedStates, SetObserved(j, st)
    PROVE  /\ job'[j].desired # "none"
           /\ \A k \in Job \ {j} : job'[k] = job[k] /\ reservation'[k] = reservation[k]
<1>1. job'[j].desired = job[j].desired /\ \A k \in Job \ {j} : job'[k] = job[k]
  BY DEF TypeOK, SetObserved, Jobs
<1>2. \A k \in Job \ {j} : reservation'[k] = reservation[k]
  BY DEF TypeOK, SetObserved, ReleaseQuota, quota
<1>3. QED
  BY <1>1, <1>2 DEF Submitted

LEMMA StepTouches ==
    ASSUME TypeOK, SubmittedInv, NEW j \in Job, JobStep(j)
    PROVE  Touched(j)
<1> USE DEF TypeOK, Touched, policies
<1>1. CASE Submit(j)
  BY <1>1 DEF Submit, Jobs
<1>2. CASE WriteArchive(j)
  <2>1. Submitted(j)
    BY <1>2 DEF WriteArchive, SubmittedInv
  <2>2. job'[j].desired = job[j].desired
        /\ \A k \in Job \ {j} : job'[k] = job[k] /\ reservation'[k] = reservation[k]
    BY <1>2 DEF WriteArchive, Jobs, quota
  <2>3. QED
    BY <1>2, <2>1, <2>2 DEF WriteArchive, Submitted
<1>3. ASSUME NEW target \in Targets, ReadCommand(j, target) PROVE Touched(j)
  BY <1>3 DEF ReadCommand, Submitted, quota
<1>4. ASSUME NEW target \in Targets, WriteCommand(j, target) PROVE Touched(j)
  <2>1. job'[j].desired # "none" /\ \A k \in Job \ {j} : job'[k] = job[k]
    BY <1>4 DEF WriteCommand, Targets, Jobs
  <2>2. \A k \in Job \ {j} : reservation'[k] = reservation[k]
    BY <1>4 DEF WriteCommand, ReleaseQuota, quota
  <2>3. Submitted(j)
    BY <1>4 DEF WriteCommand, SubmittedInv
  <2>4. QED
    BY <1>4, <2>1, <2>2, <2>3 DEF WriteCommand
<1>5. CASE Observe(j)
  <2>1. Submitted(j)
    BY <1>5 DEF Observe, Shown, SubmittedInv
  <2>2. QED
    BY <1>5, <2>1, ShownStates, SetObservedTouches DEF Observe
<1>6. CASE ObserveAbsence(j)
  <2>1. Submitted(j)
    BY <1>6 DEF ObserveAbsence, SubmittedInv
  <2>2. ASSUME SetObserved(j, "CANCELLED")
        PROVE  /\ job'[j].desired # "none"
               /\ \A k \in Job \ {j} : job'[k] = job[k] /\ reservation'[k] = reservation[k]
    BY <2>1, <2>2, SetObservedTouches DEF ObservedStates
  <2>3. ASSUME job' = [job EXCEPT ![j].missing = TRUE], UNCHANGED quota
        PROVE  /\ job'[j].desired # "none"
               /\ \A k \in Job \ {j} : job'[k] = job[k] /\ reservation'[k] = reservation[k]
    BY <2>1, <2>3 DEF Submitted, Jobs, quota
  <2>4. QED
    BY <1>6, <2>1, <2>2, <2>3 DEF ObserveAbsence
<1>7. CASE ApplyPause(j)
  BY <1>7 DEF ApplyPause, Submitted, quota
<1>8. CASE ApplyDelete(j)
  <2>1. Submitted(j)
    BY <1>8 DEF ApplyDelete, Submitted
  <2>2. ASSUME SetObserved(j, "CANCELLED")
        PROVE  /\ job'[j].desired # "none"
               /\ \A k \in Job \ {j} : job'[k] = job[k] /\ reservation'[k] = reservation[k]
    BY <2>1, <2>2, SetObservedTouches DEF ObservedStates
  <2>3. QED
    BY <1>8, <2>1, <2>2 DEF ApplyDelete, Submitted, quota
<1>9. CASE Commit(j)
  <2>1. Submitted(j)
    BY <1>9 DEF Commit, Current, Eligible, Submitted
  <2>2. pass'.todo \cup pass'.job \subseteq pass.todo \cup pass.job
    <3>1. pass' = Admitted(j) \/ pass' = [Chosen EXCEPT !.todo = @ \ {j}]
      BY <1>9 DEF Commit
    <3>2. pass'.todo = pass.todo \ {j} /\ (pass'.job = {} \/ pass'.job = pass.job)
      BY <3>1 DEF Admitted, Chosen, Passes
    <3>3. QED
      BY <3>2
  <2>3. QED
    BY <1>9, <2>1, <2>2 DEF Commit, Submitted, quota
<1>10. CASE LegacyTake(j) \/ LegacySkip(j)
  <2>1. Submitted(j)
    BY <1>10 DEF LegacyTake, LegacySkip, SubmittedInv
  <2>2. pass'.todo \cup pass'.job \subseteq pass.todo \cup pass.job
    <3>1. j \in pass.todo /\ pass \in Passes
          /\ \/ pass' = [pass EXCEPT !.at = "creating", !.job = {j}, !.todo = @ \ {j}]
             \/ pass' = [pass EXCEPT !.todo = @ \ {j}]
      BY <1>10 DEF LegacyTake, LegacySkip
    <3>2. pass'.todo = pass.todo \ {j} /\ (pass'.job = {j} \/ pass'.job = pass.job)
      BY <3>1 DEF Passes
    <3>3. QED
      BY <3>1, <3>2
  <2>3. QED
    BY <1>10, <2>1, <2>2 DEF LegacyTake, LegacySkip, Submitted, quota
<1>11. CASE Create(j)
  <2>1. Submitted(j)
    BY <1>11 DEF Create, SubmittedInv
  <2>2. ASSUME SetObserved(j, "PAUSED")
        PROVE  /\ job'[j].desired # "none"
               /\ \A k \in Job \ {j} : job'[k] = job[k] /\ reservation'[k] = reservation[k]
    BY <2>1, <2>2, SetObservedTouches DEF ObservedStates
  <2>3. pass'.todo \cup pass'.job \subseteq pass.todo \cup pass.job
    BY <1>11 DEF Create, Passes
  <2>4. QED
    BY <1>11, <2>1, <2>2, <2>3 DEF Create, Submitted, quota
<1>12. CASE Resume(j)
  <2>1. Submitted(j)
    BY <1>12 DEF Resume, SubmittedInv
  <2>2. QED
    BY <1>12, <2>1 DEF Resume, Chosen, Passes, Submitted, quota
<1>13. CASE AdmitFails(j)
  <2>1. Submitted(j)
    BY <1>13 DEF AdmitFails, SubmittedInv
  <2>2. job'[j].desired = job[j].desired /\ \A k \in Job \ {j} : job'[k] = job[k]
    BY <1>13 DEF AdmitFails, Jobs
  <2>3. pass'.todo \cup pass'.job \subseteq pass.todo \cup pass.job
    BY <1>13 DEF AdmitFails, Chosen, Passes
  <2>4. QED
    BY <1>13, <2>1, <2>2, <2>3 DEF AdmitFails, Submitted, quota
<1>14. CASE AdmitUncertain(j)
  <2>1. Submitted(j)
    BY <1>14 DEF AdmitUncertain, SubmittedInv
  <2>2. QED
    BY <1>14, <2>1 DEF AdmitUncertain, Idle, Submitted, quota
<1>15. CASE Abandon(j)
  <2>1. Submitted(j)
    BY <1>15 DEF Abandon, SubmittedInv
  <2>2. pass'.todo \cup pass'.job \subseteq pass.todo \cup pass.job
    BY <1>15 DEF Abandon, Chosen, Passes
  <2>3. QED
    BY <1>15, <2>1, <2>2 DEF Abandon, Submitted, quota
<1>16. CASE Finish(j) \/ Vanish(j)
  <2>1. Submitted(j)
    BY <1>16 DEF Finish, Vanish, SubmittedInv
  <2>2. QED
    BY <1>16, <2>1 DEF Finish, Vanish, Submitted, quota
<1>17. CASE Choose(j) \/ CommitConflicts(j)
  <2>1. Submitted(j)
    BY <1>17 DEF Choose, CommitConflicts, SubmittedInv
  <2>2. pass'.todo \cup pass'.job \subseteq pass.todo \cup pass.job
    <3>1. CASE Choose(j)
      <4>1. pass'.todo = pass.todo /\ pass'.job = {j} /\ j \in pass.todo
        BY <3>1 DEF Choose, Passes
      <4>2. QED
        BY <4>1
    <3>2. CASE CommitConflicts(j)
      <4>1. pass'.todo = pass.todo /\ pass'.job = {}
        BY <3>2 DEF CommitConflicts, Chosen, Passes
      <4>2. QED
        BY <4>1
    <3>3. QED
      BY <1>17, <3>1, <3>2
  <2>3. QED
    BY <1>17, <2>1, <2>2 DEF Choose, CommitConflicts, Submitted, quota
<1>18. QED
  BY <1>1, <1>2, <1>3, <1>4, <1>5, <1>6, <1>7, <1>8, <1>9, <1>10, <1>11, <1>12, <1>13,
     <1>14, <1>15, <1>16, <1>17 DEF JobStep

LEMMA SubmittedNext ==
    ASSUME TypeOK, SubmittedInv, Next
    PROVE  SubmittedInv'
<1>1. ASSUME NEW j \in Job, JobStep(j) PROVE SubmittedInv'
  <2>1. Touched(j)
    BY <1>1, StepTouches
  <2>2. ASSUME NEW k \in Job, job'[k].desired = "none"
        PROVE  /\ reservation'[k] = NoReservation
               /\ job'[k].observed = "CREATED"
               /\ runtime'[k] = "absent"
    <3>1. k # j
      BY <2>1, <2>2 DEF Touched
    <3>2. job'[k] = job[k] /\ reservation'[k] = reservation[k] /\ runtime'[k] = runtime[k]
      BY <2>1, <3>1 DEF Touched
    <3>3. QED
      BY <2>2, <3>2 DEF SubmittedInv, Submitted
  <2>3. ASSUME NEW k \in Job, job[k].desired # "none" PROVE job'[k].desired # "none"
    BY <2>1, <2>3 DEF Touched
  <2>4. ASSUME NEW r \in command' PROVE job'[r.job].desired # "none"
    <3>1. CASE r.job = j
      BY <2>1, <3>1 DEF Touched
    <3>2. CASE r \in command
      BY <2>3, <3>2 DEF SubmittedInv, Submitted, TypeOK, Commands
    <3>3. QED
      BY <2>1, <3>1, <3>2 DEF Touched
  <2>5. ASSUME NEW k \in pass'.todo \cup pass'.job PROVE job'[k].desired # "none"
    <3>1. k \in pass.todo \cup pass.job
      BY <2>1, <2>5 DEF Touched
    <3>2. k \in Job
      BY <3>1 DEF TypeOK, Passes
    <3>3. QED
      BY <2>3, <3>1, <3>2 DEF SubmittedInv, Submitted
  <2>6. ASSUME NEW k \in Job, composed'[k] # {} PROVE job'[k].desired = "none"
    <3>1. composed[k] # {} /\ k # j
      BY <2>1, <2>6 DEF Touched, SubmittedInv, TypeOK
    <3>2. job'[k] = job[k]
      BY <2>1, <3>1 DEF Touched
    <3>3. QED
      BY <3>1, <3>2 DEF SubmittedInv, Submitted
  <2>7. QED
    BY <2>2, <2>4, <2>5, <2>6 DEF SubmittedInv, Submitted
<1>2. ASSUME NEW j \in Job, ClaimExpires(j) PROVE SubmittedInv'
  BY <1>2 DEF ClaimExpires, SubmittedInv, Submitted, quota, policies
<1>3. CASE BeginPass
  <2>1. /\ UNCHANGED <<job, runtime, reservation, command, composed>>
        /\ \A k \in pass'.todo \cup pass'.job : k \in Job /\ Eligible(k)
    <3>1. UNCHANGED <<job, runtime, reservation, command, composed>>
      BY <1>3 DEF BeginPass, quota, policies
    <3>2. PICK due \in SUBSET {j \in Job : Eligible(j) /\ Open(reservation[j])} :
            pass' = IF due = {} THEN [Idle EXCEPT !.at = "claiming", !.legacy = TRUE]
                                ELSE [Idle EXCEPT !.at = "choosing", !.todo = due]
      BY <1>3 DEF BeginPass
    <3>3. pass'.todo \subseteq due /\ pass'.job = {}
      BY <3>2 DEF Idle
    <3>4. QED
      BY <3>1, <3>3
  <2>2. QED
    BY <2>1 DEF SubmittedInv, Submitted, Eligible
<1>4. CASE EndPass
  BY <1>4 DEF EndPass, Idle, SubmittedInv, Submitted, quota, policies
<1>5. CASE LegacyClaim
  <2>1. /\ UNCHANGED <<job, runtime, reservation, command, composed>>
        /\ \A k \in pass'.todo : k \in Job /\ Eligible(k)
        /\ pass'.job = pass.job
    BY <1>5 DEF LegacyClaim, TypeOK, Passes, quota, policies
  <2>2. QED
    BY <2>1 DEF SubmittedInv, Submitted, Eligible
<1>6. ASSUME NEW j \in Job, Compose(j) \/ Reject(j) PROVE SubmittedInv'
  <2>1. UNCHANGED <<job, runtime, reservation, command, pass>>
    BY <1>6 DEF Compose, Reject, quota
  <2>2. \A k \in Job : composed'[k] # {} => composed[k] # {} \/ ~Submitted(k)
    BY <1>6 DEF Compose, Reject, TypeOK
  <2>3. QED
    BY <2>1, <2>2 DEF SubmittedInv, Submitted
<1>7. CASE UpdatePolicy \/ AddPolicy
  BY <1>7 DEF UpdatePolicy, AddPolicy, SubmittedInv, Submitted, quota
<1>8. QED
  BY <1>1, <1>2, <1>3, <1>4, <1>5, <1>6, <1>7 DEF Next, JobStep

\* Of a Job that has ended, or that somebody has cancelled.
Ended(j) == job[j].observed \in {"FINISHED", "CANCELLED"} \/ job[j].desired = "CANCELLED"

LEMMA SetObservedEnds ==
    ASSUME TypeOK, EndedHoldsNothing, NEW j \in Job, NEW st \in ObservedStates,
           SetObserved(j, st)
    PROVE  Ended(j)' => ~Open(reservation'[j])
<1>1. job'[j].observed = st /\ job'[j].desired = job[j].desired
  BY DEF TypeOK, SetObserved, Jobs
<1>2. CASE st \in {"FINISHED", "CANCELLED"}
  BY <1>2 DEF TypeOK, SetObserved, ReleaseQuota, Released, Reservations, Open, quota
<1>3. CASE st \notin {"FINISHED", "CANCELLED"}
  <2>1. reservation' = reservation
    BY <1>3 DEF SetObserved, quota
  <2>2. Ended(j)' => job[j].desired = "CANCELLED"
    BY <1>1, <1>3 DEF Ended
  <2>3. QED
    BY <2>1, <2>2 DEF EndedHoldsNothing
<1>4. QED
  BY <1>2, <1>3

\* A step that leaves a Job as far from its end as it was, and its
\* reservation as closed as it was.
LEMMA NothingOpens ==
    ASSUME EndedHoldsNothing, NEW j \in Job,
           Ended(j)' => Ended(j), Open(reservation'[j]) => Open(reservation[j])
    PROVE  Ended(j)' => ~Open(reservation'[j])
BY DEF EndedHoldsNothing, Ended

LEMMA StepEnds ==
    ASSUME TypeOK, SubmittedInv, EndedHoldsNothing, NEW j \in Job, JobStep(j)
    PROVE  Ended(j)' => ~Open(reservation'[j])
<1>1. CASE Submit(j)
  <2>1. job'[j].observed = "CREATED" /\ job'[j].desired = "QUEUED"
    BY <1>1 DEF Submit, SubmittedInv, TypeOK, Jobs
  <2>2. QED
    BY <2>1 DEF Ended
<1>2. CASE WriteArchive(j)
  <2>1. job'[j].observed = job[j].observed /\ job'[j].desired = job[j].desired
    BY <1>2 DEF WriteArchive, TypeOK, Jobs
  <2>2. reservation'[j].state = reservation[j].state
    BY <1>2 DEF WriteArchive, TypeOK, Reservations, quota
  <2>3. QED
    BY <2>1, <2>2, NothingOpens DEF Ended, Open
<1>3. ASSUME NEW target \in Targets, ReadCommand(j, target)
      PROVE  Ended(j)' => ~Open(reservation'[j])
  BY <1>3 DEF ReadCommand, quota, EndedHoldsNothing, Ended
<1>4. ASSUME NEW target \in Targets, WriteCommand(j, target)
      PROVE  Ended(j)' => ~Open(reservation'[j])
  <2>1. job'[j].observed = job[j].observed /\ job'[j].desired = target
    BY <1>4 DEF WriteCommand, TypeOK, Jobs
  <2>2. CASE target = "CANCELLED"
    BY <1>4, <2>2 DEF WriteCommand, TypeOK, ReleaseQuota, Released, Reservations, Open, quota
  <2>3. CASE target # "CANCELLED"
    <3>1. reservation' = reservation
      BY <1>4, <2>3 DEF WriteCommand, quota
    <3>2. QED
      BY <2>1, <2>3, <3>1, NothingOpens DEF Ended
  <2>4. QED
    BY <2>2, <2>3
<1>5. CASE Observe(j)
  BY <1>5, ShownStates, SetObservedEnds DEF Observe
<1>6. CASE ObserveAbsence(j)
  <2>1. ASSUME SetObserved(j, "CANCELLED") PROVE Ended(j)' => ~Open(reservation'[j])
    BY <2>1, SetObservedEnds DEF ObservedStates
  <2>2. ASSUME job' = [job EXCEPT ![j].missing = TRUE], UNCHANGED quota
        PROVE  Ended(j)' => ~Open(reservation'[j])
    <3>1. job'[j].observed = job[j].observed /\ job'[j].desired = job[j].desired
      BY <2>2 DEF TypeOK, Jobs
    <3>2. QED
      BY <2>2, <3>1, NothingOpens DEF Ended, quota
  <2>3. QED
    BY <1>6, <2>1, <2>2 DEF ObserveAbsence
<1>7. CASE \/ ApplyPause(j) \/ Choose(j) \/ CommitConflicts(j) \/ LegacyTake(j)
           \/ LegacySkip(j) \/ Resume(j) \/ AdmitUncertain(j) \/ Finish(j) \/ Vanish(j)
  <2>1. UNCHANGED <<job, reservation>>
    BY <1>7 DEF ApplyPause, Choose, CommitConflicts, LegacyTake, LegacySkip, Resume, AdmitUncertain, Finish, Vanish, quota
  <2>2. QED
    BY <2>1 DEF EndedHoldsNothing, Ended
<1>8. CASE ApplyDelete(j)
  <2>1. ASSUME SetObserved(j, "CANCELLED") PROVE Ended(j)' => ~Open(reservation'[j])
    BY <2>1, SetObservedEnds DEF ObservedStates
  <2>2. ASSUME UNCHANGED <<job, reservation>> PROVE Ended(j)' => ~Open(reservation'[j])
    BY <2>2 DEF EndedHoldsNothing, Ended
  <2>3. QED
    BY <1>8, <2>1, <2>2 DEF ApplyDelete, quota
<1>9. CASE Commit(j)
  <2>1. UNCHANGED job /\ Eligible(j)
    BY <1>9 DEF Commit, Current
  <2>2. QED
    BY <2>1 DEF Eligible, Ended
<1>10. CASE Create(j)
  <2>1. ASSUME SetObserved(j, "PAUSED") PROVE Ended(j)' => ~Open(reservation'[j])
    BY <2>1, SetObservedEnds DEF ObservedStates
  <2>2. ASSUME UNCHANGED <<job, reservation>> PROVE Ended(j)' => ~Open(reservation'[j])
    BY <2>2 DEF EndedHoldsNothing, Ended
  <2>3. QED
    BY <1>10, <2>1, <2>2 DEF Create, quota
<1>11. CASE AdmitFails(j)
  <2>1. job'[j].observed = job[j].observed /\ job'[j].desired = job[j].desired
    BY <1>11 DEF AdmitFails, TypeOK, Jobs
  <2>2. QED
    BY <1>11, <2>1, NothingOpens DEF AdmitFails, Ended, quota
<1>12. CASE Abandon(j)
  <2>1. UNCHANGED job /\ (reservation' = reservation \/ Open(reservation[j]))
    BY <1>12 DEF Abandon, Open, quota
  <2>2. QED
    BY <2>1, NothingOpens DEF Ended
<1>13. QED
  BY <1>1, <1>2, <1>3, <1>4, <1>5, <1>6, <1>7, <1>8, <1>9, <1>10, <1>11, <1>12 DEF JobStep

LEMMA EndedNext ==
    ASSUME TypeOK, SubmittedInv, EndedHoldsNothing, Next
    PROVE  EndedHoldsNothing'
<1>1. ASSUME NEW j \in Job, JobStep(j), NEW k \in Job
      PROVE  Ended(k)' => ~Open(reservation'[k])
  <2>1. CASE k = j
    BY <1>1, <2>1, StepEnds
  <2>2. CASE k # j
    <3>1. job'[k] = job[k] /\ reservation'[k] = reservation[k]
      BY <1>1, <2>2, StepTouches DEF Touched
    <3>2. QED
      BY <3>1 DEF EndedHoldsNothing, Ended
  <2>3. QED
    BY <2>1, <2>2
<1>2. ASSUME \/ \E j \in Job : Compose(j) \/ Reject(j) \/ ClaimExpires(j)
             \/ BeginPass \/ EndPass \/ LegacyClaim \/ UpdatePolicy \/ AddPolicy
      PROVE  EndedHoldsNothing'
  <2>1. UNCHANGED <<job, reservation>>
    BY <1>2 DEF Compose, Reject, ClaimExpires, BeginPass, EndPass, LegacyClaim, UpdatePolicy,
                AddPolicy, quota
  <2>2. QED
    BY <2>1 DEF EndedHoldsNothing
<1>3. ASSUME NEW j \in Job, JobStep(j) PROVE EndedHoldsNothing'
  BY <1>1, <1>3 DEF EndedHoldsNothing, Ended
<1>4. QED
  BY <1>2, <1>3 DEF Next, JobStep

-----------------------------------------------------------------------------
(* The theorems                                                            *)

LEMMA Beginning ==
    ASSUME Init
    PROVE  IInv /\ UsageIsHeld
<1>1. TypeOK
  BY IntentIsReservation, AdmissionAssumption DEF Init, TypeOK, Jobs, NoJob, Runtimes, Usages, NoUsage, Passes, Idle,
                             Policies
<1>2. SubmittedInv /\ EndedHoldsNothing
  BY DEF Init, SubmittedInv, EndedHoldsNothing, Submitted, NoJob, NoReservation, Idle, Open
<1>3. UsageIsHeld
  <2>1. ASSUME NEW s \in Scope, NEW c \in Counter
        PROVE  usage[s][c] = Cardinality({j \in Job : s \in ScopesOf[j] /\ c \in Held(reservation[j])})
    <3>1. usage[s][c] = 0
      BY DEF Init, NoUsage
    <3>2. {j \in Job : s \in ScopesOf[j] /\ c \in Held(reservation[j])} = {}
      BY DEF Init, NoReservation, Held, Open, RetainedDemand
    <3>3. QED
      BY <3>1, <3>2, FS_EmptySet
  <2>2. QED
    BY <2>1 DEF UsageIsHeld
<1>4. QED
  BY <1>1, <1>2, <1>3 DEF IInv

LEMMA Step ==
    ASSUME IInv, [Next]_vars
    PROVE  IInv'
<1>1. CASE Next
  BY <1>1, TypesNext, SubmittedNext, EndedNext DEF IInv
<1>2. CASE UNCHANGED vars
  BY <1>2 DEF IInv, TypeOK, SubmittedInv, Submitted, EndedHoldsNothing, vars, quota
<1>3. QED
  BY <1>1, <1>2

\* Every variable keeps its type: among other things no counter of
\* quota_usage ever falls below zero.
THEOREM TypesCorrect == Spec => []TypeOK
<1>1. Init => IInv
  BY Beginning
<1>2. IInv /\ [Next]_vars => IInv'
  BY Step
<1>3. IInv => TypeOK
  BY DEF IInv
<1>4. QED
  BY <1>1, <1>2, <1>3, PTL DEF Spec

\* The counters of quota_usage are what quota_reservations hold, whatever the
\* number of Jobs and of requests in progress: no unit is lost or given back
\* twice, so no sequence of races makes room that is not there.
THEOREM CountersAreHeld == Spec => []UsageIsHeld
<1>1. Init => IInv /\ UsageIsHeld
  BY Beginning
<1>2. IInv /\ UsageIsHeld /\ [Next]_vars => IInv' /\ UsageIsHeld'
  <2>1. ASSUME IInv, UsageIsHeld, [Next]_vars PROVE UsageIsHeld'
    <3>1. CASE Next
      BY <2>1, <3>1, HeldNext DEF IInv
    <3>2. CASE UNCHANGED vars
      BY <2>1, <3>2 DEF UsageIsHeld, vars, quota
    <3>3. QED
      BY <2>1, <3>1, <3>2
  <2>2. QED
    BY <2>1, Step
<1>3. QED
  BY <1>1, <1>2, PTL DEF Spec

\* Whatever the policies and however they change, the counts of running Jobs
\* and of retained records grow only by a submission within the limits that it
\* composed, or by an admission within those of which no policy was updated
\* since: the decision and the usage rows are one transaction, and no release,
\* requeue or archiving raises a count.
THEOREM LimitsAreKept == Spec => WithinLimits
<1>1. Init => IInv
  BY Beginning
<1>2. IInv /\ [Next]_vars => IInv'
  BY Step
<1>3. ASSUME IInv, [Next]_vars
      PROVE  [\A s \in Scope, c \in {"concurrent", "retained"} :
                 Raised(s, c) => Allowed(s, c)]_quota
  <2>1. CASE UNCHANGED quota
    BY <2>1
  <2>2. ASSUME NEW j \in Job, QuotaStep(j)
        PROVE  \A s \in Scope, c \in {"concurrent", "retained"} : Raised(s, c) => Allowed(s, c)
    BY <1>3, <2>2, LimitsStep DEF IInv
  <2>3. UNCHANGED quota \/ \E j \in Job : QuotaStep(j)
    <3>1. CASE Next
      BY <1>3, <3>1, QuotaSteps DEF IInv
    <3>2. CASE UNCHANGED vars
      BY <3>2 DEF vars, quota
    <3>3. QED
      BY <1>3, <3>1, <3>2
  <2>4. QED
    BY <2>1, <2>2, <2>3
<1>4. QED
  BY <1>1, <1>2, <1>3, PTL DEF Spec, WithinLimits, Raised, Allowed

\* A Job that is cancelled or over holds no open reservation, whoever records
\* its end while a pass is admitting it.
THEOREM EndedIsReleased == Spec => []EndedHoldsNothing
<1>1. Init => IInv
  BY Beginning
<1>2. IInv /\ [Next]_vars => IInv'
  BY Step
<1>3. IInv => EndedHoldsNothing
  BY DEF IInv
<1>4. QED
  BY <1>1, <1>2, <1>3, PTL DEF Spec

\* A release is final: an admission, a requeue or a second release that began
\* before it finds the reservation closed.
THEOREM ReleaseIsFinal == Spec => ReleasedStaysReleased
<1>1. Init => IInv
  BY Beginning
<1>2. IInv /\ [Next]_vars => IInv'
  BY Step
<1>3. ASSUME IInv, [Next]_vars
      PROVE  [\A j \in Job : reservation[j].state = "RELEASED" =>
                 /\ reservation'[j].state = "RELEASED"
                 /\ reservation'[j].demand \subseteq reservation[j].demand]_reservation
  <2>1. CASE UNCHANGED reservation
    BY <2>1
  <2>2. ASSUME NEW j \in Job, QuotaStep(j), NEW k \in Job, reservation[k].state = "RELEASED"
        PROVE  /\ reservation'[k].state = "RELEASED"
               /\ reservation'[k].demand \subseteq reservation[k].demand
    <3>1. reservation \in [Job -> Reservations]
      BY <1>3 DEF IInv, TypeOK
    <3>2. CASE k # j
      BY <2>2, <3>1, <3>2 DEF QuotaStep, Takes, GivesBack, Admits, Requeues, Forgets
    <3>3. CASE k = j
      <4>1. ~Takes(j) /\ ~GivesBack(j) /\ ~Admits(j) /\ ~Requeues(j)
        BY <2>2, <3>3 DEF Takes, GivesBack, Admits, Requeues, NoReservation, Open
      <4>2. Forgets(j)
        BY <2>2, <4>1 DEF QuotaStep
      <4>3. reservation'[j] = [reservation[j] EXCEPT !.demand = @ \ {"retained"}]
        BY <3>1, <4>2 DEF Forgets
      <4>4. QED
        BY <2>2, <3>1, <3>3, <4>3 DEF Reservations
    <3>4. QED
      BY <3>2, <3>3
  <2>3. UNCHANGED reservation \/ \E j \in Job : QuotaStep(j)
    <3>1. CASE Next
      BY <1>3, <3>1, QuotaSteps DEF IInv, quota
    <3>2. CASE UNCHANGED vars
      BY <3>2 DEF vars, quota
    <3>3. QED
      BY <1>3, <3>1, <3>2
  <2>4. QED
    BY <2>1, <2>2, <2>3
<1>4. QED
  BY <1>1, <1>2, <1>3, PTL DEF Spec, ReleasedStaysReleased
=============================================================================

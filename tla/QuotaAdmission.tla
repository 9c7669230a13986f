---------------------------- MODULE QuotaAdmission --------------------------
(***************************************************************************)
(* The life of Jobs under quota: the API submits them, commands them and   *)
(* archives them; every worker observes Kubernetes; the leader's reconcile *)
(* pass applies commands and admits (schedule, scheduleLegacy and admit of *)
(* reconciler/reconciler.go with CommitRuntimeAdmission and                 *)
(* AbandonRuntimeAdmission of adapters/persistence/scheduling.go).  Each    *)
(* transaction is one action; the API reads a Job in one statement and     *)
(* writes it in another, and the pass works from the candidates it listed  *)
(* when it began.                                                          *)
(*                                                                         *)
(* The time guards of a Job (next_reconcile_at, scheduled_for) only say     *)
(* that it is not due yet: which Jobs are due is a choice wherever the code *)
(* asks.  The choice among the candidates (scheduler.Select) is free too,  *)
(* and so is the number of admissions the worker limits leave to a pass.   *)
(* Every Job is managed and in scope, and a policy is configured.          *)
(*                                                                         *)
(* Administrators change the policies meanwhile.  A submission decides by   *)
(* the policies that it composed before its transaction; an admission is    *)
(* refused if one of those has another version by then, but not because a   *)
(* scope that had none has got one.                                        *)
(***************************************************************************)
EXTENDS QuotaLedger

CONSTANTS
    FirstLimit,      \* those at the start, one of Limits
    MaxRequests      \* bound: API requests in progress and updates of policies so far

ASSUME AdmissionAssumption == FirstLimit \in Limits /\ MaxRequests \in Nat

VARIABLES
    job,             \* table jobs
    runtime,         \* the Job's object in Kubernetes
    reservation,     \* table quota_reservations
    usage,           \* table quota_usage
    claim,           \* table scheduler_claims: Jobs with a claim that has not run out
    command,         \* API requests that have read the Job and not yet written it
    policy,          \* the policies, composed, and the versions of those there are
    composed,        \* limits that the submission of each Job has composed
    pass             \* the leader's reconcile pass

quota == <<reservation, usage>>
policies == <<policy, composed>>
vars == <<job, runtime, reservation, usage, claim, command, policy, composed, pass>>

\* FINISHED is COMPLETED or FAILED.  A Job that was not submitted is "none".
Jobs == [desired : {"none", "QUEUED", "PAUSED", "CANCELLED"},
         observed : {"CREATED", "PAUSED", "QUEUED", "RUNNING", "FINISHED", "CANCELLED"},
         missing : BOOLEAN, archived : BOOLEAN]
NoJob == [desired |-> "none", observed |-> "CREATED", missing |-> FALSE, archived |-> FALSE]

Runtimes == {"absent", "suspended", "started", "finished", "deleted"}

Targets == {"QUEUED", "PAUSED", "CANCELLED", "ARCHIVE"}
Commands == [job : Job, target : Targets]

\* The versions of all policies are one number here.
Policies == [limit : Limits, version : Nat]

\* "committing" has composed the policies for the Job it has chosen.
Passes == [at : {"idle", "claiming", "choosing", "committing", "creating", "resuming",
                 "abandoning"},
           legacy : BOOLEAN, todo : SUBSET Job, job : SUBSET Job, policy : SUBSET Policies]
Idle == [at |-> "idle", legacy |-> FALSE, todo |-> {}, job |-> {}, policy |-> {}]

Init ==
    /\ job = [j \in Job |-> NoJob]
    /\ runtime = [j \in Job |-> "absent"]
    /\ reservation = [j \in Job |-> NoReservation]
    /\ usage = NoUsage
    /\ claim = {}
    /\ command = {}
    /\ policy = [limit |-> FirstLimit, version |-> 0]
    /\ composed = [j \in Job |-> {}]
    /\ pass = Idle

Submitted(j) == job[j].desired # "none"

\* What the bound on requests counts.
Requests == Cardinality(command) + policy.version

\* A Job has a Kubernetes UID on record from its first observation on.
Known(j) == job[j].observed # "CREATED"

\* Job.Terminal
Terminal(j) == job[j].observed = "FINISHED" \/ job[j].desired = "CANCELLED"

\* releaseAnyJobQuotaTx: the release is refused on an underflow and, once
\* done, does nothing.
ReleaseQuota(j) ==
    IF Open(reservation[j])
    THEN /\ CanReleaseUsage(usage, ScopesOf[j], reservation[j].demand)
         /\ usage' = ReleasedUsage(usage, ScopesOf[j], reservation[j])
         /\ reservation' = [reservation EXCEPT ![j] = Released(@)]
    ELSE UNCHANGED quota

-----------------------------------------------------------------------------
(* The policies                                                            *)

\* A policy that there is gets other limits, or another version for other rules.
UpdatePolicy ==
    /\ Requests < MaxRequests
    /\ \E limit \in Limits : policy' = [limit |-> limit, version |-> policy.version + 1]
    /\ UNCHANGED <<job, runtime, quota, claim, command, composed, pass>>

Narrower(limit, than) == \A s \in Scope, c \in Counter : limit[s][c] <= than[s][c]

\* A scope that had none gets a policy, within those above it.
AddPolicy ==
    /\ \E limit \in Limits :
         /\ limit # policy.limit /\ Narrower(limit, policy.limit)
         /\ policy' = [policy EXCEPT !.limit = limit]
    /\ UNCHANGED <<job, runtime, quota, claim, command, composed, pass>>

-----------------------------------------------------------------------------
(* The API                                                                 *)

\* PolicyQuotaService.Submit composes the policies.
Compose(j) ==
    /\ ~Submitted(j) /\ composed[j] = {}
    /\ composed' = [composed EXCEPT ![j] = {policy.limit}]
    /\ UNCHANGED <<job, runtime, quota, claim, command, policy, pass>>

\* The demand does not fit, or the request fails.
Reject(j) ==
    /\ composed[j] # {}
    /\ composed' = [composed EXCEPT ![j] = {}]
    /\ UNCHANGED <<job, runtime, quota, claim, command, policy, pass>>

\* CreateJobWithQuota
Submit(j) ==
    /\ \E limit \in composed[j] : Fits(limit, usage, ScopesOf[j], Intent.demand)
    /\ composed' = [composed EXCEPT ![j] = {}]
    /\ job' = [job EXCEPT ![j].desired = "QUEUED"]
    /\ usage' = AddUsage(usage, ScopesOf[j], Intent.demand)
    /\ reservation' = [reservation EXCEPT ![j] = Intent]
    /\ UNCHANGED <<runtime, claim, command, policy, pass>>

\* CanTransition, for the commands of the API.
CanTransition(from, to) ==
    CASE to = "QUEUED"    -> from = "PAUSED"
      [] to = "PAUSED"    -> from = "QUEUED"
      [] to = "CANCELLED" -> from # "CANCELLED"

\* Command, and SetDesiredState as far as its own check, read the Job and let
\* the command pass; so does Archive.
ReadCommand(j, target) ==
    /\ Submitted(j) /\ ~job[j].archived
    /\ IF target = "ARCHIVE"
       THEN job[j].missing
       ELSE ~Terminal(j) /\ CanTransition(job[j].desired, target)
    /\ Requests < MaxRequests
    /\ command' = command \cup {[job |-> j, target |-> target]}
    /\ UNCHANGED <<job, runtime, quota, claim, pass, policies>>

\* The transaction of SetDesiredState updates whatever row it now finds, and
\* its synchronization status is PENDING again.
WriteCommand(j, target) ==
    /\ target # "ARCHIVE"
    /\ [job |-> j, target |-> target] \in command
    /\ command' = command \ {[job |-> j, target |-> target]}
    /\ job' = [job EXCEPT ![j].desired = target, ![j].missing = FALSE]
    /\ IF target = "CANCELLED" THEN ReleaseQuota(j) ELSE UNCHANGED quota
    /\ UNCHANGED <<runtime, claim, pass, policies>>

\* The transaction of Archive: what is retained for the Job is released if
\* its reservation has been.
WriteArchive(j) ==
    /\ [job |-> j, target |-> "ARCHIVE"] \in command
    /\ command' = command \ {[job |-> j, target |-> "ARCHIVE"]}
    /\ IF job[j].archived
       THEN UNCHANGED <<job, quota, claim>>
       ELSE /\ job' = [job EXCEPT ![j].archived = TRUE]
            /\ claim' = claim \ {j}
            /\ IF reservation[j].state = "RELEASED"
               THEN /\ CanReleaseUsage(usage, ScopesOf[j], RetainedDemand(reservation[j]))
                    /\ usage' = ReleaseUsage(usage, ScopesOf[j], RetainedDemand(reservation[j]))
                    /\ reservation' = [reservation EXCEPT ![j].demand = @ \ {"retained"}]
               ELSE UNCHANGED quota
    /\ UNCHANGED <<runtime, pass, policies>>

-----------------------------------------------------------------------------
(* discover, which every worker runs                                       *)

\* kube.ObservationOf: a started Job is RUNNING once it has an active Pod.
Shown(r) ==
    CASE r = "suspended" -> {"PAUSED"}
      [] r = "started"   -> {"QUEUED", "RUNNING"}
      [] r = "finished"  -> {"FINISHED"}
      [] OTHER           -> {}

\* Mutant: completion is not a cause of release.
SetObservedKeeps(j, state) ==
    /\ job' = [job EXCEPT ![j].observed = state, ![j].missing = FALSE]
    /\ IF state = "CANCELLED" THEN ReleaseQuota(j) ELSE UNCHANGED quota

\* SetObserved
SetObserved(j, state) ==
    /\ job' = [job EXCEPT ![j].observed = state, ![j].missing = FALSE]
    /\ IF state \in {"FINISHED", "CANCELLED"} THEN ReleaseQuota(j) ELSE UNCHANGED quota

Observe(j) ==
    /\ \E state \in Shown(runtime[j]) : SetObserved(j, state)
    /\ UNCHANGED <<runtime, claim, command, pass, policies>>

\* The object of a known Job is not there: a cancelled Job has ended, another
\* is marked missing and loses its claim.
ObserveAbsence(j) ==
    /\ runtime[j] = "deleted"
    /\ Known(j) /\ ~job[j].archived
    /\ \/ /\ job[j].desired = "CANCELLED" /\ job[j].observed # "CANCELLED"
          /\ SetObserved(j, "CANCELLED")
          /\ UNCHANGED claim
       \/ /\ ~Terminal(j) /\ ~job[j].missing
          /\ job' = [job EXCEPT ![j].missing = TRUE]
          /\ claim' = claim \ {j}
          /\ UNCHANGED quota
    /\ UNCHANGED <<runtime, command, pass, policies>>

-----------------------------------------------------------------------------
(* applyCommands                                                           *)

Commandable(j) == Known(j) /\ ~job[j].missing /\ ~job[j].archived

ApplyPause(j) ==
    /\ pass.at = "idle"
    /\ Commandable(j)
    /\ job[j].desired = "PAUSED" /\ job[j].observed # "PAUSED" /\ ~Terminal(j)
    /\ runtime[j] = "started"
    /\ runtime' = [runtime EXCEPT ![j] = "suspended"]
    /\ UNCHANGED <<job, quota, claim, command, pass, policies>>

\* An object that is not there any more is the answer that was wanted.
ApplyDelete(j) ==
    /\ pass.at = "idle"
    /\ Commandable(j)
    /\ job[j].desired = "CANCELLED" /\ job[j].observed # "CANCELLED"
    /\ runtime' = [runtime EXCEPT ![j] = "deleted"]
    /\ IF runtime[j] = "deleted" THEN SetObserved(j, "CANCELLED") ELSE UNCHANGED <<job, quota>>
    /\ UNCHANGED <<claim, command, pass, policies>>

-----------------------------------------------------------------------------
(* schedule                                                                *)

\* runtimeCandidateEligibleTx, but for the time guards.
Eligible(j) ==
    /\ job[j].desired = "QUEUED" /\ job[j].observed \in {"CREATED", "PAUSED"}
    /\ ~job[j].missing /\ ~job[j].archived
    /\ j \notin claim

\* SchedulingCandidates lists eligible Jobs that are due and have an open
\* reservation.  Without any, the pass falls back to the legacy scheduler.
BeginPass ==
    /\ pass.at = "idle"
    /\ \E due \in SUBSET {j \in Job : Eligible(j) /\ Open(reservation[j])} :
         pass' = IF due = {} THEN [Idle EXCEPT !.at = "claiming", !.legacy = TRUE]
                             ELSE [Idle EXCEPT !.at = "choosing", !.todo = due]
    /\ UNCHANGED <<job, runtime, quota, claim, command, policies>>

\* The pass is over: everything is done, the limit is reached, the process is
\* gone, its leadership is lost, a conflict persists, or an outcome is not known.
EndPass ==
    /\ pass.at # "idle"
    /\ pass' = Idle
    /\ UNCHANGED <<job, runtime, quota, claim, command, policies>>

\* Go on with the next candidate.
Chosen == [pass EXCEPT !.at = "choosing", !.job = {}, !.policy = {}]

\* A candidate is selected, and its policies are composed.
Choose(j) ==
    /\ pass.at = "choosing" /\ ~pass.legacy
    /\ j \in pass.todo
    /\ pass' = [pass EXCEPT !.at = "committing", !.job = {j}, !.policy = {policy}]
    /\ UNCHANGED <<job, runtime, quota, claim, command, policies>>

\* Mutant: the policies are not validated again.
CurrentWhateverPolicy(j) == Eligible(j)

\* validateAppliedPolicyTx and runtimeCandidateEligibleTx.
Current(j) == Eligible(j) /\ \A p \in pass.policy : p.version = policy.version

\* Conflict: the candidates stay as they are, and one is selected again.
CommitConflicts(j) ==
    /\ pass.at = "committing" /\ j \in pass.job
    /\ ~Current(j)
    /\ pass' = Chosen
    /\ UNCHANGED <<job, runtime, quota, claim, command, policies>>

Admitted(j) == [pass EXCEPT !.at = "creating", !.todo = @ \ {j}, !.policy = {}]

\* CommitRuntimeAdmission: the Job is reserved, or rejected because it does
\* not fit.  A reservation that was made earlier is used again.
Commit(j) ==
    /\ pass.at = "committing" /\ j \in pass.job
    /\ Current(j)
    /\ \/ /\ reservation[j].state = "RESERVED"
          /\ claim' = claim \cup {j}
          /\ pass' = Admitted(j)
          /\ UNCHANGED quota
       \/ /\ reservation[j].state = "INTENT"
          /\ CanReleaseUsage(usage, ScopesOf[j], reservation[j].demand)
          /\ \E p \in pass.policy :
               AdmissionFits(p.limit, usage, ScopesOf[j], reservation[j])
          /\ usage' = AdmittedUsage(usage, ScopesOf[j], reservation[j])
          /\ reservation' = [reservation EXCEPT ![j] = Reserved(@)]
          /\ claim' = claim \cup {j}
          /\ pass' = Admitted(j)
       \/ /\ reservation[j].state = "INTENT"
          /\ CanReleaseUsage(usage, ScopesOf[j], reservation[j].demand)
          /\ \E p \in pass.policy :
               ~AdmissionFits(p.limit, usage, ScopesOf[j], reservation[j])
          /\ pass' = [Chosen EXCEPT !.todo = @ \ {j}]
          /\ UNCHANGED <<quota, claim>>
    /\ UNCHANGED <<job, runtime, command, policies>>

\* ClaimEligible: every eligible Job that is due, with a reservation or not.
LegacyClaim ==
    /\ pass.at = "claiming"
    /\ \E due \in SUBSET {j \in Job : Eligible(j)} :
         /\ claim' = claim \cup due
         /\ pass' = [pass EXCEPT !.at = "choosing", !.todo = due]
    /\ UNCHANGED <<job, runtime, quota, command, policies>>

LegacyTake(j) ==
    /\ pass.at = "choosing" /\ pass.legacy
    /\ j \in pass.todo
    /\ pass' = [pass EXCEPT !.at = "creating", !.job = {j}, !.todo = @ \ {j}]
    /\ UNCHANGED <<job, runtime, quota, claim, command, policies>>

\* A limit of the worker is reached.
LegacySkip(j) ==
    /\ pass.at = "choosing" /\ pass.legacy
    /\ j \in pass.todo
    /\ claim' = claim \ {j}
    /\ pass' = [pass EXCEPT !.todo = @ \ {j}]
    /\ UNCHANGED <<job, runtime, quota, command, policies>>

-----------------------------------------------------------------------------
(* admit                                                                   *)

\* A Job that is not known is created, suspended.
Create(j) ==
    /\ pass.at = "creating" /\ j \in pass.job
    /\ \/ /\ ~Known(j)
          /\ runtime[j] = "absent"
          /\ runtime' = [runtime EXCEPT ![j] = "suspended"]
          /\ SetObserved(j, "PAUSED")
       \/ Known(j) /\ UNCHANGED <<runtime, job, quota>>
    /\ pass' = [pass EXCEPT !.at = "resuming"]
    /\ UNCHANGED <<claim, command, policies>>

\* The patch that lets it start.
Resume(j) ==
    /\ pass.at = "resuming" /\ j \in pass.job
    /\ runtime[j] \in {"suspended", "started"}
    /\ runtime' = [runtime EXCEPT ![j] = "started"]
    /\ claim' = IF pass.legacy THEN claim \ {j} ELSE claim
    /\ pass' = Chosen
    /\ UNCHANGED <<job, quota, command, policies>>

\* Either request fails.  What was created may be there without having been
\* recorded.  The legacy scheduler records the error and gives up its claim.
AdmitFails(j) ==
    /\ pass.at \in {"creating", "resuming"} /\ j \in pass.job
    /\ \/ UNCHANGED runtime
       \/ /\ pass.at = "creating" /\ runtime[j] = "absent"
          /\ runtime' = [runtime EXCEPT ![j] = "suspended"]
    /\ IF pass.legacy
       THEN /\ claim' = claim \ {j}
            /\ job' = [job EXCEPT ![j].missing = FALSE]
            /\ pass' = Chosen
       ELSE /\ pass' = [pass EXCEPT !.at = "abandoning"]
            /\ UNCHANGED <<job, claim>>
    /\ UNCHANGED <<quota, command, policies>>

\* Either request has an outcome that is not known.
AdmitUncertain(j) ==
    /\ j \in pass.job
    /\ \/ /\ pass.at = "creating" /\ runtime[j] = "absent"
          /\ runtime' = [runtime EXCEPT ![j] = "suspended"]
       \/ /\ pass.at = "resuming" /\ runtime[j] = "suspended"
          /\ runtime' = [runtime EXCEPT ![j] = "started"]
    /\ pass' = Idle
    /\ UNCHANGED <<job, quota, claim, command, policies>>

\* Mutant: what has been released is queued again too.
AbandonReleased(j) ==
    /\ pass.at = "abandoning" /\ j \in pass.job
    /\ usage' = AddUsage(usage, ScopesOf[j], {"queued"})
    /\ reservation' = [reservation EXCEPT ![j] = Requeued(@)]
    /\ claim' = claim \ {j}
    /\ pass' = Chosen
    /\ UNCHANGED <<job, runtime, command, policies>>

\* AbandonRuntimeAdmission: the Job is queued again.  The transaction fails,
\* and ends the pass, when the reservation has been released meanwhile.
Abandon(j) ==
    /\ pass.at = "abandoning" /\ j \in pass.job
    /\ \/ /\ reservation[j].state = "RESERVED"
          /\ CanReleaseUsage(usage, ScopesOf[j], reservation[j].demand)
          /\ usage' = RequeuedUsage(usage, ScopesOf[j], reservation[j])
          /\ reservation' = [reservation EXCEPT ![j] = Requeued(@)]
       \/ reservation[j].state \in {"NONE", "INTENT"} /\ UNCHANGED quota
    /\ claim' = claim \ {j}
    /\ pass' = Chosen
    /\ UNCHANGED <<job, runtime, command, policies>>

-----------------------------------------------------------------------------
(* Time and the cluster                                                    *)

ClaimExpires(j) ==
    /\ j \in claim
    /\ claim' = claim \ {j}
    /\ UNCHANGED <<job, runtime, quota, command, pass, policies>>

Finish(j) ==
    /\ runtime[j] = "started"
    /\ runtime' = [runtime EXCEPT ![j] = "finished"]
    /\ UNCHANGED <<job, quota, claim, command, pass, policies>>

\* Somebody deletes the object.
Vanish(j) ==
    /\ runtime[j] \in {"suspended", "started", "finished"}
    /\ runtime' = [runtime EXCEPT ![j] = "deleted"]
    /\ UNCHANGED <<job, quota, claim, command, pass, policies>>

Next ==
    \/ \E j \in Job :
         \/ Compose(j) \/ Reject(j) \/ Submit(j) \/ WriteArchive(j)
         \/ \E target \in Targets : ReadCommand(j, target) \/ WriteCommand(j, target)
         \/ Observe(j) \/ ObserveAbsence(j)
         \/ ApplyPause(j) \/ ApplyDelete(j)
         \/ Choose(j) \/ CommitConflicts(j) \/ Commit(j) \/ LegacyTake(j) \/ LegacySkip(j)
         \/ Create(j) \/ Resume(j) \/ AdmitFails(j) \/ AdmitUncertain(j) \/ Abandon(j)
         \/ ClaimExpires(j) \/ Finish(j) \/ Vanish(j)
    \/ BeginPass \/ EndPass \/ LegacyClaim \/ UpdatePolicy \/ AddPolicy

Spec == Init /\ [][Next]_vars

-----------------------------------------------------------------------------
(* Properties                                                              *)

\* Types of the variables.
TypeOK ==
    /\ job \in [Job -> Jobs]
    /\ runtime \in [Job -> Runtimes]
    /\ reservation \in [Job -> Reservations]
    /\ usage \in Usages
    /\ claim \subseteq Job
    /\ command \subseteq Commands
    /\ policy \in Policies
    /\ composed \in [Job -> SUBSET Limits]
    /\ pass \in Passes

\* The counters are what the reservations hold, in every scope: through
\* replays, rejections, abandoned admissions, cancellations in the middle of
\* an admission and archiving, no unit is lost or released twice.
UsageIsHeld ==
    \A s \in Scope, c \in Counter :
        usage[s][c] = Cardinality({j \in Job : s \in ScopesOf[j] /\ c \in Held(reservation[j])})

\* The limits that a request for the Job goes by: those that its submission has
\* composed, or those of an admission if no policy was updated since.
Decides(j) ==
    composed[j] \cup
      {p.limit : p \in {q \in pass.policy : j \in pass.job /\ q.version = policy.version}}

\* However requests race, what quota counts of the Jobs admitted, or retained,
\* in a scope grows only by a submission or an admission, and not above the
\* limit that this one goes by: neither by the return of an abandoned admission
\* to the queue nor by an end.  If limits stay as they are, no scope ever has
\* more.  Jobs that the legacy scheduler starts are not counted.
WithinLimits ==
    [][\A s \in Scope, c \in {"concurrent", "retained"} :
         usage'[s][c] > usage[s][c] =>
           \E j \in Job : \E limit \in Decides(j) :
             reservation'[j] # reservation[j] /\ usage'[s][c] <= limit[s][c]]_quota

\* A Job that has been cancelled, or whose end has been observed, keeps no
\* place in the queue and none among the running, whichever actor recorded
\* its end and whatever pass was under way.
EndedHoldsNothing ==
    \A j \in Job :
        job[j].observed \in {"FINISHED", "CANCELLED"} \/ job[j].desired = "CANCELLED"
            => ~Open(reservation[j])

\* Quota that was given back is not taken again by an admission that began
\* before.
ReleasedStaysReleased ==
    [][\A j \in Job : reservation[j].state = "RELEASED" =>
          /\ reservation'[j].state = "RELEASED"
          /\ reservation'[j].demand \subseteq reservation[j].demand
      ]_reservation
=============================================================================

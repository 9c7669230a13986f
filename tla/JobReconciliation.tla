-------------------------- MODULE JobReconciliation --------------------------
(***************************************************************************)
(* One managed Job between its row, its object in Kubernetes and the       *)
(* workers that reconcile them (reconciler/reconciler.go).  Every worker    *)
(* discovers: it compares what its informer has cached, which may be old,  *)
(* with the row, and writes what it saw under the resource version it read *)
(* (SetObserved, MarkMissing, MarkOutOfScope and RecordReconcileError of    *)
(* adapters/persistence/sqlstore.go).  The worker that leads goes on to     *)
(* apply the command that is wanted and to admit the Job, by requests that *)
(* Kubernetes accepts only for the UID and the version the row had         *)
(* (adapters/kubernetes/client.go).                                         *)
(*                                                                         *)
(* Workers crash, lead in turn, and are rolled out with another namespace  *)
(* scope; requests fail or lose their answer; users command the Job and    *)
(* meddle with its object.  Each of these is bounded, so that in the end   *)
(* only informers and workers go on.  Who may lead and mutate is the       *)
(* subject of LeadershipManager and MutationFence, quota and claims that   *)
(* of QuotaAdmission: here a request is sent by the worker that leads when *)
(* it is sent.  A statement that only reads is part of the step before the *)
(* write that depends on it: an informer may lag anyway.  Deletion is      *)
(* immediate, and so is the first active Pod of a Job that may start.      *)
(***************************************************************************)
EXTENDS Naturals, FiniteSets

CONSTANTS
    Worker,
    MaxEvents   \* bound: commands, faults, changes of leader and scope, and
                \* deletions and replacements of the object by others

ASSUME ReconciliationAssumption ==
    /\ IsFiniteSet(Worker) /\ Worker # {}
    /\ MaxEvents \in Nat

VARIABLES
    row,           \* the Job in table jobs
    ledger,        \* its request "create" in table reconciliation_mutations
    object,        \* its object in Kubernetes
    versions,      \* the last resource version Kubernetes has given
    cache,         \* what the informer of a worker has of the object
    worker,        \* what a worker is doing
    leader,        \* the worker that holds the lease
    scope,         \* whether a worker runs with the namespace in scope
    configured,    \* whether the namespace is configured to be in scope
    left           \* events that may still happen

jobVars == <<row, ledger, object, versions, cache, worker, leader, scope, configured, left>>

\* FINISHED is COMPLETED or FAILED, RUNNING also QUEUED as an observation.  UID
\* 0 and version 0 are the empty strings.
States == {"CREATED", "RUNNING", "PAUSED", "FINISHED", "CANCELLED"}
Rows == [desired : {"QUEUED", "PAUSED", "CANCELLED"}, observed : States, uid : Nat, version : Nat,
         mode : {"MANAGED", "CONFLICTED"},
         sync : {"SYNCED", "PENDING", "MISSING", "ERROR", "OUT_OF_SCOPE", "CONFLICTED"},
         waiting : BOOLEAN, archived : BOOLEAN]
Intent == [desired |-> "QUEUED", observed |-> "CREATED", uid |-> 0, version |-> 0,
           mode |-> "MANAGED", sync |-> "PENDING", waiting |-> FALSE, archived |-> FALSE]

Objects == [uid : Nat, version : Nat, state : {"absent", "suspended", "started", "finished"}]
Absent == [uid |-> 0, version |-> 0, state |-> "absent"]

\* The outcome of a request that was begun and is not known is a DOUBT.
Ledgers == {"READY", "DOUBT", "SUCCEEDED"}

Phases == {"idle", "noting", "missing", "discovered", "commanding", "admitting", "recording",
           "resuming"}
Workers == [at : Phases, seen : Objects, row : Rows]
Idle == [at |-> "idle", seen |-> Absent, row |-> Intent]

Targets == {"QUEUED", "PAUSED", "CANCELLED"}

ReconciliationInit ==
    /\ row = Intent
    /\ ledger = "READY"
    /\ object = Absent
    /\ versions = 0
    /\ cache = [w \in Worker |-> Absent]
    /\ worker = [w \in Worker |-> Idle]
    /\ leader = CHOOSE w \in Worker : TRUE
    /\ scope = [w \in Worker |-> TRUE]
    /\ configured = TRUE
    /\ left = MaxEvents

Event == left > 0 /\ left' = left - 1

\* What only requests to Kubernetes and only rollouts change.
cluster == <<ledger, object, versions>>
control == <<leader, scope, configured>>

\* What later steps of a pass use of a row that was read.
Read(r) == [r EXCEPT !.waiting = FALSE, !.archived = FALSE, !.sync = "PENDING"]

Go(w, phase, r) == worker' = [worker EXCEPT ![w] = [@ EXCEPT !.at = phase, !.row = Read(r)]]
Rest(w) == worker' = [worker EXCEPT ![w] = Idle]

\* The end of the discovery: a follower has nothing else to do.
Discovered(w) ==
    worker' = [worker EXCEPT ![w] = IF leader = w THEN [Idle EXCEPT !.at = "discovered"] ELSE Idle]

-----------------------------------------------------------------------------
(* What is written of the Job                                              *)

\* Job.Terminal
Terminal(r) == r.observed = "FINISHED" \/ r.desired = "CANCELLED"

\* SynchronizationStatus
SynchronizationStatus(desired, observed) ==
    IF \/ desired = "QUEUED" /\ observed \in {"CREATED", "PAUSED"}
       \/ desired # "QUEUED" /\ observed = desired
    THEN "SYNCED" ELSE "PENDING"

\* kube.ObservationOf
ObservationOf(o) ==
    CASE o.state = "suspended" -> "PAUSED"
      [] o.state = "started"   -> "RUNNING"
      [] OTHER                 -> "FINISHED"

\* Mutant: nothing is written when the version is the one the row has.
SetObservedIfChanged(read, new) ==
    row' = IF row.version = read.version /\ row.version # new.version
           THEN [new EXCEPT !.waiting = FALSE, !.desired = row.desired, !.archived = row.archived,
                            !.uid = IF new.uid = 0 THEN row.uid ELSE new.uid]
           ELSE row

\* SetObserved: what was observed of the Job as it was read replaces what the
\* row has, if the row still has the version that was read; else nothing is
\* written, and that is no error.  A retry is due at once.
SetObserved(read, new) ==
    row' = IF row.version = read.version
           THEN [new EXCEPT !.waiting = FALSE, !.desired = row.desired, !.archived = row.archived,
                            !.uid = IF new.uid = 0 THEN row.uid ELSE new.uid]
           ELSE row

\* Mutant: a Job with an error is left alone.
MarkMissingUnlessError(read) ==
    row' = IF row.uid = read.uid /\ row.version = read.version /\ row.sync # "ERROR"
           THEN [row EXCEPT !.sync = "MISSING"] ELSE row

\* MarkMissing
MarkMissing(read) ==
    row' = IF row.uid = read.uid /\ row.version = read.version
           THEN [row EXCEPT !.sync = "MISSING"] ELSE row

\* RecordReconcileError
RecordReconcileError(read) ==
    row' = IF row.version = read.version
           THEN [row EXCEPT !.sync = "ERROR", !.waiting = TRUE] ELSE row

\* What discover, or a deletion that finds nothing, records of a Job that was
\* cancelled.
Terminated(r) == [r EXCEPT !.observed = "CANCELLED", !.mode = "MANAGED", !.sync = "SYNCED"]

-----------------------------------------------------------------------------
(* Discovery, by every worker                                              *)

\* markOutOfScope, by a worker whose scope does not have the namespace: it
\* discovers nothing there.
MarkOutOfScope(w) ==
    /\ worker[w].at = "idle" /\ ~scope[w]
    /\ row' = IF row.archived THEN row ELSE [row EXCEPT !.sync = "OUT_OF_SCOPE"]
    /\ Discovered(w)
    /\ UNCHANGED <<cluster, cache, control, left>>

\* The stored Job, if its UID is not among the objects that were listed.
Unlisted(r, o) == ~r.archived /\ r.uid \notin {0, o.uid}

\* discover: the objects the informer has, and then the Job.
ListJobs(w) ==
    /\ worker[w].at = "idle" /\ scope[w]
    /\ IF cache[w] # Absent
       THEN worker' = [worker EXCEPT ![w] = [at |-> "noting", seen |-> cache[w], row |-> Read(row)]]
       ELSE IF Unlisted(row, Absent) THEN Go(w, "missing", row) ELSE Discovered(w)
    /\ UNCHANGED <<row, cluster, cache, control, left>>

\* Mutant: an object is taken for the Job's because it bears its label.
NotedByLabel(r, o) ==
    [r EXCEPT !.observed = ObservationOf(o), !.uid = o.uid, !.version = o.version,
              !.mode = "MANAGED", !.sync = SynchronizationStatus(r.desired, ObservationOf(o))]

\* An object with another identity than the Job's is a conflict; the state of
\* the Job's own is recorded, and with it the UID of a Job that has none.
Noted(r, o) ==
    IF r.uid \notin {0, o.uid}
    THEN [r EXCEPT !.version = o.version, !.mode = "CONFLICTED", !.sync = "CONFLICTED"]
    ELSE [r EXCEPT !.observed = ObservationOf(o), !.uid = o.uid, !.version = o.version,
                   !.mode = "MANAGED",
                   !.sync = SynchronizationStatus(r.desired, ObservationOf(o))]

Note(w) ==
    /\ worker[w].at = "noting"
    /\ SetObserved(worker[w].row, Noted(worker[w].row, worker[w].seen))
    /\ IF Unlisted(row', worker[w].seen) THEN Go(w, "missing", row') ELSE Discovered(w)
    /\ UNCHANGED <<cluster, cache, control, left>>

\* Absence ends a Job that was cancelled; another is missing.
NoteAbsence(w) ==
    /\ worker[w].at = "missing"
    /\ LET r == worker[w].row IN
         IF r.desired = "CANCELLED" /\ r.observed # "CANCELLED" THEN SetObserved(r, Terminated(r))
         ELSE IF Terminal(r) THEN UNCHANGED row ELSE MarkMissing(r)
    /\ Discovered(w)
    /\ UNCHANGED <<cluster, cache, control, left>>

-----------------------------------------------------------------------------
(* The leader's pass: commands                                             *)

\* applyCommands
Commandable(r) ==
    /\ r.uid # 0 /\ r.mode = "MANAGED" /\ ~r.waiting /\ ~r.archived
    /\ r.sync \notin {"MISSING", "OUT_OF_SCOPE", "CONFLICTED"}
ToSuspend(r) == r.desired = "PAUSED" /\ r.observed # "PAUSED" /\ ~Terminal(r)
ToDelete(r) == r.desired = "CANCELLED" /\ r.observed # "CANCELLED"

\* The candidates of schedule, and ClaimEligible.
Eligible(r) ==
    /\ r.desired = "QUEUED" /\ r.observed \in {"CREATED", "PAUSED"} /\ r.mode = "MANAGED"
    /\ r.sync \notin {"MISSING", "OUT_OF_SCOPE", "CONFLICTED"}
    /\ ~r.archived /\ ~r.waiting

\* Reconcile lists the Jobs: the Job has a command, or it is admitted.
BeginPass(w) ==
    /\ worker[w].at = "discovered"
    /\ CASE leader # w -> Rest(w)
         [] leader = w /\ Commandable(row) /\ (ToSuspend(row) \/ ToDelete(row)) ->
              Go(w, "commanding", row)
         [] leader = w /\ Eligible(row) -> Go(w, "admitting", row)
         [] OTHER -> Rest(w)
    /\ UNCHANGED <<row, cluster, cache, control, left>>

\* Kubernetes carries out a request for the UID and the version it names.
Accepts(uid, version) == object.uid = uid /\ object.version = version

\* Suspend: a patch that changes nothing gives no new version.
Patched(suspended) ==
    IF object.state = IF suspended THEN "started" ELSE "suspended"
    THEN /\ object' = [object EXCEPT !.state = IF suspended THEN "suspended" ELSE "started",
                                     !.version = versions + 1]
         /\ versions' = versions + 1
    ELSE UNCHANGED <<object, versions>>

\* A request that Kubernetes refuses is recorded as the Job's error.
Suspend(w) ==
    /\ worker[w].at = "commanding" /\ leader = w
    /\ LET r == worker[w].row IN
         /\ ToSuspend(r)
         /\ IF Accepts(r.uid, r.version)
            THEN Patched(TRUE) /\ UNCHANGED row
            ELSE RecordReconcileError(r) /\ UNCHANGED <<object, versions>>
    /\ Rest(w)
    /\ UNCHANGED <<ledger, cache, control, left>>

DeleteJob(w) ==
    /\ worker[w].at = "commanding" /\ leader = w
    /\ LET r == worker[w].row IN
         /\ ToDelete(r)
         /\ IF Accepts(r.uid, r.version) THEN object' = Absent /\ UNCHANGED row
            ELSE /\ UNCHANGED object
                 /\ IF object = Absent THEN SetObserved(r, Terminated(r))
                    ELSE RecordReconcileError(r)
    /\ Rest(w)
    /\ UNCHANGED <<ledger, versions, cache, control, left>>

-----------------------------------------------------------------------------
(* The leader's pass: admission                                            *)

\* The admission failed: the legacy scheduler records the error of the Job as
\* it was read, AbandonRuntimeAdmission makes it wait.
AdmissionFails(w) ==
    /\ \/ RecordReconcileError(worker[w].row)
       \/ row' = IF row.desired = "QUEUED" THEN [row EXCEPT !.waiting = TRUE] ELSE row
    /\ Rest(w)

\* admit, for a Job without a UID: the request is sent unless it is known to
\* have succeeded.  A doubt is resolved as absence, because no UID was seen;
\* the name is what keeps the Job from being created twice.
Create(w) ==
    /\ worker[w].at = "admitting" /\ worker[w].row.uid = 0 /\ leader = w
    /\ CASE ledger = "SUCCEEDED" ->
              worker' = [worker EXCEPT ![w].at = "recording"] /\ UNCHANGED <<row, cluster>>
         [] ledger # "SUCCEEDED" /\ object = Absent ->
              /\ object' = [uid |-> versions + 1, version |-> versions + 1, state |-> "suspended"]
              /\ versions' = versions + 1
              /\ ledger' = "SUCCEEDED"
              /\ worker' = [worker EXCEPT ![w].at = "recording", ![w].seen = object']
              /\ UNCHANGED row
         [] OTHER ->
              AdmissionFails(w) /\ ledger' = "READY" /\ UNCHANGED <<object, versions>>
    /\ UNCHANGED <<cache, control, left>>

\* The Job is recorded as created suspended.  After a success that was only
\* remembered the answer is empty, and so are the UID and the version.
RecordCreated(w) ==
    /\ worker[w].at = "recording"
    /\ LET r == worker[w].row
           o == worker[w].seen
       IN SetObserved(r, [r EXCEPT !.observed = "PAUSED", !.uid = o.uid, !.version = o.version,
                                   !.sync = "PENDING"])
    /\ worker' = [worker EXCEPT ![w].at = "resuming"]
    /\ UNCHANGED <<cluster, cache, control, left>>

ReadyToResume(w) ==
    \/ worker[w].at = "resuming"
    \/ worker[w].at = "admitting" /\ worker[w].row.uid # 0

\* The object the resumption names: what was created, or what the row had.
Named(w) ==
    IF worker[w].at = "resuming" THEN worker[w].seen
    ELSE [uid |-> worker[w].row.uid, version |-> worker[w].row.version]

\* The patch that lets the Job start; without a name it is refused.
Resume(w) ==
    /\ ReadyToResume(w) /\ leader = w
    /\ IF Named(w).uid # 0 /\ Accepts(Named(w).uid, Named(w).version)
       THEN Patched(FALSE) /\ Rest(w) /\ UNCHANGED row
       ELSE AdmissionFails(w) /\ UNCHANGED <<object, versions>>
    /\ UNCHANGED <<ledger, cache, control, left>>

\* Revalidate: another worker leads, and nothing is sent any more.
LeadershipLost(w) ==
    /\ leader # w
    /\ worker[w].at \in {"commanding", "admitting", "resuming"}
    /\ Rest(w)
    /\ UNCHANGED <<row, cluster, cache, control, left>>

-----------------------------------------------------------------------------
(* What goes wrong                                                         *)

\* Kubernetes fails a request that it has not carried out.
RequestFails(w) ==
    /\ Event
    /\ leader = w
    /\ \/ /\ worker[w].at = "commanding"
          /\ ToSuspend(worker[w].row) \/ ToDelete(worker[w].row)
          /\ RecordReconcileError(worker[w].row)
          /\ Rest(w)
          /\ UNCHANGED ledger
       \/ /\ ReadyToResume(w)
          /\ AdmissionFails(w)
          /\ UNCHANGED ledger
       \/ /\ worker[w].at = "admitting" /\ worker[w].row.uid = 0 /\ ledger # "SUCCEEDED"
          /\ AdmissionFails(w)
          /\ ledger' = "READY"
    /\ UNCHANGED <<object, versions, cache, control>>

\* The answer to a request is lost, whether or not it was carried out: the
\* outcome is uncertain and ends the pass.
AnswerLost(w) ==
    /\ Event
    /\ leader = w
    /\ \/ /\ worker[w].at = "commanding" /\ ToSuspend(worker[w].row)
          /\ IF Accepts(worker[w].row.uid, worker[w].row.version)
             THEN Patched(TRUE) ELSE UNCHANGED <<object, versions>>
       \/ /\ worker[w].at = "commanding" /\ ToDelete(worker[w].row)
          /\ Accepts(worker[w].row.uid, worker[w].row.version)
          /\ object' = Absent /\ UNCHANGED versions
       \/ /\ ReadyToResume(w) /\ Accepts(Named(w).uid, Named(w).version) /\ Named(w).uid # 0
          /\ Patched(FALSE)
    /\ Rest(w)
    /\ UNCHANGED <<row, ledger, cache, control>>

\* The same for the creation: its attempt stays in doubt.
CreationLost(w) ==
    /\ Event
    /\ worker[w].at = "admitting" /\ worker[w].row.uid = 0 /\ leader = w
    /\ ledger # "SUCCEEDED" /\ object = Absent
    /\ object' = [uid |-> versions + 1, version |-> versions + 1, state |-> "suspended"]
    /\ versions' = versions + 1
    /\ ledger' = "DOUBT"
    /\ Rest(w)
    /\ UNCHANGED <<row, cache, control>>

\* The process is gone, and starts again with the scope that is configured.
Restart(w) ==
    /\ worker' = [worker EXCEPT ![w] = Idle]
    /\ cache' = [cache EXCEPT ![w] = object]
    /\ scope' = [scope EXCEPT ![w] = configured]
    /\ UNCHANGED <<row, cluster, leader, configured>>

Crash(w) == worker[w].at # "idle" /\ Event /\ Restart(w)

\* The rollout of another scope.
RollOut(w) == scope[w] # configured /\ Restart(w) /\ UNCHANGED left

ChangeScope ==
    /\ Event
    /\ configured' = ~configured
    /\ UNCHANGED <<row, cluster, cache, worker, leader, scope>>

ChangeLeader ==
    /\ Event
    /\ leader' \in Worker \ {leader}
    /\ UNCHANGED <<row, cluster, cache, worker, scope, configured>>

-----------------------------------------------------------------------------
(* Users, the cluster and time                                             *)

\* CanTransition
CanTransition(from, to) ==
    CASE to = "QUEUED"    -> from = "PAUSED"
      [] to = "PAUSED"    -> from = "QUEUED"
      [] to = "CANCELLED" -> from # "CANCELLED"

\* Command, with SetDesiredState.  Requests that overlap are the subject of
\* QuotaAdmission.
Command(target) ==
    /\ Event
    /\ ~row.archived /\ configured /\ row.sync # "OUT_OF_SCOPE" /\ row.mode = "MANAGED"
    /\ ~Terminal(row) /\ CanTransition(row.desired, target)
    /\ row' = [row EXCEPT !.desired = target, !.sync = "PENDING", !.waiting = FALSE]
    /\ UNCHANGED <<cluster, cache, worker, control>>

\* Archive
Archive ==
    /\ Event
    /\ ~row.archived /\ row.sync \in {"MISSING", "OUT_OF_SCOPE", "CONFLICTED"}
    /\ row' = [row EXCEPT !.archived = TRUE]
    /\ UNCHANGED <<cluster, cache, worker, control>>

\* Somebody else deletes the object, or puts another with its name and its
\* labels in its place.
Meddle ==
    /\ Event
    /\ object # Absent
    /\ \/ object' = Absent /\ UNCHANGED versions
       \/ /\ object' = [uid |-> versions + 1, version |-> versions + 1, state |-> "started"]
          /\ versions' = versions + 1
    /\ UNCHANGED <<row, ledger, cache, worker, control>>

\* The Pods end.
Finish ==
    /\ object.state = "started"
    /\ object' = [object EXCEPT !.state = "finished", !.version = versions + 1]
    /\ versions' = versions + 1
    /\ UNCHANGED <<row, ledger, cache, worker, control, left>>

\* The informer catches up.
InformerSync(w) ==
    /\ cache[w] # object
    /\ cache' = [cache EXCEPT ![w] = object]
    /\ UNCHANGED <<row, cluster, worker, control, left>>

RetryIsDue ==
    /\ row.waiting
    /\ row' = [row EXCEPT !.waiting = FALSE]
    /\ UNCHANGED <<cluster, cache, worker, control, left>>

-----------------------------------------------------------------------------

Discover(w) == MarkOutOfScope(w) \/ ListJobs(w) \/ Note(w) \/ NoteAbsence(w)
Lead(w) ==
    \/ BeginPass(w) \/ Suspend(w) \/ DeleteJob(w)
    \/ Create(w) \/ RecordCreated(w) \/ Resume(w) \/ LeadershipLost(w)

ReconciliationNext ==
    \/ \E w \in Worker :
         \/ Discover(w) \/ Lead(w) \/ InformerSync(w)
         \/ RequestFails(w) \/ AnswerLost(w) \/ CreationLost(w) \/ Crash(w) \/ RollOut(w)
    \/ \E target \in Targets : Command(target)
    \/ Archive \/ ChangeScope \/ ChangeLeader \/ Meddle \/ Finish \/ RetryIsDue

\* Informers catch up, workers take their passes one after the other, retries
\* become due, and a new configuration is rolled out.
Fairness ==
    /\ \A w \in Worker : /\ WF_jobVars(Discover(w) \/ Lead(w))
                         /\ WF_jobVars(InformerSync(w)) /\ WF_jobVars(RollOut(w))
    /\ WF_jobVars(RetryIsDue)

ReconciliationSpec == ReconciliationInit /\ [][ReconciliationNext]_jobVars /\ Fairness
-----------------------------------------------------------------------------
(* Properties                                                              *)

\* Types of the variables.
ReconciliationTypeOK ==
    /\ row \in Rows /\ ledger \in Ledgers
    /\ object \in Objects /\ versions \in Nat
    /\ cache \in [Worker -> Objects] /\ worker \in [Worker -> Workers]
    /\ leader \in Worker /\ scope \in [Worker -> BOOLEAN] /\ configured \in BOOLEAN
    /\ left \in 0..MaxEvents

\* docs/architecture.md: "Claimed durable identities are validated against
\* namespace, name, and UID instead of being rebound silently."  Once an object
\* has been recorded as the Job's, no other ever takes its place: not one that
\* bears its name and labels, nor by a late result of its creation.
AssociationIsForever == [][row.uid # 0 => row'.uid = row.uid]_row

InScope == \A w \in Worker : scope[w]
Gone == row.uid # 0 /\ object.uid # row.uid

\* When nothing else happens any more, what is recorded of a Job is what its
\* object shows, and a Job whose object is gone is missing, in conflict with
\* another, or has ended: older observations of followers, retries and
\* crashes leave nothing behind.
ObservationSettles ==
    <>[](InScope /\ ~row.archived =>
           /\ object # Absent /\ object.uid = row.uid =>
                 row.version = object.version /\ row.observed = ObservationOf(object)
           /\ Gone => row.sync \in {"MISSING", "CONFLICTED"} \/ Terminal(row))

\* A creation that is known to have succeeded, of an object that was gone
\* before any worker saw it; and a Job that no worker ever had an object for
\* when its namespace left the scope for a time.
Unseen == ledger = "SUCCEEDED" /\ row.uid = 0 /\ object = Absent
Stranded == row.uid = 0 /\ row.sync = "OUT_OF_SCOPE"

\* When nothing else happens any more, a Job that was cancelled has no object
\* and one that was paused does not run, even if a worker believed the object
\* absent before it saw it, or it was started by an admission under way; and a
\* Job that is wanted has been started, whatever failed on the way, unless its
\* object was taken away.
DesiredSettles ==
    <>[](InScope /\ ~row.archived /\ ~Gone =>
           /\ row.desired = "CANCELLED" => object = Absent
           /\ row.desired = "PAUSED" => object.state \in {"absent", "suspended", "finished"}
           /\ row.desired = "QUEUED" /\ ~Unseen /\ ~Stranded =>
                object.state \in {"started", "finished"})
=============================================================================

------------------------------- MODULE JobQueue -------------------------------
(***************************************************************************)
(* The waiting Jobs in their order, and the requests that put Jobs into it *)
(* and change it: submissions and retries, which must not make a second    *)
(* Job when they are repeated; edits of one entry under its row's version; *)
(* and reorderings of the whole queue, or of one project's part of it,     *)
(* under the version of the queue.  The same rows are written by commands  *)
(* and by the workers' observations, which change who is in the queue.     *)
(*                                                                         *)
(* Every action on jobs is one transaction.  A reordering locks the table  *)
(* and the row of queue_version; PostgreSQL may pick it, or a submission   *)
(* that holds that row, as the victim of a deadlock, which is one of the   *)
(* failures here.  The requests are those of one principal; the Jobs are   *)
(* MANAGED, in namespaces that every replica manages.                      *)
(***************************************************************************)
EXTENDS Naturals, FiniteSets, SequencesExt

CONSTANTS
  Actor,         \* requests and passes of workers that may be in progress together
  JobProject,
  Key,           \* idempotency keys that a caller chose
  Unnamed,       \* no key; no project: all of them
  FirstProjects, \* the projects of the Jobs that there are at first, in their order
  MaxPriority,   \* bound on the priorities
  MaxPosition,   \* bound on the positions that a caller gives
  MaxJobs,       \* bound on the Jobs
  MaxChanges     \* bound on the changes of the queue's version

ASSUME QueueAssumption ==
  /\ {MaxPriority, MaxPosition, MaxJobs, MaxChanges} \subseteq Nat
  /\ FirstProjects \in Seq(JobProject) /\ Len(FirstProjects) <= MaxJobs
  /\ Unnamed \notin Key /\ Key \cap Nat = {}

VARIABLES
  jobs,          \* the rows of jobs, in the order of created_at, id
  queueVersion,  \* the queue_version of control_plane_metadata
  policy,        \* whether the installation has an admission policy
  actor,         \* [Actor -> what it is about to do, with what it has read]
  answered       \* history: {<<key or parent, Job named in the answer>>}

queueVars == <<jobs, queueVersion, policy, actor, answered>>

Row == [project : JobProject, key : Key \cup {Unnamed}, parent : 0..MaxJobs,
        reserved : BOOLEAN, priority : 0..MaxPriority, position : Nat \ {0},
        desired : {"QUEUED", "PAUSED", "CANCELLED"},
        observed : {"CREATED", "FAILED"},
        sync : {"PENDING", "MISSING"}]

(* What the queue tells apart: CREATED stands for PAUSED also, and FAILED   *)
(* for the states of Jobs that have left; PENDING for every status of an    *)
(* entry, and MISSING for those of Jobs that are no entries.                *)
Waiting(desired, observed, sync) ==
  desired = "QUEUED" /\ observed = "CREATED" /\ sync = "PENDING"

queueMember(row) == Waiting(row.desired, row.observed, row.sync)

Member(project) ==
  {j \in DOMAIN jobs : queueMember(jobs[j]) /\ project \in {Unnamed, jobs[j].project}}

Precedes(i, j) ==
  \/ jobs[i].priority > jobs[j].priority
  \/ /\ jobs[i].priority = jobs[j].priority
     /\ \/ jobs[i].position < jobs[j].position
        \/ jobs[i].position = jobs[j].position /\ i < j

\* The Jobs in their order: a Job's rank tells how many of them precede it.
RankIn(j, rows) == Cardinality({i \in rows : Precedes(i, j)}) + 1
InQueueOrder(rows) ==
  [n \in 1..Cardinality(rows) |-> CHOOSE j \in rows : RankIn(j, rows) = n]

Order(project) == InQueueOrder(Member(project))

AtRest == [at |-> "idle"]
Done(c) == actor' = [actor EXCEPT ![c] = AtRest]

QueueInit ==
  /\ jobs = [j \in DOMAIN FirstProjects |->
       [project |-> FirstProjects[j], key |-> Unnamed, parent |-> 0, reserved |-> FALSE,
        priority |-> 0, position |-> j,
        desired |-> "QUEUED", observed |-> "CREATED", sync |-> "PENDING"]]
  /\ queueVersion = 0
  /\ policy = FALSE
  /\ actor = [c \in Actor |-> AtRest]
  /\ answered = {}

Bump ==
  /\ queueVersion < MaxChanges
  /\ queueVersion' = queueVersion + 1

--------------------------------------------------------------------------------
(* Submissions.  A request that names no key has one generated for it, and  *)
(* is a submission under a key that nobody repeats.  They ask for the       *)
(* default priority; UpdateQueue gives others.                              *)

Identity(input) == IF input.parent # 0 THEN input.parent ELSE input.key

WithKey(key) == {j \in DOMAIN jobs : key # Unnamed /\ jobs[j].key = key}

sameJobIntent(row, input) ==
  /\ row.parent = input.parent
  /\ row.project = input.project
  /\ row.priority = input.priority

\* Mutant: the two lookups are all there is.
AnyInput(input) == TRUE

(* jobs_single_retry_per_attempt and jobs_creator_idempotency_key.          *)
Unique(input) ==
  /\ WithKey(input.key) = {}
  /\ input.parent = 0 \/ \A j \in DOMAIN jobs : jobs[j].parent # input.parent

newJobIntent(input) ==
  [project |-> input.project, key |-> input.key, parent |-> input.parent,
   priority |-> input.priority, reserved |-> policy,
   position |-> Max({jobs[j].position : j \in DOMAIN jobs} \cup {0}) + 1,
   desired |-> "QUEUED", observed |-> "CREATED", sync |-> "PENDING"]

Insert(input) ==
  /\ Unique(input)
  /\ Len(jobs) < MaxJobs
  /\ jobs' = Append(jobs, newJobIntent(input))
  /\ Bump

Answer(c, input, j) ==
  /\ Done(c)
  /\ answered' = IF Identity(input) = Unnamed THEN answered
                 ELSE answered \cup {<<Identity(input), j>>}

(* A retry keeps what its parent was; the service makes no key for it.      *)
RetryOf(j) == [key |-> Unnamed, parent |-> j, project |-> jobs[j].project,
               priority |-> jobs[j].priority]

Input ==
  [key : Key, parent : {0}, project : JobProject, priority : {0}]
    \cup {RetryOf(j) : j \in {i \in DOMAIN jobs :
            jobs[i].observed = "FAILED" \/ jobs[i].desired = "CANCELLED"}}

Submit(c) ==
  \E input \in Input :
    /\ actor[c] = AtRest
    /\ actor' = [actor EXCEPT ![c] =
         [at |-> IF policy THEN "reserving"
                 ELSE IF input.key # Unnamed THEN "looking" ELSE "inserting",
          input |-> input]]
    /\ UNCHANGED <<jobs, queueVersion, policy, answered>>

(* Without a policy: the key is looked up, the row inserted, and when that  *)
(* fails, for whatever reason, the parent and the key are looked up again.  *)
(* The insert may also have been committed when its answer is lost.         *)
LookUp(c) ==
  LET input == actor[c].input  found == WithKey(input.key) IN
  /\ actor[c].at = "looking"
  /\ \/ /\ found = {}
        /\ actor' = [actor EXCEPT ![c].at = "inserting"]
        /\ UNCHANGED answered
     \/ \E j \in found :
          IF sameJobIntent(jobs[j], input) THEN Answer(c, input, j)
          ELSE Done(c) /\ UNCHANGED answered
  /\ UNCHANGED <<jobs, queueVersion, policy>>

Create(c) ==
  LET input == actor[c].input IN
  /\ actor[c].at = "inserting"
  /\ Insert(input)
  /\ \/ Answer(c, input, Len(jobs'))
     \/ /\ actor' = [actor EXCEPT ![c].at = "failed"]
        /\ UNCHANGED answered
  /\ UNCHANGED policy

CreateFails(c) ==
  /\ actor[c].at = "inserting"
  /\ actor' = [actor EXCEPT ![c].at = "failed"]
  /\ UNCHANGED <<jobs, queueVersion, policy, answered>>

LookUpAgain(c) ==
  LET input == actor[c].input
      retry == {j \in DOMAIN jobs : input.parent # 0 /\ jobs[j].parent = input.parent}
      same  == {j \in WithKey(input.key) : sameJobIntent(jobs[j], input)}
  IN
  /\ actor[c].at = "failed"
  /\ IF retry \cup same = {} THEN Done(c) /\ UNCHANGED answered
     ELSE \E j \in retry \cup same : Answer(c, input, j)
  /\ UNCHANGED <<jobs, queueVersion, policy>>

(* With a policy: one transaction, which locks the usage of the namespace   *)
(* and looks for the reservation.  A Job of before the policy has none, and *)
(* then only the indexes refuse a second one.  A replay is also refused     *)
(* when the admission of its Job has changed the demand.                    *)
Reserved(input) ==
  {j \in DOMAIN jobs : /\ jobs[j].reserved
                       /\ \/ input.parent # 0 /\ jobs[j].parent = input.parent
                          \/ j \in WithKey(input.key)}

CreateJobWithQuota(c) ==
  LET input == actor[c].input IN
  /\ actor[c].at = "reserving"
  /\ \/ /\ Reserved(input) = {}
        /\ Insert(input)
        /\ \/ Answer(c, input, Len(jobs'))
           \/ Done(c) /\ UNCHANGED answered
     \/ \E j \in Reserved(input) :
          /\ sameJobIntent(jobs[j], input)
          /\ Answer(c, input, j)
          /\ UNCHANGED <<jobs, queueVersion>>
  /\ UNCHANGED policy

ConfigurePolicy ==
  /\ ~policy /\ policy' = TRUE
  /\ UNCHANGED <<jobs, queueVersion, actor, answered>>

--------------------------------------------------------------------------------
(* Looking at the queue, and changing what was seen *)

(* One snapshot of the order and its version.                               *)
QueueInProjects(c) ==
  \E project \in JobProject \cup {Unnamed} :
    /\ actor[c] = AtRest
    /\ Member(project) # {}
    /\ actor' = [actor EXCEPT ![c] =
         [at |-> "queue", project |-> project, order |-> Order(project),
          version |-> queueVersion]]
    /\ UNCHANGED <<jobs, queueVersion, policy, answered>>

(* The caller closes the page, or what it asks for fails.                   *)
Leave(c) ==
  /\ actor[c].at \in {"queue", "command", "reserving"}
  /\ Done(c)
  /\ UNCHANGED <<jobs, queueVersion, policy, answered>>

Write(j, row) == jobs' = [jobs EXCEPT ![j] = row]

\* Mutant: an edit of one entry is no news to those who saw the queue.
UpdateQueueQuietly ==
  \E j \in DOMAIN jobs, priority \in 0..MaxPriority, position \in 1..MaxPosition :
    /\ jobs[j].desired = "QUEUED"
    /\ Write(j, [jobs[j] EXCEPT !.priority = priority, !.position = position])
    /\ UNCHANGED <<queueVersion, policy, actor, answered>>

(* The caller gives the version of the row that it looked at, and nothing   *)
(* happens when the row has another one; the entry need not be waiting.     *)
UpdateQueue ==
  \E j \in DOMAIN jobs, priority \in 0..MaxPriority, position \in 1..MaxPosition :
    /\ jobs[j].desired = "QUEUED"
    /\ Write(j, [jobs[j] EXCEPT !.priority = priority, !.position = position])
    /\ Bump
    /\ UNCHANGED <<policy, actor, answered>>

(* The identifiers are all the members there are now, each once, and their  *)
(* priorities do not rise.                                                  *)
Acceptable(ids, project) ==
  /\ ToSet(ids) = Member(project)
  /\ Len(ids) = Cardinality(Member(project))
  /\ \A n \in 1..Len(ids) - 1 : jobs[ids[n]].priority >= jobs[ids[n + 1]].priority

\* Mutant: a project's Jobs are counted as all of them are.
PositionsFromOne(project) == [n \in 1..Cardinality(Member(project)) |-> n]

(* All: 1, 2, ...; a project: the positions that its Jobs have, in order.   *)
Positions(project) ==
  LET order == Order(project) IN
  [n \in 1..Len(order) |-> IF project = Unnamed THEN n ELSE jobs[order[n]].position]

Place(ids, positions) ==
  [j \in DOMAIN jobs |->
     IF j \notin ToSet(ids) THEN jobs[j]
     ELSE [jobs[j] EXCEPT !.position = positions[CHOOSE n \in DOMAIN ids : ids[n] = j]]]

Reorder(c, ids) ==
  LET project == actor[c].project IN
  /\ actor[c].at = "queue"
  /\ queueVersion = actor[c].version
  /\ Acceptable(ids, project)
  /\ jobs' = Place(ids, Positions(project))
  /\ Bump
  /\ Done(c)
  /\ UNCHANGED <<policy, answered>>

(* The caller gives the Jobs that it saw in another order.                  *)
ReorderSeen(c) ==
  /\ actor[c].at = "queue"
  /\ \E ids \in SetToSeqs(ToSet(actor[c].order)) : Reorder(c, ids)

--------------------------------------------------------------------------------
(* The other writers of the rows *)

(* The row is read before the transaction, and what was read decides        *)
(* whether the version of the queue changes.  pause, resume and terminate.  *)
Terminal(row) == row.observed = "FAILED" \/ row.desired = "CANCELLED"

Command(c) ==
  \E j \in DOMAIN jobs, desired \in {"QUEUED", "PAUSED", "CANCELLED"} :
    /\ actor[c] = AtRest
    /\ ~Terminal(jobs[j]) /\ jobs[j].desired # desired
    /\ actor' = [actor EXCEPT ![c] =
         [at |-> "command", job |-> j, desired |-> desired,
          changes |-> "QUEUED" \in {jobs[j].desired, desired}]]
    /\ UNCHANGED <<jobs, queueVersion, policy, answered>>

SetDesiredState(c) ==
  LET j == actor[c].job IN
  /\ actor[c].at = "command"
  /\ Write(j, [jobs[j] EXCEPT !.desired = actor[c].desired, !.sync = "PENDING"])
  /\ IF actor[c].changes THEN Bump ELSE UNCHANGED queueVersion
  /\ Done(c)
  /\ UNCHANGED <<policy, answered>>

(* External: what Kubernetes shows; a Job that failed stays so.             *)
Observe(c) ==
  \E j \in DOMAIN jobs, observed \in {"CREATED", "FAILED"} :
    /\ actor[c] = AtRest
    /\ jobs[j].observed = "FAILED" => observed = "FAILED"
    /\ actor' = [actor EXCEPT ![c] =
         [at |-> "observed", job |-> j, observed |-> observed,
          changes |-> queueMember(jobs[j]) # Waiting(jobs[j].desired, observed, "PENDING")]]
    /\ UNCHANGED <<jobs, queueVersion, policy, answered>>

(* Or the resource version has moved, and nothing is written.               *)
SetObserved(c) ==
  LET j == actor[c].job IN
  /\ actor[c].at = "observed"
  /\ Done(c)
  /\ \/ UNCHANGED <<jobs, queueVersion>>
     \/ /\ Write(j, [jobs[j] EXCEPT !.observed = actor[c].observed, !.sync = "PENDING"])
        /\ IF actor[c].changes THEN Bump ELSE UNCHANGED queueVersion
  /\ UNCHANGED <<policy, answered>>

(* As Archive and MarkOutOfScope do.                                        *)
MarkMissing ==
  \E j \in DOMAIN jobs :
    /\ jobs[j].sync # "MISSING"
    /\ Write(j, [jobs[j] EXCEPT !.sync = "MISSING"])
    /\ Bump
    /\ UNCHANGED <<policy, actor, answered>>

(* ERROR is a status of entries of the queue, and the queue's version does  *)
(* not tell that a missing Job is one again.                                *)
RecordReconcileError ==
  \E j \in DOMAIN jobs :
    /\ jobs[j].sync # "PENDING"
    /\ Write(j, [jobs[j] EXCEPT !.sync = "PENDING"])
    /\ UNCHANGED <<queueVersion, policy, actor, answered>>

--------------------------------------------------------------------------------
QueueNext ==
  \/ \E c \in Actor :
       \/ Submit(c) \/ LookUp(c) \/ Create(c) \/ CreateFails(c) \/ LookUpAgain(c)
       \/ CreateJobWithQuota(c)
       \/ QueueInProjects(c) \/ Leave(c) \/ ReorderSeen(c)
       \/ Command(c) \/ SetDesiredState(c) \/ Observe(c) \/ SetObserved(c)
  \/ UpdateQueue \/ ConfigurePolicy
  \/ MarkMissing \/ RecordReconcileError

QueueSpec == QueueInit /\ [][QueueNext]_queueVars

--------------------------------------------------------------------------------
(* The rows have the columns, and the queue the version, that were set.     *)
QueueTypeOK ==
  /\ jobs \in Seq(Row) /\ Len(jobs) <= MaxJobs
  /\ queueVersion \in 0..MaxChanges
  /\ policy \in BOOLEAN
  /\ \A answer \in answered : answer[2] \in DOMAIN jobs

Reorders(c) ==
  actor[c].at = "queue" /\ actor'[c] = AtRest /\ queueVersion' # queueVersion

(* A new order that is accepted replaces exactly the order that its caller  *)
(* looked at, although Jobs may enter and leave the queue without a new     *)
(* version of it (RecordReconcileError, and SetDesiredState and SetObserved *)
(* after an old read).                                                      *)
ReorderReplacesWhatWasSeen ==
  [][\A c \in Actor :
       Reorders(c) => Order(actor[c].project) = actor[c].order]_queueVars

NoSharedPlace ==
  \A i, j \in Member(Unnamed) :
    <<jobs[i].priority, jobs[i].position>> = <<jobs[j].priority, jobs[j].position>> => i = j

(* The order that a caller gave is the order that there is: of the queue,   *)
(* or of its project's Jobs, between which those of other projects stay     *)
(* where they were; unless two entries shared a place before, for then the  *)
(* positions that are exchanged do not tell the project's Jobs apart.       *)
ReorderTakesEffect ==
  [][\A c \in Actor : Reorders(c) =>
       \A p \in JobProject \cup {Unnamed} : \A ids \in SetToSeqs(Member(p)) :
         /\ actor[c].project = p /\ Reorder(c, ids)
         /\ p = Unnamed \/ NoSharedPlace
         => /\ Order(p)' = ids
            /\ \A n \in DOMAIN Order(Unnamed) :
                 p \in {Unnamed, jobs[Order(Unnamed)[n]].project}
                   \/ Order(Unnamed)[n] = Order(Unnamed)'[n]]_queueVars

(* However often a submission is repeated under its key, or a retry of the  *)
(* same Job asked for, at once, after a lost answer or across the           *)
(* introduction of a policy, there is one Job, and every answer names it.   *)
OneJobPerKey ==
  /\ \A a, b \in answered : a[1] = b[1] => a = b
  /\ \A i, j \in DOMAIN jobs :
       i # j => /\ jobs[i].key = Unnamed \/ jobs[i].key # jobs[j].key
                /\ jobs[i].parent = 0 \/ jobs[i].parent # jobs[j].parent
=============================================================================

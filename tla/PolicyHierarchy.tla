---------------------------- MODULE PolicyHierarchy ----------------------------
(***************************************************************************)
(* Versioned admission policies of the installation and of its projects     *)
(* (domain/policyquota/policy.go, persistence/policies.go and               *)
(* admission_administration.go, application/admission_administration.go),   *)
(* and what composes them: a submission (application/policyquota.go), which *)
(* asks its priority and its images of them, and the leader's scheduling    *)
(* (schedule of reconciler/reconciler.go), which goes by their quota alone. *)
(*                                                                         *)
(* An update is decided on what one statement read and written by a later   *)
(* transaction, which validates it once more against the parent, whose row  *)
(* it locks.  Rules are optional values, modelled as sets of at most one.   *)
(* One limit stands for the nine limits of quota and the two durations,     *)
(* which are compared in the same way.  Actions of roles, which nothing     *)
(* enforces, and policies of namespaces, which nothing creates, are left    *)
(* out.  Which candidate is selected is the subject of FairScheduler, and   *)
(* whether its demand fits the limit that of QuotaAdmission: both are a     *)
(* choice here.  A project has one Job at a time.                           *)
(***************************************************************************)
EXTENDS Integers, FiniteSets

CONSTANTS
    Project,
    Request,      \* requests of administrators that are served at a time
    Limit,        \* limits and durations
    Priority,     \* priorities
    Registry,     \* image registries
    Asked,        \* rules that administrators ask for
    MaxConflicts, \* conflicts of a pass in a row that end it: 3
    MaxUpdates    \* bound: updates that are begun

None == "none"
Installation == "installation"

ASSUME PolicyAssumption ==
    /\ IsFiniteSet(Project) /\ IsFiniteSet(Request) /\ Installation \notin Project
    /\ Limit \subseteq Nat /\ Priority \subseteq Int
    /\ MaxConflicts \in Nat \ {0} /\ MaxUpdates \in Nat

VARIABLES
    policy,       \* current versions of table policy_scopes, with their rules
    scheduling,   \* scheduling_version of a project
    request,      \* updates under way
    job,          \* the Job of each project, from its submission to its start
    pass,         \* the leader's pass
    left          \* updates that may still be begun

vars == <<policy, scheduling, request, job, pass, left>>

Scope == Project \cup {Installation}

Optional(S) == {{}} \cup {{x} : x \in S}

Ranges == {r \in [min : Priority, max : Priority, default : Priority] :
             r.min <= r.default /\ r.default <= r.max}
Rules == [limit : Optional(Limit), priority : Optional(Ranges),
          registries : Optional(SUBSET Registry)]
NoRules == [limit |-> {}, priority |-> {}, registries |-> {}]

\* Version 0: there is no policy.
Policies == [version : Nat, rules : Rules]
NoPolicy == [version |-> 0, rules |-> NoRules]

Requests == [at : {"idle", "decided", "validated"}, scope : Scope \cup {None},
             version : Nat, scheduling : Nat, rules : Rules]
Idle == [at |-> "idle", scope |-> None, version |-> 0, scheduling |-> 0, rules |-> NoRules]

\* What a Job asks of the rules, besides its quota.
Demands == [priority : Priority, registry : Registry]

\* "composed": its submission has passed the rules, and its transaction is
\* still to come.
Jobs == [at : {"none", "composed", "queued", "admitted"}, demand : Optional(Demands)]
NoJob == [at |-> "none", demand |-> {}]

\* The candidates that a pass has listed and not decided; of the one that it is
\* about to commit, the versions that its policies were composed of, and the
\* limit that came of it.
Passes == [at : {"idle", "legacy", "selecting", "committing", "creating"},
           todo : SUBSET Project, project : Project \cup {None}, applied : [Scope -> Nat],
           limit : Optional(Limit), conflicts : 0..(MaxConflicts - 1)]
NoPass == [at |-> "idle", todo |-> {}, project |-> None, applied |-> [s \in Scope |-> 0],
           limit |-> {}, conflicts |-> 0]

-----------------------------------------------------------------------------
(* Composition                                                             *)

\* normalizeRules
Valid(rules) == rules \in Rules
\* validateComplete
Complete(rules) == rules.limit # {} /\ rules.priority # {}

\* Mutant: whatever the parent leaves open or the child adds is accepted.
NarrowsNumbers(parent, child) ==
    /\ \A p \in parent.limit, c \in child.limit : c <= p
    /\ \A p \in parent.priority, c \in child.priority : p.min <= c.min /\ c.max <= p.max

\* validateNarrowing and validateQuotaNarrowing
Narrows(parent, child) ==
    /\ \A p \in parent.limit, c \in child.limit : c <= p
    /\ \A p \in parent.priority, c \in child.priority : p.min <= c.min /\ c.max <= p.max
    /\ \A p \in parent.registries, c \in child.registries : c \subseteq p

\* overlay
Overlay(parent, child) ==
    [f \in {"limit", "priority", "registries"} |-> IF child[f] = {} THEN parent[f] ELSE child[f]]

\* Compose, of the rules of the installation and those of a project, which are
\* empty if it has no policy.
Composes(parent, child) ==
    /\ Valid(parent) /\ Complete(parent)
    /\ Valid(child) /\ Narrows(parent, child)

\* PolicyHierarchy, in one statement.
InstallationRules == policy[Installation].rules
HierarchyComposes(p) == Composes(InstallationRules, policy[p].rules)
Effective(p) == Overlay(InstallationRules, policy[p].rules)
Applied(p) == [s \in Scope |-> IF s \in {p, Installation} THEN policy[s].version ELSE 0]

\* applyAdmissionPolicy and AllowsImage: what is asked of a submission by
\* complete rules.
Allows(rules, d) ==
    /\ \A r \in rules.priority : r.min <= d.priority /\ d.priority <= r.max
    /\ \A images \in rules.registries : d.registry \in images

-----------------------------------------------------------------------------
\* Setup has written the first policy of the installation.
Init ==
    /\ policy \in [Scope -> {NoPolicy} \cup {[version |-> 1, rules |-> r] : r \in Asked}]
    /\ policy[Installation].version = 1
    /\ Valid(InstallationRules) /\ Complete(InstallationRules)
    /\ \A p \in Project : HierarchyComposes(p)
    /\ scheduling = [p \in Project |-> 1]
    /\ request = [r \in Request |-> Idle]
    /\ job = [p \in Project |-> NoJob]
    /\ pass = NoPass
    /\ left = MaxUpdates

Queue == <<job, pass>>

(* Updates                                                                 *)

Begin(r, s, rules, expected) ==
    /\ left > 0 /\ left' = left - 1
    /\ request[r].at = "idle"
    /\ request' = [request EXCEPT ![r] =
         [at |-> "decided", scope |-> s, version |-> policy[s].version,
          scheduling |-> expected, rules |-> rules]]
    /\ UNCHANGED <<policy, scheduling, Queue>>

\* UpdateInstallationPolicy: the rules are complete and are alone composed.
BeginInstallation(r, rules) ==
    /\ Valid(rules) /\ Complete(rules)
    /\ Begin(r, Installation, rules, 0)

\* UpdateProjectSettings: the rules compose with those of the installation.
BeginProject(r, p, rules) ==
    /\ Composes(InstallationRules, rules)
    /\ Begin(r, p, rules, scheduling[p])

Done(r) == request' = [request EXCEPT ![r] = Idle]

\* Mutant: the parent is read without its lock.
Unlocked(s) == TRUE
\* The row of a parent is locked by the transactions that have validated their
\* rules against it; the row of a project by no other than its own.
Free(s) == s = Installation => \A r \in Request : request[r].at # "validated"

\* validatePolicyAgainstParents, in the transaction: a conflict with the rules
\* of the parent ends it.
ValidatePolicyAgainstParents(r) ==
    /\ request[r].at = "decided" /\ request[r].scope # Installation
    /\ IF Composes(InstallationRules, request[r].rules)
       THEN request' = [request EXCEPT ![r].at = "validated"]
       ELSE Done(r)
    /\ UNCHANGED <<policy, scheduling, Queue, left>>

Advance(r) ==
    LET q == request[r] IN
    policy' = [policy EXCEPT ![q.scope] = [version |-> q.version + 1, rules |-> q.rules]]

\* CompareAndSetPolicy, for the installation.
CompareAndSetPolicy(r) ==
    /\ request[r].at = "decided" /\ request[r].scope = Installation
    /\ Free(Installation)
    /\ IF policy[Installation].version = request[r].version THEN Advance(r) ELSE UNCHANGED policy
    /\ Done(r)
    /\ UNCHANGED <<scheduling, Queue, left>>

\* CompareAndSetProjectAdmission: the policy and the weight of the project are
\* those the administrator saw, or nothing is written.
CompareAndSetProjectAdmission(r) ==
    /\ request[r].at = "validated"
    /\ LET q == request[r] IN
         IF policy[q.scope].version = q.version /\ scheduling[q.scope] = q.scheduling
         THEN Advance(r) /\ scheduling' = [scheduling EXCEPT ![q.scope] = @ + 1]
         ELSE UNCHANGED <<policy, scheduling>>
    /\ Done(r)
    /\ UNCHANGED <<Queue, left>>

\* The request is given up.  So ends a transaction that waited for the lock of
\* a parent another one has changed: the join that it waited in has no row.
GiveUp(r) ==
    /\ request[r].at # "idle"
    /\ Done(r)
    /\ UNCHANGED <<policy, scheduling, Queue, left>>

-----------------------------------------------------------------------------
(* Jobs                                                                    *)

\* Submit: without policies that compose, or against their rules, it is
\* refused.  A priority that is not given is the default, which they allow.
Compose(p) ==
    /\ job[p].at = "none"
    /\ HierarchyComposes(p)
    /\ \E d \in Demands :
         /\ Allows(Effective(p), d)
         /\ job' = [job EXCEPT ![p] = [at |-> "composed", demand |-> {d}]]
    /\ UNCHANGED <<policy, scheduling, request, pass, left>>

\* CreateJobWithQuota, by what was composed: the quota rejects it, or not.
Submit(p) ==
    /\ job[p].at = "composed"
    /\ job' \in {[job EXCEPT ![p].at = "queued"], [job EXCEPT ![p] = NoJob]}
    /\ UNCHANGED <<policy, scheduling, request, pass, left>>

\* A candidate is selected, after some conflicts about the one before.
Select(todo, conflicts) ==
    [NoPass EXCEPT !.at = "selecting", !.todo = todo, !.conflicts = conflicts]

\* SchedulingCandidates lists those that are due.  Without any, the pass falls
\* back to the legacy scheduler.
BeginPass ==
    /\ pass.at = "idle"
    /\ \E due \in SUBSET {p \in Project : job[p].at = "queued"} :
         pass' = IF due = {} THEN [NoPass EXCEPT !.at = "legacy"] ELSE Select(due, 0)
    /\ UNCHANGED <<policy, scheduling, request, job, left>>

\* The leader stops, every candidate is decided, or a limit is reached.
EndPass ==
    /\ pass.at # "idle"
    /\ pass' = NoPass
    /\ UNCHANGED <<policy, scheduling, request, job, left>>

\* scheduleLegacy starts what is eligible by now: it composes nothing.
LegacyAdmit(p) ==
    /\ pass.at = "legacy" /\ job[p].at = "queued"
    /\ job' = [job EXCEPT ![p] = NoJob]
    /\ UNCHANGED <<policy, scheduling, request, pass, left>>

\* The policies of the selected candidate are composed; if they do not compose
\* the pass ends with an error.
Schedule(p) ==
    /\ pass.at = "selecting" /\ p \in pass.todo
    /\ pass' = IF HierarchyComposes(p)
               THEN [pass EXCEPT !.at = "committing", !.project = p, !.applied = Applied(p),
                                 !.limit = Effective(p).limit]
               ELSE NoPass
    /\ UNCHANGED <<policy, scheduling, request, job, left>>

\* Mutant: only the narrowest policy is compared.
NarrowestApplied(p) == pass.applied[p] = policy[p].version

\* validateAppliedPolicyTx: the policies that were composed are the current
\* ones; one that was created since is not looked for.
AppliedPolicy(p) ==
    \A s \in {p, Installation} :
      pass.applied[s] # 0 => pass.applied[s] = policy[s].version

\* A conflict: the policies have changed, or what other modules have, the Job
\* or the stored fairness.  The third one in a row ends the pass.
CommitConflicts ==
    /\ pass.at = "committing"
    /\ pass' = IF pass.conflicts + 1 = MaxConflicts THEN NoPass
               ELSE Select(pass.todo, pass.conflicts + 1)
    /\ UNCHANGED <<policy, scheduling, request, job, left>>

\* CommitRuntimeAdmission: the Job is admitted, or rejected because it does not
\* fit the limit, and looked at again in another pass.
CommitRuntimeAdmission ==
    /\ pass.at = "committing" /\ AppliedPolicy(pass.project)
    /\ LET p == pass.project IN
         \/ /\ job[p].at = "queued"
            /\ job' = [job EXCEPT ![p].at = "admitted"]
            /\ pass' = [pass EXCEPT !.at = "creating", !.todo = @ \ {p}, !.conflicts = 0]
         \/ pass' = Select(pass.todo \ {p}, 0) /\ UNCHANGED job
    /\ UNCHANGED <<policy, scheduling, request, left>>

\* admit: the Job is started.
Admit ==
    /\ pass.at = "creating"
    /\ job' = [job EXCEPT ![pass.project] = NoJob]
    /\ pass' = Select(pass.todo, 0)
    /\ UNCHANGED <<policy, scheduling, request, left>>

\* AbandonRuntimeAdmission, after a request to Kubernetes has failed: the Job
\* is queued again.
Abandon ==
    /\ pass.at = "creating"
    /\ job' = [job EXCEPT ![pass.project].at = "queued"]
    /\ pass' = Select(pass.todo, 0)
    /\ UNCHANGED <<policy, scheduling, request, left>>

-----------------------------------------------------------------------------
Update(r) ==
    \/ \E rules \in Asked :
         BeginInstallation(r, rules) \/ \E p \in Project : BeginProject(r, p, rules)
    \/ ValidatePolicyAgainstParents(r)
    \/ CompareAndSetPolicy(r) \/ CompareAndSetProjectAdmission(r) \/ GiveUp(r)

Next ==
    \/ \E r \in Request : Update(r)
    \/ \E p \in Project : Compose(p) \/ Submit(p) \/ LegacyAdmit(p) \/ Schedule(p)
    \/ BeginPass \/ EndPass \/ CommitConflicts \/ CommitRuntimeAdmission \/ Admit \/ Abandon

Spec == Init /\ [][Next]_vars
-----------------------------------------------------------------------------
(* Properties                                                              *)

\* Types of the variables.
TypeOK ==
    /\ policy \in [Scope -> Policies]
    /\ scheduling \in [Project -> Nat]
    /\ request \in [Request -> Requests]
    /\ job \in [Project -> Jobs]
    /\ pass \in Passes
    /\ left \in 0..MaxUpdates

\* ADR 0012: "the narrower scope allowed to constrain but not expand its
\* parent": when the policy of a project is written it narrows the policy the
\* installation has at that moment, whatever was decided in between.  The
\* installation's may be narrowed afterwards.
AcceptedIsNarrower ==
    [][\A p \in Project :
         policy'[p] # policy[p] => Composes(policy'[Installation].rules, policy'[p].rules)]_vars

\* A submission passes with a priority and images that the installation's
\* policy of the moment of its composition allows, whatever policies the
\* project and the installation have been given, in whatever order.
SubmittedWithinInstallation ==
    [][\A p \in Project : job[p].at = "none" =>
         \A d \in job'[p].demand : Allows(InstallationRules, d)]_vars

\* A Job is admitted by a limit that is not above the installation's of that
\* moment, and is the one of the current policies, whichever were updated since
\* the pass composed them; but a first policy that the project was given since
\* is not looked for, nor is any policy by the legacy scheduler.
AdmittedByCurrentLimit ==
    [][\A p \in Project :
         job[p].at = "queued" /\ job'[p].at = "admitted" =>
           \E m \in pass.limit :
             /\ \A l \in InstallationRules.limit : m <= l
             /\ pass.applied[p] # 0 => Effective(p).limit = {m}]_vars
=============================================================================

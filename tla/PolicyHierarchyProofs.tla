------------------------- MODULE PolicyHierarchyProofs -------------------------
(***************************************************************************)
(* Proofs about PolicyHierarchy, for any number of projects and of          *)
(* administrators, and any limits, priorities and registries: a policy that *)
(* is written is narrower than its parent, what is submitted is within the  *)
(* installation's, and what is admitted goes by the current limits.         *)
(***************************************************************************)
EXTENDS PolicyHierarchy, TLAPS

-----------------------------------------------------------------------------
(* The inductive invariant                                                 *)

\* The installation has a policy, and its rules are complete.
InstallationInv ==
    policy[Installation].version > 0 /\ Complete(InstallationRules)

\* A request that is decided is about some scope; for the installation the
\* rules are complete.  What a transaction has validated against the parent,
\* whose row it locks, composes with the parent as it is now.
Decided(q) ==
    /\ q.at # "idle" => q.scope \in Scope
    /\ q.at = "decided" /\ q.scope = Installation => Complete(q.rules)
    /\ q.at = "validated" => q.scope \in Project /\ Composes(InstallationRules, q.rules)

RequestInv == \A r \in Request : Decided(request[r])

\* Where there is no Job, nothing is asked.
JobInv == \A p \in Project : job[p].at = "none" => job[p].demand = {}

\* The limit of the pass is that of rules that narrow the installation's, and
\* that are the project's if its policy is still the one that was composed.
Composed(p) ==
    \E child \in Rules :
      /\ Narrows(InstallationRules, child)
      /\ pass.limit = Overlay(InstallationRules, child).limit
      /\ pass.applied[p] = policy[p].version => child = policy[p].rules

\* The pass composed no later version of a policy than the current one; if that
\* of the installation is current, its limit is what was composed of it.
PassInv ==
    pass.at = "committing" =>
      /\ pass.project \in Project
      /\ 0 < pass.applied[Installation]
      /\ pass.applied[Installation] <= policy[Installation].version
      /\ pass.applied[pass.project] <= policy[pass.project].version
      /\ pass.applied[Installation] = policy[Installation].version => Composed(pass.project)

IInv == TypeOK /\ InstallationInv /\ RequestInv /\ JobInv /\ PassInv

-----------------------------------------------------------------------------
(* Rules                                                                   *)

\* What the overlay of narrower rules allows, the rules that they narrow allow
\* as well: a rule that the child leaves open is the parent's.
LEMMA OverlayIsWithin ==
    ASSUME NEW parent \in Rules, NEW child \in Rules, Narrows(parent, child),
           NEW d \in Demands, Allows(Overlay(parent, child), d)
    PROVE  Allows(parent, d)
<1> DEFINE o == Overlay(parent, child)
<1>1. /\ o.priority = IF child.priority = {} THEN parent.priority ELSE child.priority
      /\ o.registries = IF child.registries = {} THEN parent.registries ELSE child.registries
  BY DEF Overlay
<1>2. /\ \A x \in parent.priority \cup child.priority : x.min \in Int /\ x.max \in Int
      /\ d.priority \in Int
  <2>1. parent.priority \in Optional(Ranges) /\ child.priority \in Optional(Ranges)
    BY DEF Rules
  <2>2. parent.priority \subseteq Ranges /\ child.priority \subseteq Ranges
    BY <2>1 DEF Optional
  <2>3. \A x \in Ranges : x.min \in Int /\ x.max \in Int
    BY PolicyAssumption DEF Ranges
  <2>4. d.priority \in Int
    BY PolicyAssumption DEF Demands
  <2>5. QED
    BY <2>2, <2>3, <2>4
<1>4. ASSUME NEW p \in parent.priority PROVE p.min <= d.priority /\ d.priority <= p.max
  <2>1. CASE child.priority = {}
    BY <1>1, <1>4, <2>1 DEF Allows
  <2>2. CASE child.priority # {}
    <3>1. PICK c \in child.priority : TRUE
      BY <2>2
    <3>2. c.min <= d.priority /\ d.priority <= c.max /\ p.min <= c.min /\ c.max <= p.max
      BY <1>1, <1>4, <2>2, <3>1 DEF Allows, Narrows
    <3>3. QED
      BY <1>2, <1>4, <3>1, <3>2
  <2>3. QED
    BY <2>1, <2>2
<1>5. ASSUME NEW p \in parent.registries PROVE d.registry \in p
  <2>1. CASE child.registries = {}
    BY <1>1, <1>5, <2>1 DEF Allows
  <2>2. CASE child.registries # {}
    <3>1. PICK c \in child.registries : TRUE
      BY <2>2
    <3>2. d.registry \in c /\ c \subseteq p
      BY <1>1, <1>5, <2>2, <3>1 DEF Allows, Narrows
    <3>3. QED
      BY <3>2
  <2>3. QED
    BY <2>1, <2>2
<1>6. QED
  BY <1>4, <1>5 DEF Allows

\* The limit of the overlay of narrower rules over complete ones is a limit,
\* and not above that of the rules that they narrow.
LEMMA OverlayLimit ==
    ASSUME NEW parent \in Rules, NEW child \in Rules, Complete(parent), Narrows(parent, child)
    PROVE  \E m \in Limit :
             /\ Overlay(parent, child).limit = {m}
             /\ \A l \in parent.limit : m <= l
<1>1. Overlay(parent, child).limit = IF child.limit = {} THEN parent.limit ELSE child.limit
  BY DEF Overlay
<1>2. parent.limit \in Optional(Limit) /\ child.limit \in Optional(Limit) /\ parent.limit # {}
  BY DEF Rules, Complete
<1>3. PICK l \in Limit : parent.limit = {l}
  BY <1>2 DEF Optional
<1>4. l <= l
  BY <1>3, PolicyAssumption
<1>5. CASE child.limit = {}
  BY <1>1, <1>3, <1>4, <1>5
<1>6. CASE child.limit # {}
  <2>1. PICK m \in Limit : child.limit = {m}
    BY <1>2, <1>6 DEF Optional
  <2>2. m <= l
    BY <1>3, <2>1 DEF Narrows
  <2>3. QED
    BY <1>1, <1>3, <1>6, <2>1, <2>2
<1>7. QED
  BY <1>5, <1>6

-----------------------------------------------------------------------------
(* Steps                                                                   *)

LEMMA IdleIs == Idle \in Requests /\ Idle.at = "idle" /\ NoPolicy \in Policies
  BY DEF Idle, Requests, NoPolicy, Policies, NoRules, Rules, Optional

\* A request takes another state; the policies stay.
LEMMA RequestStep ==
    ASSUME IInv, NEW r \in Request, NEW q \in Requests, Decided(q),
           request' = [request EXCEPT ![r] = q], left' \in 0..MaxUpdates,
           UNCHANGED <<policy, scheduling, Queue>>
    PROVE  IInv'
<1>1. request' \in [Request -> Requests] /\ request'[r] = q
      /\ \A s \in Request : s # r => request'[s] = request[s]
  BY DEF IInv, TypeOK
<1>2. UNCHANGED <<policy, scheduling, job, pass>>
  BY DEF Queue
<1>3. TypeOK' /\ InstallationInv' /\ JobInv'
  BY <1>1, <1>2 DEF IInv, TypeOK, InstallationInv, InstallationRules, JobInv
<1>4. PassInv'
  BY <1>2 DEF IInv, PassInv, Composed, InstallationRules
<1>5. RequestInv'
  BY <1>1, <1>2 DEF IInv, RequestInv, Decided, InstallationRules
<1>6. QED
  BY <1>3, <1>4, <1>5 DEF IInv

LEMMA BeginKeeps ==
    ASSUME IInv, NEW r \in Request, NEW s \in Scope, NEW rules \in Rules, NEW expected \in Nat,
           Begin(r, s, rules, expected), s = Installation => Complete(rules)
    PROVE  IInv'
<1> DEFINE q == [at |-> "decided", scope |-> s, version |-> policy[s].version,
                 scheduling |-> expected, rules |-> rules]
<1>1. policy[s].version \in Nat
  BY DEF IInv, TypeOK, Policies
<1>2. /\ q \in Requests /\ q.at = "decided" /\ q.scope = s /\ q.rules = rules
  BY <1>1 DEF Requests
<1>3. /\ request' = [request EXCEPT ![r] = q] /\ left' \in 0..MaxUpdates
      /\ UNCHANGED <<policy, scheduling, Queue>>
  BY PolicyAssumption DEF Begin, IInv, TypeOK
<1> HIDE DEF q
<1>4. Decided(q)
  BY <1>2 DEF Decided
<1>5. QED
  BY <1>2, <1>3, <1>4, RequestStep

LEMMA BeginInstallationKeeps ==
    ASSUME IInv, NEW r \in Request, NEW rules, BeginInstallation(r, rules)
    PROVE  IInv'
  BY BeginKeeps DEF BeginInstallation, Valid, Scope

LEMMA BeginProjectKeeps ==
    ASSUME IInv, NEW r \in Request, NEW p \in Project, NEW rules, BeginProject(r, p, rules)
    PROVE  IInv'
<1>1. p \in Scope /\ p # Installation /\ scheduling[p] \in Nat /\ rules \in Rules
  BY PolicyAssumption DEF Scope, IInv, TypeOK, BeginProject, Composes, Valid
<1>2. QED
  BY <1>1, BeginKeeps DEF BeginProject

LEMMA DoneKeeps ==
    ASSUME IInv, NEW r \in Request, Done(r), UNCHANGED <<policy, scheduling, Queue, left>>
    PROVE  IInv'
  BY RequestStep, IdleIs DEF IInv, TypeOK, Done, Decided

LEMMA ValidatePolicyAgainstParentsKeeps ==
    ASSUME IInv, NEW r \in Request, ValidatePolicyAgainstParents(r)
    PROVE  IInv'
<1> DEFINE q == [request[r] EXCEPT !.at = "validated"]
<1>1. /\ request[r] \in Requests /\ request[r].at = "decided"
      /\ request[r].scope \in Project
      /\ left' \in 0..MaxUpdates /\ UNCHANGED <<policy, scheduling, Queue, left>>
  BY DEF ValidatePolicyAgainstParents, IInv, TypeOK, RequestInv, Decided, Scope
<1>2. CASE Composes(InstallationRules, request[r].rules)
  <2>1. request' = [request EXCEPT ![r] = q]
    BY <1>1, <1>2 DEF ValidatePolicyAgainstParents, IInv, TypeOK, Requests
  <2>2. /\ q \in Requests /\ q.at = "validated"
        /\ q.scope = request[r].scope /\ q.rules = request[r].rules
    BY <1>1 DEF Requests
  <2> HIDE DEF q
  <2>3. Decided(q)
    BY <1>1, <1>2, <2>2 DEF Decided, Scope
  <2>4. QED
    BY <1>1, <2>1, <2>2, <2>3, RequestStep
<1>3. CASE ~Composes(InstallationRules, request[r].rules)
  BY <1>1, <1>3, DoneKeeps DEF ValidatePolicyAgainstParents
<1>4. QED
  BY <1>2, <1>3

\* The lock: while no transaction has validated its rules against the policy
\* of the installation, that policy may change.
LEMMA CompareAndSetPolicyKeeps ==
    ASSUME IInv, NEW r \in Request, CompareAndSetPolicy(r)
    PROVE  IInv'
<1> DEFINE q == request[r]
<1>1. /\ q \in Requests /\ q.at = "decided" /\ q.scope = Installation /\ Complete(q.rules)
      /\ Done(r) /\ UNCHANGED <<scheduling, Queue, left>>
      /\ \A s \in Request : request[s].at # "validated"
  BY DEF CompareAndSetPolicy, Free, IInv, TypeOK, RequestInv, Decided
<1>2. CASE policy[Installation].version # q.version
  BY <1>1, <1>2, DoneKeeps DEF CompareAndSetPolicy
<1>3. CASE policy[Installation].version = q.version
  <2> DEFINE n == [version |-> q.version + 1, rules |-> q.rules]
  <2>1. policy' = [policy EXCEPT ![Installation] = n]
    BY <1>1, <1>3 DEF CompareAndSetPolicy, Advance
  <2>2. n \in Policies /\ n.version = policy[Installation].version + 1 /\ n.rules = q.rules
    BY <1>1, <1>3 DEF Policies, Requests
  <2> HIDE DEF n
  <2>3. /\ policy' \in [Scope -> Policies] /\ policy'[Installation] = n
        /\ \A p \in Project : policy'[p] = policy[p]
        /\ UNCHANGED <<job, pass>>
    BY <1>1, <2>1, <2>2, PolicyAssumption DEF IInv, TypeOK, Scope, Queue
  <2>4. TypeOK'
    BY <1>1, <2>3, IdleIs DEF IInv, TypeOK, Done
  <2>5. policy[Installation].version \in Nat
    BY DEF IInv, TypeOK, Policies, Scope
  <2>6. InstallationInv'
    BY <1>1, <2>2, <2>3, <2>5 DEF InstallationInv, InstallationRules
  <2>7. \A s \in Request : request'[s] = Idle \/ request'[s] = request[s]
    BY <1>1 DEF Done, IInv, TypeOK
  <2>8. RequestInv'
    BY <1>1, <2>7, IdleIs DEF IInv, RequestInv, Decided
  <2>9. PassInv'
    <3>1. pass.applied[Installation] \in Nat
      BY DEF IInv, TypeOK, Passes, Scope
    <3>2. ASSUME pass.at = "committing"
          PROVE  /\ pass.applied[Installation] <= n.version
                 /\ pass.applied[Installation] # n.version
      <4>1. pass.applied[Installation] <= policy[Installation].version
        BY <3>2 DEF IInv, PassInv
      <4>2. QED
        BY <2>2, <2>5, <3>1, <4>1
    <3>3. QED
      BY <2>3, <3>2 DEF IInv, PassInv
  <2>10. JobInv'
    BY <2>3 DEF IInv, JobInv
  <2>11. QED
    BY <2>4, <2>6, <2>8, <2>9, <2>10 DEF IInv
<1>4. QED
  BY <1>2, <1>3

LEMMA CompareAndSetProjectAdmissionKeeps ==
    ASSUME IInv, NEW r \in Request, CompareAndSetProjectAdmission(r)
    PROVE  /\ IInv'
           /\ \A p \in Project : policy'[p] # policy[p] =>
                Composes(policy'[Installation].rules, policy'[p].rules)
<1> DEFINE q == request[r]
<1>1. /\ q \in Requests /\ q.at = "validated" /\ q.scope \in Project
      /\ Composes(InstallationRules, q.rules)
      /\ Done(r) /\ UNCHANGED <<Queue, left>>
  BY DEF CompareAndSetProjectAdmission, IInv, TypeOK, RequestInv, Decided
<1>2. CASE UNCHANGED <<policy, scheduling>>
  BY <1>1, <1>2, DoneKeeps
<1>3. CASE /\ policy[q.scope].version = q.version
           /\ policy' = [policy EXCEPT ![q.scope] = [version |-> q.version + 1,
                                                     rules |-> q.rules]]
           /\ scheduling' = [scheduling EXCEPT ![q.scope] = @ + 1]
  <2> DEFINE n == [version |-> q.version + 1, rules |-> q.rules]
  <2>1. n \in Policies /\ n.rules = q.rules /\ n.version = policy[q.scope].version + 1
    BY <1>1, <1>3 DEF Policies, Requests
  <2>2. policy' = [policy EXCEPT ![q.scope] = n]
    BY <1>3
  <2> HIDE DEF n
  <2>3. /\ policy' \in [Scope -> Policies] /\ policy'[q.scope] = n
        /\ \A s \in Scope : s # q.scope => policy'[s] = policy[s]
        /\ UNCHANGED <<job, pass>>
    BY <1>1, <2>1, <2>2 DEF IInv, TypeOK, Scope, Queue
  <2>4. policy'[Installation] = policy[Installation]
    BY <1>1, <2>3, PolicyAssumption DEF Scope
  <2>5. scheduling' \in [Project -> Nat]
    BY <1>1, <1>3 DEF IInv, TypeOK
  <2>6. TypeOK'
    BY <1>1, <2>3, <2>5, IdleIs DEF IInv, TypeOK, Done
  <2>7. InstallationInv' /\ JobInv'
    BY <2>3, <2>4 DEF IInv, InstallationInv, InstallationRules, JobInv
  <2>8. \A s \in Request : request'[s] = Idle \/ request'[s] = request[s]
    BY <1>1 DEF Done, IInv, TypeOK
  <2>9. RequestInv'
    BY <2>4, <2>8, IdleIs DEF IInv, RequestInv, Decided, InstallationRules
  <2>10. ASSUME NEW p \in Project, policy'[p] # policy[p]
         PROVE  Composes(policy'[Installation].rules, policy'[p].rules)
    <3>1. policy'[p] = n
      BY <2>3, <2>10 DEF Scope
    <3>2. QED
      BY <1>1, <2>1, <2>4, <3>1 DEF InstallationRules
  <2>11. PassInv'
    <3> SUFFICES ASSUME pass.at = "committing" PROVE PassInv'
      BY <2>3 DEF PassInv
    <3>1. /\ pass.project \in Project /\ pass.applied[pass.project] \in Nat
          /\ policy[pass.project].version \in Nat
          /\ pass.applied[pass.project] <= policy[pass.project].version
      BY DEF IInv, PassInv, TypeOK, Passes, Policies, Scope
    <3>2. CASE pass.project = q.scope
      <4>1. /\ policy'[pass.project].version = policy[pass.project].version + 1
            /\ pass'.applied = pass.applied /\ pass'.limit = pass.limit
        BY <2>1, <2>3, <3>2
      <4>2. /\ pass.applied[pass.project] <= policy'[pass.project].version
            /\ pass.applied[pass.project] # policy'[pass.project].version
        BY <3>1, <4>1
      <4>3. Composed(pass.project) => Composed(pass.project)'
        BY <2>3, <2>4, <4>1, <4>2 DEF Composed, InstallationRules
      <4>4. QED
        BY <2>3, <2>4, <4>2, <4>3 DEF IInv, PassInv
    <3>3. CASE pass.project # q.scope
      <4>1. policy'[pass.project] = policy[pass.project]
        BY <2>3, <3>1, <3>3 DEF Scope
      <4>2. Composed(pass.project) => Composed(pass.project)'
        BY <2>3, <2>4, <4>1 DEF Composed, InstallationRules
      <4>3. QED
        BY <2>3, <2>4, <4>1, <4>2 DEF IInv, PassInv
    <3>4. QED
      BY <3>2, <3>3
  <2>12. QED
    BY <2>6, <2>7, <2>9, <2>10, <2>11 DEF IInv
<1>4. QED
  BY <1>2, <1>3 DEF CompareAndSetProjectAdmission, Advance

LEMMA GiveUpKeeps ==
    ASSUME IInv, NEW r \in Request, GiveUp(r)
    PROVE  IInv'
  BY DoneKeeps DEF GiveUp

LEMMA JobsKeep ==
    ASSUME IInv, UNCHANGED <<policy, scheduling, request, left>>,
           job' \in [Project -> Jobs], JobInv', pass' \in Passes, PassInv'
    PROVE  IInv'
<1>1. TypeOK' /\ InstallationInv'
  BY DEF IInv, TypeOK, InstallationInv, InstallationRules
<1>2. RequestInv'
  BY DEF IInv, RequestInv, Decided, InstallationRules
<1>3. QED
  BY <1>1, <1>2 DEF IInv

\* A Job takes another state.
LEMMA JobStep ==
    ASSUME IInv, NEW p \in Project, NEW j \in Jobs, job' = [job EXCEPT ![p] = j],
           j.at = "none" => j.demand = {}
    PROVE  job' \in [Project -> Jobs] /\ JobInv'
<1>1. job' \in [Project -> Jobs] /\ job'[p] = j
      /\ \A o \in Project : o # p => job'[o] = job[o]
  BY DEF IInv, TypeOK
<1>2. QED
  BY <1>1 DEF IInv, JobInv

LEMMA JobIs ==
    /\ NoJob \in Jobs /\ NoJob.at = "none" /\ NoJob.demand = {}
    /\ \A j \in Jobs, a \in {"none", "composed", "queued", "admitted"} :
         /\ [j EXCEPT !.at = a] \in Jobs /\ [j EXCEPT !.at = a].at = a
         /\ [j EXCEPT !.at = a].demand = j.demand
<1>1. NoJob \in Jobs /\ NoJob.at = "none" /\ NoJob.demand = {}
  BY DEF NoJob, Jobs, Optional
<1>2. ASSUME NEW j \in Jobs, NEW a \in {"none", "composed", "queued", "admitted"}
      PROVE  /\ [j EXCEPT !.at = a] \in Jobs /\ [j EXCEPT !.at = a].at = a
             /\ [j EXCEPT !.at = a].demand = j.demand
  BY DEF Jobs
<1>3. QED
  BY <1>1, <1>2

LEMMA NoPassIs == NoPass \in Passes /\ NoPass.at = "idle"
  BY PolicyAssumption DEF NoPass, Passes, Optional

LEMMA SelectIs ==
    ASSUME NEW t \in SUBSET Project, NEW c \in 0..(MaxConflicts - 1)
    PROVE  Select(t, c) \in Passes /\ Select(t, c).at = "selecting"
  BY NoPassIs DEF Select, Passes

LEMMA Idles ==
    ASSUME pass'.at # "committing" PROVE PassInv'
  BY DEF PassInv

LEMMA ComposeKeeps ==
    ASSUME IInv, NEW p \in Project, Compose(p)
    PROVE  IInv'
<1>1. PICK d \in Demands : job' = [job EXCEPT ![p] = [at |-> "composed", demand |-> {d}]]
  BY DEF Compose
<1> DEFINE j == [at |-> "composed", demand |-> {d}]
<1>2. j \in Jobs /\ j.at # "none"
  BY DEF Jobs, Optional
<1> HIDE DEF j
<1>3. job' \in [Project -> Jobs] /\ JobInv'
  BY <1>1, <1>2, JobStep DEF j
<1>4. UNCHANGED <<policy, scheduling, request, pass, left>>
  BY DEF Compose
<1>5. pass' \in Passes /\ PassInv'
  BY <1>4 DEF IInv, TypeOK, PassInv, Composed, InstallationRules
<1>6. QED
  BY <1>3, <1>4, <1>5, JobsKeep

LEMMA SubmitKeeps ==
    ASSUME IInv, NEW p \in Project, Submit(p)
    PROVE  IInv'
<1>1. UNCHANGED <<policy, scheduling, request, pass, left>> /\ job[p] \in Jobs
  BY DEF Submit, IInv, TypeOK
<1>2. PICK j \in {[job[p] EXCEPT !.at = "queued"], NoJob} : job' = [job EXCEPT ![p] = j]
  BY DEF Submit, IInv, TypeOK
<1>3. j \in Jobs /\ (j.at = "none" => j.demand = {})
  BY <1>1, <1>2, JobIs
<1>4. job' \in [Project -> Jobs] /\ JobInv'
  BY <1>2, <1>3, JobStep
<1>5. pass' \in Passes /\ PassInv'
  BY <1>1 DEF IInv, TypeOK, PassInv, Composed, InstallationRules
<1>6. QED
  BY <1>1, <1>4, <1>5, JobsKeep

\* The pass goes on without committing, and a Job may take another state.
LEMMA PassStep ==
    ASSUME IInv, UNCHANGED <<policy, scheduling, request, left>>, pass' \in Passes,
           pass'.at # "committing",
           UNCHANGED job \/ (job' \in [Project -> Jobs] /\ JobInv')
    PROVE  IInv'
<1>1. job' \in [Project -> Jobs] /\ JobInv'
  BY DEF IInv, TypeOK, JobInv
<1>2. QED
  BY <1>1, Idles, JobsKeep

LEMMA BeginPassKeeps ==
    ASSUME IInv, BeginPass
    PROVE  IInv'
<1>1. PICK due \in SUBSET Project :
        pass' = IF due = {} THEN [NoPass EXCEPT !.at = "legacy"] ELSE Select(due, 0)
  BY DEF BeginPass
<1>2. [NoPass EXCEPT !.at = "legacy"] \in Passes
      /\ [NoPass EXCEPT !.at = "legacy"].at = "legacy"
  BY NoPassIs DEF Passes
<1>3. Select(due, 0) \in Passes /\ Select(due, 0).at = "selecting"
  BY SelectIs, PolicyAssumption
<1>4. pass' \in Passes /\ pass'.at # "committing"
  BY <1>1, <1>2, <1>3
<1>5. QED
  BY <1>4, PassStep DEF BeginPass

LEMMA EndPassKeeps ==
    ASSUME IInv, EndPass
    PROVE  IInv'
  BY NoPassIs, PassStep DEF EndPass

LEMMA LegacyAdmitKeeps ==
    ASSUME IInv, NEW p \in Project, LegacyAdmit(p)
    PROVE  IInv'
<1>1. job' \in [Project -> Jobs] /\ JobInv'
  BY JobIs, JobStep DEF LegacyAdmit
<1>2. pass' \in Passes /\ pass'.at # "committing"
  BY DEF LegacyAdmit, IInv, TypeOK
<1>3. QED
  BY <1>1, <1>2, PassStep DEF LegacyAdmit

\* What is composed is current, and composes.
LEMMA ScheduleKeeps ==
    ASSUME IInv, NEW p \in Project, Schedule(p)
    PROVE  IInv'
<1>1. UNCHANGED <<policy, scheduling, request, job, left>>
  BY DEF Schedule
<1>2. CASE ~HierarchyComposes(p)
  BY <1>1, <1>2, NoPassIs, PassStep DEF Schedule
<1>3. CASE HierarchyComposes(p)
  <2>1. pass' = [pass EXCEPT !.at = "committing", !.project = p, !.applied = Applied(p),
                             !.limit = Effective(p).limit]
    BY <1>3 DEF Schedule
  <2>2. /\ policy \in [Scope -> Policies] /\ InstallationRules \in Rules
        /\ policy[p].rules \in Rules /\ Narrows(InstallationRules, policy[p].rules)
        /\ \A s \in Scope : policy[s].version \in Nat
        /\ p \in Scope /\ Installation \in Scope
    BY <1>3 DEF HierarchyComposes, Composes, Valid, IInv, TypeOK, Policies, Scope
  <2>3. Applied(p) \in [Scope -> Nat] /\ Effective(p).limit \in Optional(Limit)
    <3>1. Applied(p) \in [Scope -> Nat]
      BY <2>2 DEF Applied
    <3>2. PICK m \in Limit : Effective(p).limit = {m}
      BY <2>2, OverlayLimit DEF Effective, IInv, InstallationInv
    <3>3. QED
      BY <3>1, <3>2 DEF Optional
  <2>4. /\ pass' \in Passes /\ pass'.project = p /\ pass'.applied = Applied(p)
        /\ pass'.limit = Effective(p).limit
    BY <2>1, <2>3 DEF IInv, TypeOK, Passes
  <2>5. /\ pass'.applied[Installation] = policy[Installation].version
        /\ pass'.applied[p] = policy[p].version
    BY <2>2, <2>4 DEF Applied
  <2>6. Composed(p)'
    BY <1>1, <2>2, <2>4 DEF Composed, Effective, InstallationRules
  <2>7. policy[Installation].version <= policy[Installation].version
        /\ policy[p].version <= policy[p].version
    BY <2>2
  <2>8. PassInv'
    BY <1>1, <2>4, <2>5, <2>6, <2>7 DEF PassInv, IInv, InstallationInv
  <2>9. job' \in [Project -> Jobs] /\ JobInv'
    BY <1>1 DEF IInv, TypeOK, JobInv
  <2>10. QED
    BY <1>1, <2>4, <2>8, <2>9, JobsKeep
<1>4. QED
  BY <1>2, <1>3

LEMMA CandidatesAre ==
    ASSUME IInv
    PROVE  /\ pass.todo \in SUBSET Project /\ pass.conflicts \in 0..(MaxConflicts - 1)
           /\ 0 \in 0..(MaxConflicts - 1)
  BY PolicyAssumption DEF IInv, TypeOK, Passes

LEMMA CommitConflictsKeeps ==
    ASSUME IInv, CommitConflicts
    PROVE  IInv'
<1>1. CASE pass.conflicts + 1 = MaxConflicts
  BY <1>1, NoPassIs, PassStep DEF CommitConflicts
<1>2. CASE pass.conflicts + 1 # MaxConflicts
  <2>1. pass.todo \in SUBSET Project /\ pass.conflicts \in 0..(MaxConflicts - 1)
    BY CandidatesAre
  <2>2. pass.conflicts + 1 \in 0..(MaxConflicts - 1)
    BY ONLY <1>2, <2>1, PolicyAssumption
  <2>3. pass' = Select(pass.todo, pass.conflicts + 1)
    BY <1>2 DEF CommitConflicts
  <2>4. pass' \in Passes /\ pass'.at # "committing"
    BY <2>1, <2>2, <2>3, SelectIs
  <2>5. QED
    BY <2>4, PassStep DEF CommitConflicts
<1>3. QED
  BY <1>1, <1>2

LEMMA CommitRuntimeAdmissionKeeps ==
    ASSUME IInv, CommitRuntimeAdmission
    PROVE  IInv'
<1>1. pass.project \in Project /\ UNCHANGED <<policy, scheduling, request, left>>
  BY DEF CommitRuntimeAdmission, IInv, PassInv
<1>2. CASE /\ job' = [job EXCEPT ![pass.project].at = "admitted"]
           /\ pass' = [pass EXCEPT !.at = "creating", !.todo = @ \ {pass.project},
                                   !.conflicts = 0]
  <2>1. pass' \in Passes /\ pass'.at # "committing"
    BY <1>2, CandidatesAre DEF IInv, TypeOK, Passes
  <2>2. job[pass.project] \in Jobs
        /\ job' = [job EXCEPT ![pass.project] = [job[pass.project] EXCEPT !.at = "admitted"]]
    BY <1>1, <1>2 DEF IInv, TypeOK
  <2>3. job' \in [Project -> Jobs] /\ JobInv'
    BY <1>1, <2>2, JobIs, JobStep
  <2>4. QED
    BY <1>1, <2>1, <2>3, PassStep
<1>3. CASE pass' = Select(pass.todo \ {pass.project}, 0) /\ UNCHANGED job
  <2>1. pass.todo \ {pass.project} \in SUBSET Project
    BY CandidatesAre
  <2>2. pass' \in Passes /\ pass'.at # "committing"
    BY <1>3, <2>1, CandidatesAre, SelectIs
  <2>3. QED
    BY <1>1, <1>3, <2>2, PassStep
<1>4. QED
  BY <1>2, <1>3 DEF CommitRuntimeAdmission

\* The candidate of a pass is started, or is queued again.
LEMMA CreatingKeeps ==
    ASSUME IInv, Admit \/ Abandon
    PROVE  IInv'
<1>1. pass' \in Passes /\ pass'.at # "committing"
  BY CandidatesAre, SelectIs DEF Admit, Abandon
<1>2. UNCHANGED <<policy, scheduling, request, left>>
  BY DEF Admit, Abandon
<1>3. CASE pass.project \in Project
  <2>1. job[pass.project] \in Jobs
    BY <1>3 DEF IInv, TypeOK
  <2>2. PICK j \in {[job[pass.project] EXCEPT !.at = "queued"], NoJob} :
          job' = [job EXCEPT ![pass.project] = j]
    BY <1>3 DEF Admit, Abandon, IInv, TypeOK
  <2>3. j \in Jobs /\ (j.at = "none" => j.demand = {})
    BY <2>1, <2>2, JobIs
  <2>4. QED
    BY <1>1, <1>2, <1>3, <2>2, <2>3, JobStep, PassStep
<1>4. CASE pass.project \notin Project
  <2>1. job' = job
    BY <1>4 DEF Admit, Abandon, IInv, TypeOK
  <2>2. QED
    BY <1>1, <1>2, <2>1, PassStep
<1>5. QED
  BY <1>3, <1>4

LEMMA InitHolds == Init => IInv
<1> SUFFICES ASSUME Init PROVE IInv
  OBVIOUS
<1>1. /\ policy \in [Scope -> {NoPolicy} \cup {[version |-> 1, rules |-> r] : r \in Asked}]
      /\ policy[Installation].version = 1 /\ Complete(InstallationRules)
      /\ policy[Installation].rules \in Rules
      /\ \A p \in Project : policy[p].rules \in Rules
  BY DEF Init, HierarchyComposes, Composes, Valid, InstallationRules
<1>2. ASSUME NEW s \in Scope PROVE policy[s] \in Policies
  <2>1. policy[s].rules \in Rules
    BY <1>1 DEF Scope
  <2>2. CASE policy[s] = NoPolicy
    BY <2>2, IdleIs
  <2>3. CASE policy[s] # NoPolicy
    <3>1. PICK r \in Asked : policy[s] = [version |-> 1, rules |-> r]
      BY <1>1, <2>3
    <3>2. QED
      BY <2>1, <3>1 DEF Policies
  <2>4. QED
    BY <2>2, <2>3
<1>3. policy \in [Scope -> Policies]
  BY <1>1, <1>2
<1>4. TypeOK /\ JobInv
  BY <1>3, IdleIs, JobIs, NoPassIs, PolicyAssumption DEF Init, TypeOK, JobInv
<1>5. InstallationInv
  BY <1>1 DEF InstallationInv
<1>6. RequestInv
  BY IdleIs DEF Init, RequestInv, Decided
<1>7. PassInv
  BY NoPassIs DEF Init, PassInv
<1>8. QED
  BY <1>4, <1>5, <1>6, <1>7 DEF IInv

LEMMA NextKeeps == IInv /\ [Next]_vars => IInv'
<1> SUFFICES ASSUME IInv, [Next]_vars PROVE IInv'
  OBVIOUS
<1>1. ASSUME NEW r \in Request, Update(r) PROVE IInv'
  BY <1>1, BeginInstallationKeeps, BeginProjectKeeps, ValidatePolicyAgainstParentsKeeps,
     CompareAndSetPolicyKeeps, CompareAndSetProjectAdmissionKeeps, GiveUpKeeps DEF Update
<1>2. CASE UNCHANGED vars
  <2>1. /\ job' \in [Project -> Jobs] /\ JobInv'
        /\ pass' \in Passes /\ PassInv'
    BY <1>2 DEF vars, IInv, TypeOK, JobInv, PassInv, Composed, InstallationRules
  <2>2. QED
    BY <1>2, <2>1, JobsKeep DEF vars
<1>3. ASSUME NEW p \in Project, Compose(p) \/ Submit(p) \/ LegacyAdmit(p) \/ Schedule(p)
      PROVE  IInv'
  BY <1>3, ComposeKeeps, SubmitKeeps, LegacyAdmitKeeps, ScheduleKeeps
<1>4. QED
  BY <1>1, <1>2, <1>3, BeginPassKeeps, EndPassKeeps, CommitConflictsKeeps,
     CommitRuntimeAdmissionKeeps, CreatingKeeps DEF Next

LEMMA IInvHolds == Spec => []IInv
  BY InitHolds, NextKeeps, PTL DEF Spec

-----------------------------------------------------------------------------
(* The theorems                                                            *)

\* Types of the variables.
THEOREM PolicyTypes == Spec => []TypeOK
  BY IInvHolds, PTL DEF IInv

\* normalizeRules and validateComplete are asked of every policy before it is
\* written: what Compose still may refuse is a project's policy that widens,
\* since the installation's was changed after it.
THEOREM OnlyWideningIsRefused ==
    Spec => [](\A p \in Project :
                 HierarchyComposes(p) <=> Narrows(InstallationRules, policy[p].rules))
<1>1. IInv => \A p \in Project :
        HierarchyComposes(p) <=> Narrows(InstallationRules, policy[p].rules)
  BY DEF IInv, TypeOK, InstallationInv, HierarchyComposes, Composes, Valid, InstallationRules,
         Policies, Scope
<1>2. QED
  BY <1>1, IInvHolds, PTL

LEMMA NoStepWidens ==
    ASSUME IInv, [Next]_vars, NEW p \in Project, policy'[p] # policy[p]
    PROVE  Composes(policy'[Installation].rules, policy'[p].rules)
<1>1. ASSUME NEW r \in Request, CompareAndSetProjectAdmission(r)
      PROVE  Composes(policy'[Installation].rules, policy'[p].rules)
  BY <1>1, CompareAndSetProjectAdmissionKeeps
<1>2. ASSUME NEW r \in Request, CompareAndSetPolicy(r)
      PROVE  policy'[p] = policy[p]
  <2>1. p # Installation
    BY PolicyAssumption
  <2>2. policy' = policy
        \/ policy' = [policy EXCEPT ![Installation] = [version |-> request[r].version + 1,
                                                       rules |-> request[r].rules]]
    BY <1>2 DEF CompareAndSetPolicy, Advance
  <2>3. QED
    BY <2>1, <2>2 DEF IInv, TypeOK, Scope
<1>3. UNCHANGED policy \/ \E r \in Request : CompareAndSetPolicy(r)
                                             \/ CompareAndSetProjectAdmission(r)
  BY DEF Next, vars, Update, BeginInstallation, BeginProject, Begin, GiveUp, Compose, Submit,
     LegacyAdmit, Schedule, ValidatePolicyAgainstParents, BeginPass, EndPass, CommitConflicts,
     CommitRuntimeAdmission, Admit, Abandon
<1>4. QED
  BY <1>1, <1>2, <1>3

\* The parent's row is locked from the validation to the write: whatever was
\* decided in between, a project's policy that is written narrows the policy
\* that the installation has at that moment.
THEOREM AcceptedPoliciesAreNarrower == Spec => AcceptedIsNarrower
<1>1. IInv /\ [Next]_vars =>
        [\A p \in Project : policy'[p] # policy[p] =>
           Composes(policy'[Installation].rules, policy'[p].rules)]_vars
  BY NoStepWidens
<1>2. QED
  BY <1>1, IInvHolds, PTL DEF Spec, AcceptedIsNarrower

\* What a step does to the Job of a project, for those that may change it.
LEMMA JobChanges ==
    ASSUME IInv, [Next]_vars, NEW p \in Project, job'[p] # job[p]
    PROVE  \/ Compose(p) \/ Submit(p) \/ LegacyAdmit(p)
           \/ pass.project = p /\ (CommitRuntimeAdmission \/ Admit \/ Abandon)
<1>1. job \in [Project -> Jobs]
  BY DEF IInv, TypeOK
<1>2. ASSUME NEW o \in Project, o # p PROVE ~(Compose(o) \/ Submit(o) \/ LegacyAdmit(o))
  BY <1>1, <1>2 DEF Compose, Submit, LegacyAdmit
<1>3. ASSUME CommitRuntimeAdmission \/ Admit \/ Abandon PROVE pass.project = p
  BY <1>1, <1>3 DEF CommitRuntimeAdmission, Admit, Abandon
<1>4. \/ \E o \in Project : Compose(o) \/ Submit(o) \/ LegacyAdmit(o)
      \/ CommitRuntimeAdmission \/ Admit \/ Abandon
  BY DEF Next, vars, Queue, Update, BeginInstallation, BeginProject, Begin, GiveUp,
     ValidatePolicyAgainstParents, CompareAndSetPolicy, CompareAndSetProjectAdmission,
     Schedule, BeginPass, EndPass, CommitConflicts
<1>5. QED
  BY <1>2, <1>3, <1>4

LEMMA SubmissionIsWithin ==
    ASSUME IInv, [Next]_vars, NEW p \in Project, job[p].at = "none", NEW d \in job'[p].demand
    PROVE  Allows(InstallationRules, d)
<1>1. job[p].demand = {} /\ job \in [Project -> Jobs]
  BY DEF IInv, JobInv, TypeOK
<1>2. job'[p] # job[p]
  BY <1>1
<1>3. CASE Compose(p)
  <2>1. d \in Demands /\ Allows(Effective(p), d)
    BY <1>1, <1>3 DEF Compose
  <2>2. /\ InstallationRules \in Rules /\ policy[p].rules \in Rules
        /\ Narrows(InstallationRules, policy[p].rules)
    BY <1>3 DEF Compose, HierarchyComposes, Composes, Valid
  <2>3. QED
    BY <2>1, <2>2, OverlayIsWithin DEF Effective
<1>4. CASE Submit(p) \/ LegacyAdmit(p)
  BY <1>4 DEF Submit, LegacyAdmit
<1>5. CASE pass.project = p /\ (CommitRuntimeAdmission \/ Admit \/ Abandon)
  <2>1. job'[p].demand = {} \/ job'[p].demand = job[p].demand
    <3>1. job[p] \in Jobs
      BY <1>1
    <3>2. CASE UNCHANGED job
      BY <3>2
    <3>3. CASE job' = [job EXCEPT ![p] = NoJob]
      BY <1>1, <3>3, JobIs
    <3>4. ASSUME NEW a \in {"admitted", "queued"}, job' = [job EXCEPT ![p].at = a]
          PROVE  job'[p].demand = job[p].demand
      <4>1. job'[p] = [job[p] EXCEPT !.at = a]
        BY <1>1, <3>4
      <4>2. QED
        BY <3>1, <4>1, JobIs
    <3>5. QED
      BY <1>5, <3>2, <3>3, <3>4 DEF CommitRuntimeAdmission, Admit, Abandon
  <2>2. QED
    BY <1>1, <2>1
<1>6. QED
  BY <1>2, <1>3, <1>4, <1>5, JobChanges

\* A submission composes the rules of the project over those of the
\* installation: what it lets pass the installation's alone would let pass.
THEOREM SubmissionsAreWithinInstallation == Spec => SubmittedWithinInstallation
<1>1. IInv /\ [Next]_vars =>
        [\A p \in Project : job[p].at = "none" =>
           \A d \in job'[p].demand : Allows(InstallationRules, d)]_vars
  BY SubmissionIsWithin
<1>2. QED
  BY <1>1, IInvHolds, PTL DEF Spec, SubmittedWithinInstallation

\* The pass's limit is that of the current policies.
CurrentLimit(p) ==
    \E m \in pass.limit :
      /\ \A l \in InstallationRules.limit : m <= l
      /\ pass.applied[p] # 0 => Effective(p).limit = {m}

LEMMA AdmissionGoesByCurrent ==
    ASSUME IInv, [Next]_vars, NEW p \in Project, job[p].at = "queued", job'[p].at = "admitted"
    PROVE  CurrentLimit(p)
<1>1. job \in [Project -> Jobs]
  BY DEF IInv, TypeOK
<1>2. CommitRuntimeAdmission /\ pass.project = p
  <2>1. ~Compose(p) /\ ~Submit(p)
    BY DEF Compose, Submit
  <2>2. ~LegacyAdmit(p)
    BY <1>1, JobIs DEF LegacyAdmit
  <2>3. ~(pass.project = p /\ (Admit \/ Abandon))
    BY <1>1, JobIs DEF Admit, Abandon, Jobs
  <2>4. QED
    BY <2>1, <2>2, <2>3, JobChanges
<1>3. /\ AppliedPolicy(p) /\ pass.at = "committing"
      /\ 0 < pass.applied[Installation] /\ pass.applied[Installation] \in Nat
  BY <1>2 DEF CommitRuntimeAdmission, IInv, PassInv, TypeOK, Passes, Scope
<1>4. pass.applied[Installation] = policy[Installation].version
  BY <1>3 DEF AppliedPolicy
<1>5. PICK child \in Rules :
        /\ Narrows(InstallationRules, child)
        /\ pass.limit = Overlay(InstallationRules, child).limit
        /\ pass.applied[p] = policy[p].version => child = policy[p].rules
  BY <1>2, <1>3, <1>4 DEF IInv, PassInv, Composed
<1>6. PICK m \in Limit : pass.limit = {m} /\ \A l \in InstallationRules.limit : m <= l
  <2>1. InstallationRules \in Rules /\ Complete(InstallationRules)
    BY DEF IInv, TypeOK, Policies, Scope, InstallationRules, InstallationInv
  <2>2. QED
    BY <1>5, <2>1, OverlayLimit
<1>7. ASSUME pass.applied[p] # 0 PROVE Effective(p).limit = {m}
  <2>1. pass.applied[p] = policy[p].version
    BY <1>3, <1>7 DEF AppliedPolicy
  <2>2. QED
    BY <1>5, <1>6, <2>1 DEF Effective
<1>8. QED
  BY <1>6, <1>7 DEF CurrentLimit

\* validateAppliedPolicyTx compares the versions of what was composed: a Job is
\* admitted by the limit of the policies as they are, and not above that of the
\* installation, except for a first policy that was written in between.
THEOREM AdmissionsGoByCurrentLimits == Spec => AdmittedByCurrentLimit
<1>1. IInv /\ [Next]_vars =>
        [\A p \in Project :
           job[p].at = "queued" /\ job'[p].at = "admitted" => CurrentLimit(p)]_vars
  BY AdmissionGoesByCurrent
<1>2. QED
  BY <1>1, IInvHolds, PTL DEF Spec, AdmittedByCurrentLimit, CurrentLimit
=============================================================================

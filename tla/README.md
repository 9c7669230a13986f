# KubeQueue: TLA+ models, checks and proofs

KubeQueue keeps a queue of Kubernetes Jobs in a SQL database.  An API process
takes submissions and commands, worker processes observe Kubernetes and
reconcile it with the database, and one worker at a time, the leader, may change
Kubernetes.  This directory models the parts of that system that are hard to
test: leadership, the fence around Kubernetes writes, the reconciliation of a Job,
the queue, quota, fair scheduling, policies, the administration of access, setup and
login, browser sessions, credentials and the audit log.  Everything is translated from
the Go code under `src/apps/control-plane/internal` (written `I/` below);
`PROJECT.json` maps each definition to its lines.

## Inventory

| Component | State it keeps | Operations | What makes it correct |
|---|---|---|---|
| Leadership (`I/leadership`, `I/adapters/persistence/leadership.go`) | the lease row; per process a session, a role, an authority | acquire or renew, observe a foreign lease, pause, read an authority, revalidate | a generation has one holder; an old authority runs out |
| Mutation ledger (`I/leadership/mutation.go`, `I/adapters/persistence/mutations.go`) | one record per command: state, generation, attempt | begin, complete, observe | no retry while an outcome is unknown; a create's success is real |
| Reconciler (`I/reconciler`, `I/adapters/kubernetes`) | the pass; what it last observed | discover, apply commands, schedule, admit, resolve doubtful attempts | each write is fenced and meant for one object; every Job converges |
| Jobs (`I/domain/job.go`, `I/application/jobs.go`, `I/adapters/persistence/sqlstore.go`) | table `jobs`, events, queue version | submit, pause, resume, cancel, retry, archive, observe | one Job per key; versions are respected; what is recorded is what is there |
| Queue order (same files) | priority and position of a row, the queue's version | edit one entry, reorder all, reorder a project | a new order replaces the one that was looked at, and is the one that was given |
| Quota (`I/domain/policyquota/quota.go`, `I/adapters/persistence/quotas.go`) | usage per scope, one reservation per Job | reserve, admit, requeue, release, release the retained part | counters are what reservations hold; limits are kept; what ended holds nothing |
| Fair scheduling (`I/scheduler`, `I/adapters/persistence/scheduling.go`) | deficits, cursor, weights, claims | list candidates, select, commit, abandon, set a weight | bounded waiting, emergencies first, isolation of projects |
| Policies (`I/domain/policyquota/policy.go`, `I/application/policyquota.go`, `I/adapters/persistence/policies.go`, `admission_administration.go`) | one policy per scope, with versions | compose, compare and set, ask a submission, commit an admission | a narrower scope is not accepted when it widens; submissions keep to the rules, admissions to the current limits |
| Access (`I/adapters/persistence/access_*.go`, `oidc_identity.go`) | principals with a generation, role bindings, team memberships and where they are from | create, disable, bind, rebind, unbind, join, leave, synchronize with a provider | an owner remains; a change of access ends the sessions it concerns |
| Browser sessions (`I/application/sessions.go`, `I/adapters/persistence/sessions.go`) | sessions, login attempts | create, touch, refresh, revoke, consume an attempt | an attempt makes one session; a session goes forward only; what was revoked stays so |
| Service accounts (`I/domain/serviceaccountcredential`, `I/adapters/persistence/service_accounts.go`) | credentials and their predecessors | issue, rotate, revoke, touch | one replacement each; revocation and the end of an overlap win |
| Setup (`I/application/setup.go`, `I/adapters/persistence/setup.go`) | completion of the setup | claim, repeat a claim | concurrent claims have one winner |
| Identity providers, local accounts (`identity_providers.go`, `local_accounts.go` in `I/application` and `I/adapters/persistence`) | versioned providers, results of their tests; password hashes, login throttles | update, test, enable, disable; log in, change, reset | only what was tested is offered; a change undoes no other change or reset |
| Break-glass (`I/application/breakglass.go`, `I/adapters/persistence/breakglass.go`) | one credential | reconcile with the configuration, log in | it is valid as configured, and for a time |
| Audit and retention (`I/domain/audit`, `I/application/audit.go`, `I/adapters/persistence/audit.go`) | append-only events, the queue of a writer | append with the mutation or later, select, delete, export by pages | nothing held is deleted; loss is counted; an export is complete |
| Migrations | schema version, checksums | migrate under a lock | applied once, in order |

How they interact: the API and the workers share only the database.  The worker
reads a Job in one statement and writes it in another; the leader's pass works
on lists it read when it began; answers of Kubernetes may be lost or late; the
lease may run out at any moment.  Time appears as the expiry of leases, of claims,
of sessions and credentials, and of retry delays.  What makes all of it hard to test is
the same thing in most places: a check on what one statement read, followed by a
write that another actor has overtaken.

## Modules

| Module | What it models |
|---|---|
| `FencingToken` | what leadership promises: numbered tokens, each for one holder |
| `TextTime` | times as the RFC 3339 texts that they are stored and compared as; lease, sessions and credentials use it |
| `LeadershipLease` | the lease row, clocks with skew, the acquire-or-renew statement |
| `LeadershipManager` | the manager of each process: two goroutines, sessions, authorities; implements `FencingToken` |
| `LeadershipManagerProofs` | the theorems about it, and about `JobReconciliation` |
| `MutationLedger` | one record of `reconciliation_mutations` and its three transitions |
| `MutationFence` | reconcile passes that observe Kubernetes and put commands to it, with crashes, lost and late requests and changes of leader |
| `MutationFenceProofs` | the theorems about it |
| `QuotaLedger` | usage, the limits that there may be, and reservations, as pure operators |
| `QuotaAdmission` | Jobs under quota: API, observation, commands, fair and legacy admission, and policies that change |
| `QuotaAdmissionProofs` | the theorems about it |
| `FairScheduler` | the bounded list of projects, weighted fair selection, and the pass that commits it |
| `AccessControl` | transactions that change principals, role bindings and memberships, and the session they may end |
| `AccessControlProofs` | the theorems about it |
| `BrowserSessions` | requests that log in, touch, refresh and revoke sessions side by side |
| `JobReconciliation` | one Job between its row, its object and the informers and passes of workers that crash and lead in turn |
| `JobQueue` | submissions and retries under their keys, edits and reorderings under the versions of row and queue |
| `PolicyHierarchy` | policies of installation and projects, their updates, and the submissions and admissions that compose them |
| `PolicyHierarchyProofs` | the theorems about it |
| `OwnerLogin` | the claim of the installation, identity providers, local passwords |
| `OwnerLoginProofs` | the theorems about it |
| `Credentials` | rotation, revocation and use of native credentials |
| `CredentialsProofs` | the theorems about it |
| `AuditLog` | the events of changes and of denials, retention and the paged export |
| `ServiceProofs` | the theorems about `AuditLog`, `BrowserSessions`, `FairScheduler` and `JobQueue`, and what they need of orders, ranks and sums |
| `MC...` | the small instances of the `.cfg` files |

### Times as texts

The database has times as texts that `time.RFC3339Nano` wrote, and a SQL statement
compares the texts (`TextAfter`).  Within a second their order is not that of the
times, for the format leaves the zeros at the end of a fraction out, and `.` and the digits
come before `Z`.  A second has `Second` ticks, and `Text` is the place of each
fraction among the texts; nothing else is assumed of it.  What Go has parsed is compared
as a number.

### Leadership

`lease` is the row of `leadership_leases`; `grants` is a history of who was given
which generation.  `AcquireLeadership` is the one SQL statement, which takes the
time of the caller's clock (`Now(h)`, off by at most `MaxSkew`) from a little
earlier (`MaxLag`).  Its WHERE clause and the choice of the generation compare texts
(`Acquirable`, `Renews`), so a takeover may come up to a second before the expiry, and a holder
may keep its generation though it renews after the expiry; the sessions and authorities compare
times.  A contended caller reads the row in a second statement.  The
answer of each call waits in `call` until its goroutine gets the manager's mutex:
the two goroutines ("poll" and "pass") may apply theirs in either order.
A crash is a process that takes no more steps: no property needs one to go on.

### The fence

Each command is one request identity.  A pass observes, leads or
follows, visits commands, begins an attempt, revalidates, sends, and completes;
every one of these is a statement of its own, and `Crash` can come between any
two.  A request that was sent sits on the `wire` and is executed or dropped
whenever the network likes, its sender may be told an error either way.  Time is
left out: `Expire` may happen at any moment.

An observation is three things that the code does one after the other, while others go on.
`List` begins the listing of the namespaces.  `Observe` ends it: the process notes the time
(`r.observedAt`), which counts for every attempt that was begun by then, though the list may
be older; `Stamped` and `SeenAfter` are the clocks of two processes, by which it may also miss
an attempt, or count for one that was begun later (`Skew`).  Then it reads the rows, which
show a part of what is there, and of a suspension, a resume or a deletion perhaps the effect
although it is not there, when the row is from before the command that it takes back
(`Shown`, `Reversible`).  `ObserveFails` is a namespace that cannot be listed.  A Job that is
missing, out of scope, in conflict, unmanaged or put off is `aside`, and a pass goes by its
commands (`Visit`); `SetAside` and `TakeUp` move it in and out at any moment.

### Quota

One action per transaction.  `ReadCommand`/`WriteCommand` are the two halves of
`SetDesiredState` (its check is made on a row read before its transaction).
`BeginPass` lists the candidates, `Commit` is `CommitRuntimeAdmission`, `Create`
and `Resume` are the two requests of `admit`, either of which can fail
(`AdmitFails`, then `Abandon`) or have an unknown outcome (`AdmitUncertain`).
`LegacyClaim`, `LegacyTake` and `LegacySkip` are the scheduler the pass falls back to when it
listed no candidate.  `policy` is what the policies compose to, with one version:
`UpdatePolicy` changes it with the version, `AddPolicy` without, as a scope that had none gets
one.  A submission composes before its transaction (`Compose`) and decides by that, whatever it is by
then (`Submit`); an admission composes (`Choose`), and its transaction conflicts if a version has moved
(`Current`, `CommitConflicts`).  When a Job is due (retry delays, `scheduledFor`) is a free
choice.

### Fair scheduling

Projects are numbered in the order of their identifiers.  `BeginPass` records
what a pass listed, the first `MaxProjects` (200 in the code) by identifier with an eligible Job;
those `Beyond` are not in the list; `Decide` is `Select` with the transaction that commits its
decision, or the conflict that ends the pass when the Job was withdrawn
meanwhile.  An emergency is committed with the stored cursor, which the commit
refuses if it names no listed project.  `widens` has the projects whose policy is wider
than the installation's, which `ChangePolicy` moves: a pass that selects one of them ends for
every project (`ComposeFails`).

### Access

`AccessControl` takes a transaction apart where another one can come between.
At READ COMMITTED, PostgreSQL's default and what `Store.transaction` asks for, each
statement sees what is committed when it runs, and a row that was written is
locked until the end.  So `tx[t]` holds the writes of a transaction that nobody
else sees yet; `...Seen(t)` is what its next statement reads; `...Free` are the
row locks.  `Begin...` stands for the reads a transaction later relies on (the
binding before its change, where a membership is from, the stale memberships of a
provider); the action of the same name without `Begin` is the write.  Then come
`EnsureInstallationOwner` (the lock on the installation and the count under it),
one `InvalidateBindingSubject` for each subject, and `Commit`; or `Rollback`, at
any moment.  Statements of one transaction with nothing between them that
another transaction could tell apart are one action, as their rows are locked
from then on: the deletes and inserts of `SynchronizeOIDCMemberships`, the
inserts of `ProvisionOIDCPrincipal`.  Foreign keys also lock the rows they refer
to; that only delays, and is left out.  One session is enough: sessions do not
meet in these transactions.

### Sessions

In `BrowserSessions` each request reads the row of its session first
(`BrowserSessionByDigest`, in `Current` together with its checks), and what it
does later is a statement whose WHERE clause says what must still hold: the last
use (`Touchable`), the ciphertext of the refresh token (`Unchanged`).  A clock
that advances between the read and the write makes touches arrive out of order.  The clause and the
CHECK of the table (`Storable`) compare texts: a touch can be refused, or pass over a later
one of the same second.
`granted` is the provider's side: a refresh returns the token or its successor,
after which the old one is rejected.  `RefreshEnds` is every way a refresh ends
without a write: a local session, an access token that is still good, no answer,
an answer that is refused.  Passwords are outside, except that changing or
resetting one revokes every session of the principal (`RevokeSessions`).

### Reconciliation of a Job

`JobReconciliation` is one managed Job: its `row`, the state of its request "create" in
`ledger`, its `object`, and per worker a `cache` (the informer, which `InformerSync`
brings up to date) and the step of its pass with the row as it was read.  Every worker
discovers (`ListJobs`, `Note`, `NoteAbsence`, `MarkOutOfScope`); the one that leads
goes on with `BeginPass`, which applies a command (`Suspend`, `DeleteJob`) or admits
the Job (`Create`, `RecordCreated`, `Resume`).  A write of the row is
`SetObserved`, which changes nothing if the resource version moved since the read,
and which does not say so.  A request is accepted only for the UID and the version
the row had (`Accepts`).  `Meddle` and `Finish` are what others do to the object.  The ways
a step fails are actions of their own: a refused request, a lost answer, a lost
creation, a crash, leadership that goes to the other worker between two steps.

### Queue and submissions

In `JobQueue` an actor is a request of the API or a pass of a worker, with what it
has read.  A submission is looked up by its key, created, and looked up again if
the insert met the unique index (`LookUp`, `Create`, `LookUpAgain`); once the
installation has a policy it is one transaction that holds the key
(`CreateJobWithQuota`).  `answered` is what callers were told.  `Reorder` and its
form for a project give the entries the positions of `Positions` if the queue's
version is the one that was read; `Command`, `Observe` and the writes that
follow them change who is in the queue, some without a new version.

### Policies

Rules are sets of at most one value.  `BeginInstallation` and `BeginProject` are
the read and the decision of an administrator's request,
`ValidatePolicyAgainstParents` locks the parent and compares, and
`CompareAndSet...` writes under the version that was read.

A submission composes the policies, and asks its priority and its image of them, once
(`Compose`); its transaction (`Submit`) asks the quota alone, by what was composed.  The
pass composes the policies of the candidate that it has selected (`Schedule`), and ends if they do not
compose.  `CommitRuntimeAdmission` asks whether the versions they were composed of are
still current, and conflicts otherwise (`CommitConflicts`, which ends the pass the third time);
it then admits or rejects by the quota, and asks nothing of priority and image.  `Admit` and `Abandon`
are the two ends of the request to Kubernetes.  `LegacyAdmit` composes nothing.  Which
candidate is selected, and whether it fits, are choices here: the first is the subject of
`FairScheduler`, the second of `QuotaAdmission`.

### Owner login

`OwnerLogin` puts setup, providers and local passwords into one module, because
they answer one question: who can log in as an owner.  A `request` keeps what
was read before its transaction: the version of the provider while the discovery is
under way, the password that was verified while the new one is hashed.
`secrets` is a history of the passwords that were set, each with the one it was verified against.
A behaviour starts with nothing set up (`Fresh`) or where everybody is an owner by a provider
that was tested, and setup was completed (`Established`), so that few events reach the last owner login.

### Credentials

`credential` is the table in the order of issue; `replaces` names the predecessor.
Rotation, revocation and use read first and write by a conditional statement.
The statements that record a use compare texts of times.

### Audit

Events get the time at which they occur and become visible when their transaction
commits (`EndChange`) or when the bounded writer of a replica gets to them (`Deny`,
`Take`, `WriteTaken`).  `SelectAuditRetentionCandidates` and
`DeleteAuditRetentionCandidates` are two statements.  `owed` is a history of what an
export must contain.

## Runs

| Run | Bounds | Shows |
|---|---|---|
| `lease` | 2 processes on clocks that differ by 1, TTL 2, 2 ticks a second, 3 generations, clock to 3 | one holder per generation; a superseded authority is refused once the skew and the fraction of a second that texts do not order have passed; a session does not fall back across a foreign turn; the lease implements `FencingToken` |
| `fence` | 2 workers on clocks that differ, 1 command (a create), 3 generations, 2 attempts | doubt is remembered and, once leadership is stable and while the Job is not set aside, resolved; a success is one that Kubernetes executed |
| `quota` | 2 Jobs in 2 namespaces of a project with room at first for one running and one queued; one command in flight, or one update of the policies; policies that are added | counters are what reservations hold; they grow within the limits that submission and admission go by; what ended holds nothing and stays released |
| `fair` | 3 projects of weights 2, 1, 2, a list of 2; one Job each at a time, one emergency, one withdrawal, one change of a weight or a policy | the bound on waiting of what is listed, and no starvation of what has a place |
| `access` | 2 principals, 1 team, 2 bindings, 2 transactions at a time, 4 that commit | an owner remains; a valid session was made with the memberships of today; no session revives |
| `sessions` | 2 sessions, 2 requests at a time, idle lifetime 2, absolute 4, clock to 4, 2 ticks a second, 2 refreshes | one session per login attempt; sessions go forward, by seconds; a rejected token does not end a session that another request refreshed |
| `jobs` | 2 workers, 2 events (commands, faults, changes of leader or scope, meddling) | an association is for ever; what is recorded becomes what is there; what is there becomes what was asked for |
| `queue` | 2 actors, 2 projects with a Job each at first, 1 key, 2 priorities, positions to 2, 4 Jobs, 3 versions | one Job per key; a new order replaces what was seen and takes effect |
| `policy` | 2 projects, 2 requests, 3 sets of rules that are wide but for their images, small, and open but for other images, 2 updates, 3 conflicts | what is accepted is narrower; a submission is within the installation's rules; an admission goes by the current limit |
| `login` | 3 people, 2 providers, 2 inputs of setup, 2 requests at a time, 5 events | what is offered was proven; setup has one winner; a change of a password undoes no other change or reset |
| `credentials` | 2 accounts, 2 requests at a time, 4 events, 6 half seconds, lifetimes 3 and 9, overlaps 1 and 2 | one replacement each; only live uses are recorded |
| `audit` | 1 replica, 1 project, 3 events, a queue and a page of one, retention of 1, clock to 3 | an export that ended is complete; loss is counted; what retention removes was decided |

Why the bounds are enough: the interesting histories of leadership are A, B, A (three
generations), and one unit of skew already separates what two clocks say; two ticks
are a whole second and a fraction, the least that texts order otherwise than time; a
doubtful attempt needs a first attempt, a retry to be confused with it, and a leader
for each besides the one that resolves them.  Quota contention needs two Jobs and
one free unit, in one scope that they share and others that they do not; a lost
update needs a request that has read and a transaction of another actor, not two
requests.  One update takes a limit away from under a composition or gives it more room,
and an addition takes it back.  Three projects are the fewest in which the cursor can skip one and a
turn can end on either neighbour, and a list of two has each of them come and go.  Two transactions that each leave one owner need two
owners, hence two changes before them: four in all, with principals that only
differ by name taken as one (SYMMETRY).  A refresh that was overtaken needs two requests and two
tokens; a second session is there for logins that replace the first.  The clock
goes on until an idle session, an attempt and an absolute lifetime have run out.
Two events reach every pair of disturbances of a Job's reconciliation (a crash after
a creation, then a change of leader; a command under an admission, then a lost
answer); the steps of workers and informers are not bounded.  An exchange of
positions needs two entries of a project, and one of another project between or
beside them, and a third that comes while a caller looks.  Policies need a parent and two children, so that a pass
has another candidate when it conflicts about one, and rules that are incomparable besides
those that are nested; one update of the child overlaps one of the parent.  Two owners that can log in by two providers, and a
third person who wins or loses a claim, are what setup and the last way to log in
are about.  Six half seconds hold a second that begins, ends and has a
fraction, which is where the texts differ.  An export of three pages is the least
that has events before, at and behind its cursor.

In `lease` no statement lags behind its clock (`MaxLag` 0): the theorems are about
lags too (see there for the one that bounds them).  In `fence` no command is `Reversible`, so that its one command is a
create, of which success can be asked: the theorems have commands of both kinds.  Deadlock is not checked in `access`,
`sessions`, `login`, `credentials`, `audit` and `policy`, whose bounds on changes and on time end every behaviour (of
`policy` one that ends with policies that do not compose, so that nothing is submitted).
Every module states its types; in those after `FairScheduler` no run checks them, so that
their runs spend their time on behaviour, and the proofs establish them.  Names of
`AuditLog`, `BrowserSessions`, `JobReconciliation`, `FairScheduler` and `JobQueue` that say
which module they are from (`AuditNext`, `sessionVars`) do so because one module of
proofs extends several of them.

### Disagreements between the code and what is said of it

They were met while modelling.  The models have the steps that lead to each, unless the
part is not modelled; where a property could have stated what the document says, it would be
violated, and the property that is checked says what does hold.

Leadership and the fence:

- The upsert compares texts (`I/adapters/persistence/leadership.go:38`, `:44`): another process may take
  the lease up to a second before it expires, and its holder may renew an expired one under the
  generation it had.  `leadership.go:14`: "Generation advances on every acquisition after
  expiry, including by the same holder."  `SupersededAuthorityLapses` allows the fraction.
- `r.observedAt` is noted when the listing has ended (`I/reconciler/reconciler.go:299`): an attempt that
  was begun and sent during the listing may be retried by it while its request is under way.
  `I/leadership/mutation.go:31`: "Neither this leader nor a successor may retry until Kubernetes is
  observed".  What `DoubtIsRemembered` owes ends with an observation whose time is after the start of the
  attempt, as the clocks of two processes tell.
- A row that is from before the opposite command is taken for the effect of a suspension, a resume or a
  deletion (`reconciler.go:1022`), which is recorded as done and may never have run.
  `mutation.go:113`: "Presence completes it".  `SucceededIsReal` is about creates.
- The doubt about a Job that is missing, out of scope or in conflict is not resolved
  (`reconciler.go:520`); `DoubtIsResolved` leaves it out while it is so.
- `CompleteMutation` is not tied to the lease; a new leader may resolve doubt with
  what it observed before its term; after a pause the role that is published and the session
  that authorizes differ for a while (`I/leadership/manager.go:121`).

Quota and scheduling:

- A pass without candidates falls back to `scheduleLegacy` (`I/reconciler/reconciler.go:618`),
  which claims what has come since, and starts Jobs that
  quota does not count as running.  ADR 0012:47: "Concurrent requests cannot
  bypass quota by racing admission or intent creation."
- `Archive` of a missing Job (`I/adapters/persistence/sqlstore.go:1093`) gives back only the
  retained part of its reservation; the open part is held for ever.  ADR 0012:20: "Usage is
  released through idempotent completion, cancellation, and recovery paths."
- `SetDesiredState` (`sqlstore.go:862`) checks a row that it read before its transaction: a
  resume that read earlier overwrites a cancellation whose quota was released.
  `I/application/jobs.go:480` refuses a command on a terminal Job.
- `CompareAndSetProjectWeight` (`scheduling.go:273`) leaves a deficit that `Select` then
  refuses on each pass.  `I/scheduler/scheduler.go:111`: a deficit "must be less than its weight".
- An emergency is refused while the stored cursor names a project with nothing to run
  (`scheduling.go:808`).  `scheduler.go:13`: "Emergency jobs preempt the standard weighted-fair lane".
- An abandoned admission can exceed the limit on queued Jobs (`quotas.go:356`).  `WithinLimits` is about
  running Jobs and retained records.
- A submission decides by policies that it composed before its transaction
  (`I/application/policyquota.go`, `quotas.go`): it may exceed a limit that was lowered since, and what was
  counted before a limit was lowered stays.  `WithinLimits` is therefore about what raises a counter.
- Only the first 200 projects by identifier are listed (`scheduling.go:59`): while as many others that
  come before it are busy, a project is never served.  `src/docs/phase-3-plan.md:305`: "A
  continuously busy project cannot starve another positive-weight project."  `NoStarvation`
  and `WaitIsBounded` leave out those beyond the list.

Policies:

- Narrowing the installation's policy is not validated against the projects': a project's
  submissions fail from then on, and as nothing is stored each pass selects it again and ends for every
  project (`reconciler.go:662`).  ADR 0012:25-26: "Projects with eligible work receive bounded
  opportunities without starvation".  `NoStarvation` leaves out the time in which it is so.
- Priority and images are asked at a submission and not at the admission (`scheduling.go:456`): a
  Job whose registry was taken off the allowlist while it was queued is started.  ADR
  0012:16-18: "an optional admission-time image-registry allowlist".  `SubmittedWithinInstallation` is about
  the composition of a submission, `AdmittedByCurrentLimit` about the quota.  The legacy
  scheduler composes nothing at all.
- A policy that is created after the composition is not looked for at the commit
  (`scheduling.go:531`), as `AdmittedByCurrentLimit` says.
- An update that waited for the row of its parent can be told that the parent is missing
  (`policies.go:190`), and PATCH drops the actions of roles
  (`I/platform/httpserver/admission_administration.go:212`).

Jobs and queue:

- The observation of a worker that lags can overwrite a newer one until it observes again, and
  `SetObserved` does not say that it wrote nothing (`reconciler.go:853`, `:867`,
  `sqlstore.go:907`; ADR 0007:24-25, ADR 0006:31-32).  The properties of `jobs` hold in the end only.
- A Job whose namespace left the scope before any worker had an object for it is stranded
  (`sqlstore.go:1032`; ADR 0003:34-36).  `DesiredSettles` leaves it out (`Stranded`), as it does an object that
  was created and taken away before anybody saw it (`Unseen`).
- `ReorderProject` exchanges positions; where two entries share one it is accepted and changes
  nothing (`sqlstore.go:1345`).  `ReorderTakesEffect` leaves that case out.
- The repetition of a submission is a conflict after `UpdateQueue` changed the Job's priority
  or its admission changed the demand (`quotas.go:58`, `:933`), and a key that was
  used before there was a policy meets the unique index.
- Who is in the queue changes without a new version (`sqlstore.go:885`, `:1068`).
- `Create` and `Reorder` lock the metadata row and the table in opposite orders
  (`sqlstore.go:270`, `:1174`): PostgreSQL ends one of them.
- A cursor of `JobChanges` is an event's id, and one that commits late is skipped (`sqlstore.go:1461`).

Access, login and credentials:

- `synchronizeOIDCMemberships` (`oidc_identity.go:263`) never asks whether an owner remains:
  the last one can lose the role at a login.  ADR 0009:37: "the final installation owner cannot be
  removed".  `OwnerRemains` holds of the transactions that ask.
- Two providers that are disabled together, or one whose test fails while it is enabled
  (`identity_providers.go:195`, `:157`), leave owners without a way to log in
  (ADR 0009:59-60).  `hasAlternativeOwnerLogin` asks no result of a test.
- A login that verified the old password makes its session after the change that revoked all
  of them (`local_accounts.go:136`; ADR 0010:18-20).
- `HasVerifiedInstallationOwner` (`setup.go`) counts only bindings that are direct.
- `TouchNativeCredential` (`service_accounts.go:448`) compares times as texts, wrong within one
  second, and a late touch moves the last use back.  So does `TouchBrowserSession`
  (`sessions.go:126`), within a second: `SessionGoesForward` is about seconds.

Audit:

- What a writer failed to write is counted and never shown, and its queue is dropped at
  shutdown (`I/platform/httpserver/server.go:152`; ADR 0011:50).
- Nothing calls `ApplyAuditRetention` (`I/application/audit.go:247`; ADR 0011:24).
- An event that becomes visible after the cursor has passed its time is not exported
  (`I/adapters/persistence/audit.go:138`), and a reader whose scope shrinks to nothing that is left
  sees an export that ended (`application/audit.go:71`).  `ExportIsComplete` owes neither.

## Fairness

Safety needs none.  In `fence` a worker keeps polling (`Run` is a loop on a
ticker), every call ends with an answer or an error (by the network's timeouts; the
code sets none), and the lease of a dead process runs out and is taken.  Disturbances (crashes, expiry
of a living leader's lease) are bounded by `MaxGeneration`: without that bound leadership
could change for ever before anything is resolved.  That Jobs are
taken up again is not assumed: a doubt is owed nothing while its Job is aside.  In `fair`, passes follow each other for as long as the worker
runs.  Withdrawals are bounded there because a candidate that is withdrawn under
the pass's hands ends the pass for every project, so a project that did so in
each pass could keep the others waiting.

In `jobs`, workers go on with their passes (the same ticker), an informer gets what
it lacks, a delay runs out, and a configuration that was changed is rolled out to
every worker.  Nothing is assumed of crashes, commands, faults or changes of
leader, of which there are `MaxEvents`. 

## Proofs

TLAPS checks eight modules, for every value of the constants that the modules assume: any
set of processes, workers, commands, Jobs, principals, teams, projects, requests (finite where
something is counted), any durations, limits and weights.  Each theorem
`Spec => []P` or `Spec => [][A]_v` has the same form: an inductive invariant,
one lemma for each kind of step, and `P` or `A` from it.
What follows is what each invariant adds to the properties, and why that is needed.
No property that is a safety property, of a state or of a step, is without its theorem.

**Leadership** (`LeadershipManagerProofs`): `TypesCorrect`, `GenerationHasOneHolder`,
`StaleAuthorityRunsOut`, `LeaseImplementsTokens` (`Spec => TokenSpec`), `TurnsAreNotCrossed`.
`OneHolderPerGeneration` says nothing of the answers that are still to be applied, so it is
not inductive.  `RowInv` ties the row to the history of grants; `ReadInv` says that whatever an
answer holds was once the row; `GrantInv` that every session, authority and answer names a
generation that was granted to the process that has it; `ExpiryInv` bounds how far into the
future a copy of an older generation can reach, with the slack of the texts in every bound.  `TurnsAreNotCrossed` also needs `TurnInv`: how
long an answer that waits can still seem active, by who has led since.  The theorem has a
hypothesis, `2 * (MaxLag + TextSlack) <= TTL`, where `TextSlack` is the fraction of a second that
texts do not order.  A statement that carries a clock reading older than half the lease's
duration makes it false (TLC finds the behaviour with TTL 1, lag 1 and whole seconds), and nothing in the
code bounds that: the lease lasts 6 seconds (`I/platform/worker/worker.go:56`), which leaves
2 for the lag, and its statements have no deadline.

**The fence** (`MutationFenceProofs`): `TypesCorrect`, `DoubtsAreRemembered`, `SuccessIsReal`.
`TermInv`: a pass that leads has a generation of its own, which is the lease's only if it is the
holder.  `OwnInv`: the record a closing pass may complete is of its own attempt, so its answer is not
taken for another's.  `DoubtfulInv`: while its leader leads, an attempt found in
doubt is the one whose observation is recorded.  `EffectInv`: what was observed is there unless it is
`Reversible`, and what was answered with success is there.  `DoubtIsRemembered` and `SucceededIsReal`
are part of the invariant.

**Quota** (`QuotaAdmissionProofs`): `TypesCorrect`, `CountersAreHeld` (the counters are what
the reservations hold), `LimitsAreKept`, `EndedIsReleased`, `ReleaseIsFinal`.
`SubmittedInv` says that nothing refers to a Job that was not submitted, without which an
observation could end a Job before it reserves, and that what was submitted is not composed again.  Every action either leaves the ledger
unchanged or is one of five steps of it (reserve, admit, requeue, release, release the retained
part): `QuotaSteps`.  Each of these exchanges the demand of one Job for another
(`StepExchanges`), from which the counters follow by cardinality (`HeldNext`).  The limits
follow from which steps raise a counter: a submission and an admission, which have
checked it (`TakenFits`, `AdmittedFits`); an abandoned admission gives back more than it takes of
what is limited (`ReturnedIsLess`).  Nothing is assumed of the limits, which are any that there may be and
change in any way.

**Access** (`AccessControlProofs`): `TypesCorrect`, `OwnerAlwaysRemains`,
`SessionsKnowTheirTeams`, `SessionsStayInvalid`.  `LockInv`: the rows that two transactions have
written are disjoint, so the order of their commits does not matter to either.  `WriteInv`: what a
transaction may have read and written where it is; in particular one that will not count the
owners takes nothing away, except what a provider says.  `CountInv`: one that has counted them
sees an owner and holds the installation's lock, so that what commits beside it only adds.
`SubjectInv` and `SessionInv`: grants and sessions are of accounts that exist, which is why a change of
membership reaches the generation of everyone it concerns.

**Reconciliation of a Job** (in `LeadershipManagerProofs`): `ReconciliationTypesCorrect`,
`AssociationsAreForever`.  `ReconciliationInv`: a UID and a resource version come
together, in the row, in every cache and in every read; a worker's copy of the row has the
row's UID or none.  A write from an old copy can then fill in a UID but not change one.

**Policies** (`PolicyHierarchyProofs`): `PolicyTypes`, `OnlyWideningIsRefused`,
`AcceptedPoliciesAreNarrower`, `SubmissionsAreWithinInstallation`, `AdmissionsGoByCurrentLimits`.
`RequestInv`: a transaction that has validated its rules
composes with the parent as it is now, which is what the lock on the parent's row is for.
`PassInv`: a pass has composed no later versions than the current ones, and if that of the installation
is current, its limit is what rules that narrow the current ones make of them (`Composed`).
`JobInv`: where there is no Job nothing is asked.  That an overlay of narrower rules allows nothing
that the parent does not is `OverlayIsWithin`.

**Login** (`OwnerLoginProofs`): `TypesCorrect`, `OfferedHasBeenProven`, `OneClaimWins`,
`ChangesDoNotOverwrite`.  The invariant says of each request that it has read no later version and
no later password than there are, and that a test that succeeded for the present version
succeeded for the present configuration; it is kept because versions and passwords only go on.
`SecretInv`: no password that was set is later than the account's, so a change that compares finds the one
it has verified only if none was set in between.

**Credentials** (`CredentialsProofs`): `TypesCorrect`, `ReplacedOnce`, `UsesAreOfTheLive`.
`ReplaceInv` is both directions of a rotation: who replaces another replaces one that was
rotated, who was rotated has exactly one successor.  `RequestInv`: a request that will record a use
saw a credential before its expiry.

**Audit log** (`ServiceProofs`): `ExportsAreComplete`, `LossesAreCounted`, `RemovalsAreDecided`.
`MadeInv`: an event's id is that of one event, in the log, a transaction or a writer's queue.
`LossInv`: what a writer was given and is neither written nor pending has been counted.
`ExportInv`: what an export owes is in the log, and is exported or comes after the last event
that is; a page that is not full has nothing after it (`PageGoesOn`).

**Browser sessions** (`ServiceProofs`): `AttemptsMakeOneSession`, `SessionsGoForward`,
`RejectionsSpareTheRefreshed`.  `AskingInv` compares what each request has read with the row
and with the token that the provider takes: it is never ahead of either, and one
whose ciphertext is still the row's has the row's token.  A request that was rejected and
whose ciphertext is still there was therefore not overtaken by a refresh.

**Fair scheduling** (`ServiceProofs`): `SchedulerTypesCorrect`, `WaitsAreBounded`.  `WaitInv` is
sharper than the property: a project has waited for no more decisions than the others
have used of their turns: those between the cursor and it have theirs still to come, the
cursor's own is used in part, the rest have had all of theirs.  The sum over
projects is a fold of the community modules, whose equation is proved first
(`SumExists`), by the least cardinality at which it could fail.

**Queue** (`ServiceProofs`): `RepeatsMakeOneJob`, `ReordersReplaceWhatWasSeen`,
`ReordersTakeEffect`.  `QueueInv`: a key, and a parent, has one row at most; while the version is
the one a request has read, the order is too; an answer names the row of its key.  The
order of the queue is a sequence sorted by priority, position and age.  The proofs reason about
it by ranks: in a sequence sorted by a linear order, the place of a member is the number of those
before it (`RankOf`), and an exchange that keeps the order of the members keeps their places
(`ImageInRank`).  A reordering of the whole queue gives priorities that fall, with no
room for any other order (`NoHeavier`); one of a project exchanges its own places.

`SetInduction` and the like are induction over what is finite, stated for sets: the
library's own theorems take an operator, which the installed provers cannot instantiate.

Only model-checked: liveness (`DoubtIsResolved`, `NoStarvation`, `ObservationSettles`,
`DesiredSettles`), since fairness and ENABLED are beyond the prover.

## Plan

1. Proofs: that a Job whose counters are held by one reservation makes the same steps in
   `FairScheduler`, `QuotaAdmission` and `JobReconciliation`, which model its admission each at
   the grain it needs: an abstract Job with a lifecycle (waiting, started, ended) that the
   three implement, step by step as `LeaseImplementsTokens` does.
2. `RowLocks`: the order in which transactions lock rows, an abstraction shared by quota, queue
   and access.  Besides `Create` and `Reorder`, an abandoned admission against an
   observation (`scheduling.go:501`) and `DeleteRoleBinding` against `UpdatePrincipal`
   (`access_roles.go:389`) lock in opposite orders.
3. Break-glass (a replica with an older configuration, a roll-back) and migrations by several
   processes that start together; role definitions; the throttle of failed logins.

## Not modelled

HTTP decoding and routing, the web console's rendering, token validation and
password hashing, metrics, configuration, packaging: they keep no state of their
own or are pure computation on text.  CPU and memory demands of quota count like the
units that are modelled, and are left out, as is the choice among one project's Jobs
(priority, aging).  Of access, custom role definitions and the evaluation of a
permission are left out; of sessions, the pruning of rows a month after their end,
encryption and digests; of Jobs, everything that only reads (filters, facets, the change
stream) and the adoption of objects that KubeQueue did not create; of policies, those of namespaces, which nothing
creates, and the actions of roles, which nothing enforces; of the audit log, the fields of an event and their redaction.
SQLite, which runs one writer at a time and is there for development, is not
modelled: transactions are PostgreSQL's.

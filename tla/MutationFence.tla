---------------------------- MODULE MutationFence ---------------------------
(***************************************************************************)
(* How a reconcile pass puts commands to Kubernetes while leaders come and *)
(* go (mutateKubernetes and resolveOutstandingMutations of                  *)
(* reconciler/reconciler.go).  A pass observes Kubernetes, acquires the     *)
(* lease, and visits its commands; for each it begins an attempt in the     *)
(* ledger, revalidates its leadership, sends the request, and records how   *)
(* it ended.  Each of these is a statement of its own: a process may crash, *)
(* hang or lose the lease between any two, and a request that was sent may  *)
(* be executed long after its sender has given up on it.                    *)
(*                                                                         *)
(* An observation is a listing, the time that the process notes when it has *)
(* ended, and the rows of the Jobs that are read after that; it counts for  *)
(* an attempt when that time is after the start that another process, by    *)
(* its own clock, has noted of the attempt.                                 *)
(*                                                                         *)
(* The lease is that of LeadershipLease with time left out: it may expire   *)
(* at any moment.  A command is one request identity; its effect, once      *)
(* there, stays, and Kubernetes refuses the request from then on (an Already *)
(* Exists, or a resource version that has changed).                         *)
(***************************************************************************)
EXTENDS MutationLedger, FiniteSets

CONSTANTS
    Worker,          \* worker processes
    Gone,            \* holder of a lease whose process has died
    Key,             \* commands: operation and request identity of a job
    Reversible,      \* those whose effect a row may show from before: all but creates
    Skew,            \* whether clocks of processes may differ
    MaxGeneration,   \* bound: after this generation there are no disturbances
    MaxAttempt       \* bound: number of attempts begun

ASSUME FenceAssumption ==
    /\ Gone \notin Worker
    /\ Reversible \subseteq Key
    /\ Skew \in BOOLEAN
    /\ MaxGeneration \in Nat \ {0}
    /\ MaxAttempt \in Nat

VARIABLES
    lease,           \* the row: holder, generation, and whether it is active
    ledger,          \* table reconciliation_mutations
    effect,          \* commands whose effect is there in Kubernetes
    wire,            \* requests sent and not yet executed
    pass,            \* the reconcile pass of each process
    seen,            \* what its latest observation was
    aside,           \* commands whose Job the passes do not look at
    attempts,        \* number of attempts begun (history)
    unsettled        \* those that neither failed for certain nor were looked for (history)

history == <<attempts, unsettled>>
vars == <<lease, ledger, effect, wire, pass, seen, aside, attempts, unsettled>>

Requests == [key : Key, attempt : Nat]

\* "visiting" a key has just begun or is to begin again, "doubtful" waits to
\* record an observation, "begun" to revalidate, "fenced" to send, "sent" for
\* the answer, "closing" to record an outcome.
Passes == [at : {"idle", "listing", "observed", "leading", "visiting", "doubtful", "begun",
                 "fenced", "sent", "closing"},
           generation : Nat, todo : SUBSET Key, key : SUBSET Key,
           attempt : Nat, outcome : {"none", "succeeded", "failed", "uncertain"}]

Idle == [at |-> "idle", generation |-> 0, todo |-> {}, key |-> {},
         attempt |-> 0, outcome |-> "none"]

\* An observation: complete if every namespace was listed; the attempts whose
\* noted start is before its time, r.observedAt; the effects the rows show.
Observations == [complete : BOOLEAN, since : SUBSET Nat, effects : SUBSET Key]
NoObservation == [complete |-> FALSE, since |-> {}, effects |-> {}]

Init ==
    /\ lease = [holder |-> Gone, generation |-> 0, live |-> FALSE]
    /\ ledger = [k \in Key |-> NoRecord]
    /\ effect = {}
    /\ wire = {}
    /\ pass = [w \in Worker |-> Idle]
    /\ seen = [w \in Worker |-> NoObservation]
    /\ aside = {}
    /\ attempts = 0
    /\ unsettled = {}

-----------------------------------------------------------------------------
(* The lease                                                               *)

Leads(w) == lease.live /\ lease.holder = w

\* leadership.Authorize for the authority of the pass of w.
Authorized(w) == Leads(w) /\ lease.generation = pass[w].generation

\* Disturbances happen only before the last generation.
Disturbable == lease.generation < MaxGeneration

Expire ==
    /\ lease.live
    /\ Disturbable
    /\ lease' = [lease EXCEPT !.live = FALSE]
    /\ UNCHANGED <<ledger, effect, wire, pass, seen, aside, history>>

\* TryAcquire takes an expired lease: in the pass, or at any time in the
\* goroutine that polls, under a pass that goes on with its old authority.
Acquire(w) ==
    /\ ~lease.live
    /\ Disturbable
    /\ lease' = [holder |-> w, generation |-> lease.generation + 1, live |-> TRUE]
    /\ UNCHANGED <<ledger, effect, wire, pass, seen, aside, history>>

-----------------------------------------------------------------------------
(* The start of a pass                                                     *)

\* discover starts to list the namespaces, from informer caches: attempts that
\* begin from now on may count as observed without being in the list.
List(w) ==
    /\ pass[w].at = "idle"
    /\ pass' = [pass EXCEPT ![w].at = "listing"]
    /\ UNCHANGED <<lease, ledger, effect, wire, seen, aside, history>>

\* The attempts that have begun and whose start is before the time on the clock
\* of the process.  It may be behind the clocks of others by a bounded time:
\* that it is too early for an attempt is one of the disturbances.
Stamped == IF Skew /\ Disturbable THEN SUBSET (1..attempts) ELSE {1..attempts}

\* What the rows of the Jobs show: a part of what is there, as caches and the
\* observations that other processes write lag behind; and of an effect that
\* another command had taken back, what was there before that.
Shown == SUBSET (effect \cup Reversible)

\* All namespaces are listed; r.observedAt is set, and the rows are read.
Observe(w) ==
    /\ pass[w].at = "listing"
    /\ \E since \in Stamped, shown \in Shown :
         seen' = [seen EXCEPT ![w].complete = TRUE, ![w].since = since, ![w].effects = shown]
    /\ pass' = [pass EXCEPT ![w].at = "observed"]
    /\ UNCHANGED <<lease, ledger, effect, wire, aside, history>>

\* A namespace could not be listed: r.observedAt is reset.
ObserveFails(w) ==
    /\ pass[w].at = "listing"
    /\ Disturbable
    /\ seen' = [seen EXCEPT ![w] = NoObservation]
    /\ pass' = [pass EXCEPT ![w].at = "observed"]
    /\ UNCHANGED <<lease, ledger, effect, wire, aside, history>>

\* The pass is over, and what it has observed is not used any more.
Ends(w) ==
    /\ pass' = [pass EXCEPT ![w] = Idle]
    /\ seen' = [seen EXCEPT ![w] = NoObservation]

\* The process is gone; what replaces it has another holder identity.
Crash(w) ==
    /\ Disturbable
    /\ Ends(w)
    /\ lease' = IF lease.holder = w THEN [lease EXCEPT !.holder = Gone] ELSE lease
    /\ UNCHANGED <<ledger, effect, wire, aside, history>>

\* The lease is the process's own: TryAcquire renews it and Authority takes
\* its generation.
Lead(w) ==
    /\ pass[w].at = "observed"
    /\ Leads(w)
    /\ pass' = [pass EXCEPT ![w].at = "leading", ![w].generation = lease.generation,
                            ![w].todo = Key]
    /\ UNCHANGED <<lease, ledger, effect, wire, seen, aside, history>>

\* ErrLeaseHeld, or the database does not answer: the pass is over.
Follow(w) ==
    /\ pass[w].at = "observed"
    /\ Disturbable \/ ~Leads(w)
    /\ Ends(w)
    /\ UNCHANGED <<lease, ledger, effect, wire, aside, history>>

-----------------------------------------------------------------------------
(* The visit of a command                                                  *)

\* applyCommands and the candidates of schedule pass over a Job that is missing,
\* out of scope, in conflict, not managed or waiting for a retry.
Visit(w) ==
    /\ pass[w].at = "leading"
    /\ \E k \in pass[w].todo :
         pass' = [pass EXCEPT ![w].todo = @ \ {k},
                    ![w].at = IF k \in aside THEN @ ELSE "visiting",
                    ![w].key = IF k \in aside THEN @ ELSE {k}]
    /\ UNCHANGED <<lease, ledger, effect, wire, seen, aside, history>>

\* Go on with the next command.
NextKey(w) == [pass[w] EXCEPT !.at = "leading", !.key = {}, !.attempt = 0, !.outcome = "none"]

EndPass(w) ==
    /\ pass[w].at = "leading"
    /\ pass[w].todo = {}
    /\ Ends(w)
    /\ UNCHANGED <<lease, ledger, effect, wire, aside, history>>

\* After a refusal or a doubt the loop over the commands of existing Jobs is
\* left, but the pass still comes to the admissions.
GoesOn(w) ==
    \/ Ends(w)
    \/ pass' = [pass EXCEPT ![w] = NextKey(w)] /\ UNCHANGED seen

\* A transaction of the ledger fails.  The authority may also have run out
\* under a renewed lease, so a refusal is always possible.
Refused(w) ==
    /\ pass[w].at \in {"visiting", "doubtful"}
    /\ Disturbable \/ ~Authorized(w)
    /\ GoesOn(w)
    /\ UNCHANGED <<lease, ledger, effect, wire, aside, history>>

\* The start of the attempt a is noted by the clock of w: it may be before what
\* other processes, whose clocks are ahead, have noted of their observations.
SeenAfter(w, a) ==
    {[v \in Worker |-> IF v \in ahead THEN [seen[v] EXCEPT !.since = @ \cup {a}] ELSE seen[v]] :
       ahead \in SUBSET {v \in Worker \ {w} : Skew /\ Disturbable /\ seen[v].complete}}

\* BeginMutation starts an attempt.
Begin(w) ==
    /\ pass[w].at = "visiting"
    /\ Authorized(w)
    /\ attempts < MaxAttempt
    /\ \E k \in pass[w].key :
         /\ CanBegin(ledger[k], pass[w].generation)
         /\ ledger' = [ledger EXCEPT ![k] = Begun(@, pass[w].generation, attempts + 1)]
         /\ unsettled' = unsettled \cup {[key |-> k, attempt |-> attempts + 1]}
    /\ attempts' = attempts + 1
    /\ pass' = [pass EXCEPT ![w].at = "begun", ![w].attempt = attempts + 1]
    /\ seen' \in SeenAfter(w, attempts + 1)
    /\ UNCHANGED <<lease, effect, wire, aside>>

\* Mutant: only an observation made after a later attempt counts.
ObservedAfter(w, m) == m.attempt + 1 \in seen[w].since

\* r.observedAt is after the record's StartedAt.
ObservedSince(w, m) == m.attempt \in seen[w].since

\* BeginMutation finds an attempt of unknown outcome: it is in doubt from now
\* on, and an observation made since it began is needed to go on.
FindDoubt(w) ==
    /\ pass[w].at = "visiting"
    /\ Authorized(w)
    /\ \E k \in pass[w].key :
         /\ Pending(ledger[k])
         /\ ledger' = [ledger EXCEPT ![k].state = "ObservationRequired"]
         /\ IF ObservedSince(w, ledger[k])
            THEN /\ pass' = [pass EXCEPT ![w].at = "doubtful", ![w].attempt = ledger[k].attempt]
                 /\ UNCHANGED seen
            ELSE GoesOn(w)
    /\ UNCHANGED <<lease, effect, wire, aside, history>>

\* BeginMutation finds the command done; or it is not asked for any more.
NothingToDo(w) ==
    /\ pass[w].at = "visiting"
    /\ \E k \in pass[w].key :
         \/ ledger[k].state = "Succeeded" /\ Authorized(w)
         \/ ledger[k].state = "Ready"
    /\ pass' = [pass EXCEPT ![w] = NextKey(w)]
    /\ UNCHANGED <<lease, ledger, effect, wire, seen, aside, history>>

RequestsOf(w) == {[key |-> k, attempt |-> pass[w].attempt] : k \in pass[w].key}

\* ObserveMutation, with what the rows showed.
ObserveDoubt(w) ==
    /\ pass[w].at = "doubtful"
    /\ Authorized(w)
    /\ \E k \in pass[w].key :
         /\ CanObserve(ledger[k], pass[w].generation)
         /\ ledger' = [ledger EXCEPT ![k] =
                Observed(@, pass[w].generation, k \in seen[w].effects)]
         /\ pass' = [pass EXCEPT ![w] = IF k \in seen[w].effects THEN NextKey(w)
                                        ELSE [@ EXCEPT !.at = "visiting", !.attempt = 0]]
    /\ unsettled' = unsettled \ RequestsOf(w)
    /\ UNCHANGED <<lease, effect, wire, seen, aside, attempts>>

\* Revalidate, before the write.
Revalidate(w) ==
    /\ pass[w].at = "begun"
    /\ \/ Authorized(w) /\ pass' = [pass EXCEPT ![w].at = "fenced"]
       \/ /\ Disturbable \/ ~Authorized(w)
          /\ pass' = [pass EXCEPT ![w].at = "closing", ![w].outcome = "failed"]
    /\ UNCHANGED <<lease, ledger, effect, wire, seen, aside, history>>

Send(w) ==
    /\ pass[w].at = "fenced"
    /\ wire' = wire \cup RequestsOf(w)
    /\ pass' = [pass EXCEPT ![w].at = "sent"]
    /\ UNCHANGED <<lease, ledger, effect, seen, aside, history>>

\* A timeout, a lost connection or an error of the server: the request may or
\* may not have been, or still be, executed.
Ambiguous(w) ==
    /\ pass[w].at = "sent"
    /\ pass' = [pass EXCEPT ![w].at = "closing", ![w].outcome = "uncertain"]
    /\ UNCHANGED <<lease, ledger, effect, wire, seen, aside, history>>

\* CompleteMutation: no authority is asked for, only the attempt's own
\* generation.  An error leaves the record as it is.
Complete(w) ==
    /\ pass[w].at = "closing"
    /\ \E k \in pass[w].key :
         \/ /\ CanComplete(ledger[k], pass[w].generation)
            /\ ledger' = [ledger EXCEPT ![k] = Completed(@, pass[w].outcome)]
            /\ unsettled' = IF pass[w].outcome = "failed" THEN unsettled \ RequestsOf(w)
                            ELSE unsettled
         \/ /\ Disturbable \/ ~CanComplete(ledger[k], pass[w].generation)
            /\ UNCHANGED <<ledger, unsettled>>
    /\ GoesOn(w)
    /\ UNCHANGED <<lease, effect, wire, aside, attempts>>

-----------------------------------------------------------------------------
(* Kubernetes                                                              *)

\* A request is executed, whoever sent it, and the answer may reach a sender
\* that still waits.
Execute(r) ==
    /\ r \in wire
    /\ wire' = wire \ {r}
    /\ effect' = effect \cup {r.key}
    /\ \/ UNCHANGED pass
       \/ \E w \in Worker :
            /\ pass[w].at = "sent" /\ r \in RequestsOf(w)
            /\ pass' = [pass EXCEPT ![w].at = "closing", ![w].outcome =
                          IF r.key \in effect THEN "failed" ELSE "succeeded"]
    /\ UNCHANGED <<lease, ledger, seen, aside, history>>

\* A request is lost, or refused for a reason of its own.
Drop(r) ==
    /\ r \in wire
    /\ Disturbable
    /\ wire' = wire \ {r}
    /\ \/ UNCHANGED pass
       \/ \E w \in Worker :
            /\ pass[w].at = "sent" /\ r \in RequestsOf(w)
            /\ pass' = [pass EXCEPT ![w].at = "closing", ![w].outcome = "failed"]
    /\ UNCHANGED <<lease, ledger, effect, seen, aside, history>>

-----------------------------------------------------------------------------
\* The Job of a command is found missing, replaced, out of scope or in conflict,
\* or its retry is put off; and is to be reconciled again.
SetAside(k) ==
    /\ k \notin aside
    /\ aside' = aside \cup {k}
    /\ UNCHANGED <<lease, ledger, effect, wire, pass, seen, history>>

TakeUp(k) ==
    /\ k \in aside
    /\ aside' = aside \ {k}
    /\ UNCHANGED <<lease, ledger, effect, wire, pass, seen, history>>

-----------------------------------------------------------------------------
Step(w) ==
    \/ List(w) \/ Observe(w) \/ Lead(w) \/ Follow(w) \/ Visit(w) \/ EndPass(w)
    \/ Refused(w) \/ Begin(w) \/ FindDoubt(w) \/ NothingToDo(w) \/ ObserveDoubt(w)
    \/ Revalidate(w) \/ Send(w) \/ Ambiguous(w) \/ Complete(w)

Next ==
    \/ \E w \in Worker : Step(w) \/ ObserveFails(w) \/ Acquire(w) \/ Crash(w)
    \/ \E r \in wire : Execute(r) \/ Drop(r)
    \/ \E k \in Key : SetAside(k) \/ TakeUp(k)
    \/ Expire

Spec == Init /\ [][Next]_vars

\* A worker polls for as long as it lives, a call ends with an answer or an error,
\* and a lease that nobody renews expires and is taken.
Fairness ==
    /\ \A w \in Worker : WF_vars(Step(w)) /\ WF_vars(Acquire(w))
    /\ WF_vars(lease.holder = Gone /\ Expire)

FairSpec == Spec /\ Fairness

-----------------------------------------------------------------------------
(* Properties                                                              *)

\* Types of the variables.
TypeOK ==
    /\ lease \in [holder : Worker \cup {Gone}, generation : Nat, live : BOOLEAN]
    /\ ledger \in [Key -> Records]
    /\ effect \subseteq Key
    /\ wire \subseteq Requests
    /\ pass \in [Worker -> Passes]
    /\ seen \in [Worker -> Observations]
    /\ aside \subseteq Key
    /\ attempts \in Nat
    /\ unsettled \subseteq Requests

\* mutation.go:31: "OutcomeUncertain means the command may have reached
\* Kubernetes. Neither this leader nor a successor may retry until Kubernetes
\* is observed": while an attempt that was begun has neither failed for certain
\* nor been looked for in an observation whose time is after its own start, as
\* their clocks tell, the ledger remembers that very attempt and is not ready
\* for another, through crashes, handovers, failed transactions and outcomes of
\* deposed leaders, of which only the generation is compared.
DoubtIsRemembered ==
    \A r \in unsettled :
        ledger[r.key].attempt = r.attempt /\ ledger[r.key].state # "Ready"

\* A create is recorded as done only when it was, though the record may be made
\* by a process that never sent it, by an observation that misses attempts.
\* Of a suspension, a resume or a deletion it may be recorded although it never
\* ran: the row shows the state of before the command that it takes back.
SucceededIsReal ==
    \A k \in Key \ Reversible : ledger[k].state = "Succeeded" => k \in effect

\* A command of unknown outcome is resolved, by whoever leads when the
\* disturbances are over, unless its Job is set aside again and again.
DoubtIsResolved ==
    <>[]~Disturbable => \A k \in Key : []<>(~Pending(ledger[k]) \/ k \in aside)
=============================================================================

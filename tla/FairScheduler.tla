---------------------------- MODULE FairScheduler ---------------------------
(***************************************************************************)
(* Weighted fair admission: scheduler.Select, the fairness state it is      *)
(* given and returns, and the loop of schedule (reconciler/reconciler.go)   *)
(* that lists candidates, selects, and commits each decision together with *)
(* the next fairness state.  Projects are numbered in the order of their    *)
(* identifiers.  A pass lists the first MaxProjects that have an eligible   *)
(* Job, and works with the candidates and the weights it has listed, while  *)
(* Jobs come and go and administrators change weights and policies.         *)
(*                                                                         *)
(* Only the leader writes the fairness state, so its version never          *)
(* conflicts; a pass is assumed to find room for one admission.  Which Job  *)
(* of a project is taken (priority and age) is left out.                    *)
(***************************************************************************)
EXTENDS Naturals, FiniteSetsExt

CONSTANTS
    LastProject,      \* projects are 1..LastProject
    MaxProjects,      \* ports.MaxSchedulingProjects: projects in a list
    InitialWeight,    \* weight of each project at the start
    MaxWeight,        \* bound: weights that are set
    MaxEligible,      \* bound: eligible Jobs of a project at a time
    MaxAdjustments,   \* bound: changes of a weight or of policies
    MaxEmergencies,   \* bound: number of emergency Jobs
    MaxWithdrawals    \* bound: number of Jobs paused or cancelled

Projects == 1..LastProject

\* Bound: a wait is counted up to here, beyond every sum of weights.
MaxWait == LastProject * MaxWeight + 1

ASSUME SchedulerAssumption ==
    /\ LastProject \in Nat \ {0}
    /\ MaxProjects \in Nat \ {0}
    /\ MaxWeight \in Nat \ {0}
    /\ InitialWeight \in [Projects -> 1..MaxWeight]
    /\ {MaxEligible, MaxAdjustments, MaxEmergencies, MaxWithdrawals} \subseteq Nat

VARIABLES
    weight,          \* projects.scheduling_weight
    widens,          \* projects whose policy is wider than the installation's
    eligible,        \* number of eligible Jobs of the standard lane
    urgent,          \* projects with an eligible Job of the emergency lane
    deficit,         \* scheduler_project_deficits
    cursor,          \* scheduler_fairness_state.next_project_id, 0 for none
    pass,            \* the reconcile pass: what it listed
    turn,            \* project of the latest decision (history)
    waited,          \* decisions for others while a project was listed (history)
    heaviest,        \* the highest weight a project has had (history)
    changes,         \* changes of weights and policies so far (history)
    emergencies,     \* emergency Jobs so far (history)
    withdrawals      \* Jobs paused or cancelled so far (history)

fairness == <<deficit, cursor>>
bounds == <<heaviest, changes, emergencies, withdrawals>>
vars == <<weight, widens, eligible, urgent, deficit, cursor, pass, turn, waited,
          heaviest, changes, emergencies, withdrawals>>

\* A listed project stays in the list when its candidates are used up.
Passes == [open : BOOLEAN, decided : BOOLEAN, listed : SUBSET Projects,
           weight : [Projects -> 1..MaxWeight], jobs : [Projects -> 0..MaxEligible],
           urgent : SUBSET Projects]
NoPass == [open |-> FALSE, decided |-> FALSE, listed |-> {}, weight |-> InitialWeight,
           jobs |-> [p \in Projects |-> 0], urgent |-> {}]

Init ==
    /\ weight = InitialWeight
    /\ widens = {}
    /\ eligible = [p \in Projects |-> 0]
    /\ urgent = {}
    /\ deficit = [p \in Projects |-> 0]
    /\ cursor = 0
    /\ pass = NoPass
    /\ turn = 0
    /\ waited = [p \in Projects |-> 0]
    /\ heaviest = InitialWeight
    /\ changes = 0
    /\ emergencies = 0
    /\ withdrawals = 0

-----------------------------------------------------------------------------
(* scheduler.Select                                                        *)

\* Mutant: the first decision of a turn leaves too much of it.
ValidStrictly == \A p \in pass.listed : deficit[p] < pass.weight[p] - 1

\* validate: a project's deficit must be less than its weight.
Valid == \A p \in pass.listed : deficit[p] < pass.weight[p]

\* The listed projects from n on, cyclically: how far p is from n.
Distance(n, p) == IF p >= n THEN p - n ELSE p + LastProject - n

\* The nearest project of a set from n on.
Nearest(n, ps) == CHOOSE p \in ps : \A q \in ps : Distance(n, p) <= Distance(n, q)

\* bestJob finds one of the standard lane.
Ready == {p \in pass.listed : pass.jobs[p] > 0}

\* The project whose turn it is: the cursor's if it has a candidate, else the
\* next in order.
Selected == Nearest(cursor, Ready)

\* Those that were passed over lose what was left of their turn.
PassedOver == {p \in pass.listed : Distance(cursor, p) < Distance(cursor, Selected)}

\* Mutant: a new turn is not given the project's weight.
LeftOfNothing == deficit[Selected] - 1

\* What is left of the selected project's turn, after this decision.
Left ==
    (IF deficit[Selected] = 0 THEN pass.weight[Selected] ELSE deficit[Selected]) - 1

\* Mutant: the cursor stays with a project that has used up its turn.
NextCursorStays == Selected

NextCursor ==
    IF Left = 0 THEN Nearest(Selected + 1, pass.listed) ELSE Selected

-----------------------------------------------------------------------------
(* schedule                                                                *)

\* Projects with a Job that may be admitted, of either lane.
Eligible == {p \in Projects : eligible[p] > 0} \cup urgent

\* Those of them that a list has no place for, as long as the others stay.
Beyond == {p \in Eligible : Cardinality({q \in Eligible : q < p}) >= MaxProjects}

\* SchedulingCandidates and FairnessState.
BeginPass ==
    LET listed == Eligible \ Beyond IN
    /\ ~pass.open
    /\ listed # {}
    /\ pass' = [open |-> TRUE, decided |-> FALSE, listed |-> listed, weight |-> weight,
                jobs |-> eligible, urgent |-> urgent \cap listed]
    /\ waited' = [p \in Projects |->
                    IF eligible[p] > 0 /\ p \in listed THEN waited[p] ELSE 0]
    /\ UNCHANGED <<weight, widens, eligible, urgent, fairness, turn, bounds>>

\* Select returns an error, and the pass is over.
SelectFails ==
    /\ pass.open /\ ~Valid
    /\ pass' = NoPass
    /\ UNCHANGED <<weight, widens, eligible, urgent, fairness, turn, waited, bounds>>

\* The policies of the project that is selected do not compose, and the pass
\* is over.
ComposeFails ==
    /\ pass.open /\ Valid
    /\ IF pass.urgent # {} THEN pass.urgent \cap widens # {}
                            ELSE Ready # {} /\ Selected \in widens
    /\ pass' = NoPass
    /\ UNCHANGED <<weight, widens, eligible, urgent, fairness, turn, waited, bounds>>

\* An emergency Job of any project comes first, and no fairness is charged.
\* validateSchedulingCommit wants the cursor among the projects of the list.
DecideEmergency ==
    /\ pass.open /\ Valid /\ pass.urgent # {}
    /\ \E p \in pass.urgent \ widens :
         IF cursor \in pass.listed \cup {0} /\ p \in urgent
         THEN /\ urgent' = urgent \ {p}
              /\ pass' = [pass EXCEPT !.urgent = @ \ {p}, !.decided = TRUE]
              /\ turn' = p
         ELSE /\ pass' = NoPass
              /\ UNCHANGED <<urgent, turn>>
    /\ UNCHANGED <<weight, widens, eligible, fairness, waited, bounds>>

\* The decision is committed with the next fairness state; the Job is
\* admitted, or rejected by a quota and eligible again later.  A Job that is
\* not eligible any more makes for a conflict, and for the same selection on
\* each retry.
Decide ==
    /\ pass.open /\ Valid /\ pass.urgent = {} /\ Ready # {} /\ Selected \notin widens
    /\ IF eligible[Selected] > 0
       THEN /\ deficit' = [p \in Projects |->
                 CASE p = Selected     -> Left
                   [] p \in PassedOver -> 0
                   [] OTHER            -> deficit[p]]
            /\ cursor' = NextCursor
            /\ eligible' \in {eligible, [eligible EXCEPT ![Selected] = @ - 1]}
            /\ pass' = [pass EXCEPT !.jobs[Selected] = @ - 1, !.decided = TRUE]
            /\ turn' = Selected
            /\ waited' = [p \in Projects |->
                 IF p # Selected /\ p \in Ready THEN Min({waited[p] + 1, MaxWait}) ELSE 0]
       ELSE /\ pass' = NoPass
            /\ UNCHANGED <<eligible, fairness, turn, waited>>
    /\ UNCHANGED <<weight, widens, urgent, bounds>>

\* Nothing is left to decide, or the limit is reached.
EndPass ==
    /\ pass.open
    /\ pass.decided \/ (pass.urgent = {} /\ Ready = {})
    /\ pass' = NoPass
    /\ UNCHANGED <<weight, widens, eligible, urgent, fairness, turn, waited, bounds>>

-----------------------------------------------------------------------------
(* Users and administrators                                                *)

SubmitJob(p) ==
    /\ eligible[p] < MaxEligible
    /\ eligible' = [eligible EXCEPT ![p] = @ + 1]
    /\ UNCHANGED <<weight, widens, urgent, fairness, pass, turn, waited, bounds>>

SubmitEmergency(p) ==
    /\ p \notin urgent
    /\ emergencies < MaxEmergencies
    /\ urgent' = urgent \cup {p}
    /\ emergencies' = emergencies + 1
    /\ UNCHANGED <<weight, widens, eligible, fairness, pass, turn, waited, heaviest, changes,
                   withdrawals>>

\* A Job is paused or cancelled.
Withdraw(p) ==
    /\ eligible[p] > 0
    /\ withdrawals < MaxWithdrawals
    /\ eligible' = [eligible EXCEPT ![p] = @ - 1]
    /\ withdrawals' = withdrawals + 1
    /\ UNCHANGED <<weight, widens, urgent, fairness, pass, turn, waited, heaviest, changes,
                   emergencies>>

\* CompareAndSetProjectWeight
SetWeight(p) ==
    /\ changes < MaxAdjustments
    /\ \E w \in 1..MaxWeight :
         /\ weight' = [weight EXCEPT ![p] = w]
         /\ heaviest' = [heaviest EXCEPT ![p] = Max({@, w})]
    /\ changes' = changes + 1
    /\ UNCHANGED <<widens, eligible, urgent, fairness, pass, turn, waited, emergencies, withdrawals>>

\* The policy of the installation is narrowed below that of a project, or the
\* project's is narrowed in its turn.
ChangePolicy(p) ==
    /\ changes < MaxAdjustments
    /\ changes' = changes + 1
    /\ widens' = IF p \in widens THEN widens \ {p} ELSE widens \cup {p}
    /\ UNCHANGED <<weight, eligible, urgent, fairness, pass, turn, waited, heaviest, emergencies,
                   withdrawals>>

-----------------------------------------------------------------------------
Leader == BeginPass \/ SelectFails \/ ComposeFails \/ DecideEmergency \/ Decide

Next ==
    \/ Leader \/ EndPass
    \/ \E p \in Projects : SubmitJob(p) \/ SubmitEmergency(p) \/ Withdraw(p) \/ SetWeight(p)
                           \/ ChangePolicy(p)

Spec == Init /\ [][Next]_vars

\* The leader's passes go on for as long as the worker runs.
FairSpec == Spec /\ WF_vars(Leader) /\ WF_vars(EndPass)

-----------------------------------------------------------------------------
(* Properties                                                              *)

\* Types of the variables.
TypeOK ==
    /\ weight \in [Projects -> 1..MaxWeight]
    /\ widens \subseteq Projects
    /\ eligible \in [Projects -> 0..MaxEligible]
    /\ urgent \subseteq Projects
    /\ deficit \in [Projects -> 0..MaxWeight]
    /\ cursor \in 0..LastProject
    /\ pass \in Passes
    /\ turn \in 0..LastProject
    /\ waited \in [Projects -> 0..MaxWait]
    /\ heaviest \in [Projects -> 1..MaxWeight]
    /\ changes \in 0..MaxAdjustments
    /\ emergencies \in 0..MaxEmergencies
    /\ withdrawals \in 0..MaxWithdrawals

\* scheduler.go:13: "every continuously eligible project is selected at least
\* once per sum-of-active-weights decisions": a listed project never waits
\* for more decisions than the others have had weight, while projects join
\* and leave the list, the cursor names one that is not on it, and weights
\* change under the pass.
WaitIsBounded ==
    \A p \in Projects :
        waited[p] <= MapThenSumSet(LAMBDA q : heaviest[q], Projects \ {p})

\* scheduler.go:111: "deficit must be less than its weight": the state that
\* is stored is one that Select accepts.
StoredStateIsValid == \A p \in Projects : deficit[p] < weight[p]

\* A pass that selects such a project ends without a decision.
Obstructed == \E q \in widens : q \in Eligible

\* ADR 0012:26: eligible projects "receive bounded opportunities without
\* starvation": a project with eligible Jobs that the list has a place for gets
\* its turn again and again, unless an emergency Job waits, the stored state
\* is refused or a project with a Job has policies that do not compose, and
\* once no more selected Jobs are withdrawn under the leader's hands (each of
\* them ends the pass for every project).
NoStarvation ==
    \A p \in Projects :
        []<>(eligible[p] = 0 \/ p \in Beyond \/ turn = p
               \/ urgent # {} \/ ~StoredStateIsValid \/ Obstructed)
=============================================================================

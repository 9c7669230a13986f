------------------------ MODULE MutationFenceProofs -------------------------
(***************************************************************************)
(* Proofs about the fence around Kubernetes commands, for any number of     *)
(* workers, commands, attempts and changes of leader: the types, that a     *)
(* doubt is remembered, and that the recorded success of a create is real.  *)
(***************************************************************************)
EXTENDS MutationFence, TLAPS

-----------------------------------------------------------------------------
(* The inductive invariant                                                 *)

\* Passes that have acquired the lease, that are with a command, and that have
\* an attempt of their own under way.
Led == {"leading", "visiting", "doubtful", "begun", "fenced", "sent", "closing"}
Keyed == {"visiting", "doubtful", "begun", "fenced", "sent", "closing"}
Active == {"begun", "fenced", "sent", "closing"}

\* A generation belongs to one pass, and the current one to the holder.
TermInv ==
    /\ \A w \in Worker : pass[w].at \in Led =>
         /\ pass[w].generation <= lease.generation
         /\ pass[w].generation = lease.generation => lease.holder = w
    /\ \A v, w \in Worker :
         v # w /\ pass[v].at \in Led /\ pass[w].at \in Led =>
           pass[v].generation # pass[w].generation

\* A pass is with one command, and its outcome is known when it is about to be
\* recorded.
PassInv ==
    \A w \in Worker :
      /\ pass[w].at \in Keyed => \E k \in Key : pass[w].key = {k}
      /\ pass[w].at = "closing" => pass[w].outcome # "none"

\* What was observed of a create, or answered with success, is there.
EffectInv ==
    \A w \in Worker :
      /\ seen[w].effects \subseteq effect \cup Reversible
      /\ pass[w].at = "closing" /\ pass[w].outcome = "succeeded" => pass[w].key \subseteq effect

\* Until another leader comes, the attempt that was found in doubt is the one
\* that the observation is recorded for.
DoubtfulInv ==
    \A w \in Worker : \A k \in pass[w].key :
      pass[w].at = "doubtful" /\ pass[w].generation = lease.generation =>
        ledger[k].attempt = pass[w].attempt

\* The record that an attempt may complete is the attempt's own.
OwnInv ==
    \A w \in Worker : \A k \in pass[w].key :
      /\ pass[w].at \in Active
      /\ CanComplete(ledger[k], pass[w].generation)
      => ledger[k].attempt = pass[w].attempt

IInv ==
    /\ TypeOK /\ TermInv /\ PassInv /\ EffectInv
    /\ DoubtfulInv /\ OwnInv /\ DoubtIsRemembered /\ SucceededIsReal

-----------------------------------------------------------------------------
(* How a pass and a record change                                          *)

LEMMA PassChanges ==
    ASSUME TypeOK, NEW w \in Worker, NEW q \in Passes, pass' = [pass EXCEPT ![w] = q]
    PROVE  /\ pass' \in [Worker -> Passes]
           /\ pass'[w] = q
           /\ \A v \in Worker : v # w => pass'[v] = pass[v]
  BY DEF TypeOK

LEMMA LedgerChanges ==
    ASSUME TypeOK, NEW k \in Key, NEW m \in Records, ledger' = [ledger EXCEPT ![k] = m]
    PROVE  /\ ledger' \in [Key -> Records]
           /\ ledger'[k] = m
           /\ \A j \in Key : j # k => ledger'[j] = ledger[j]
  BY DEF TypeOK

LEMMA ObservedChanges ==
    ASSUME NEW m \in Records, NEW g \in Nat, NEW present \in BOOLEAN
    PROVE  /\ Observed(m, g, present) \in Records
           /\ Observed(m, g, present).attempt = m.attempt
           /\ Observed(m, g, present).state = IF present THEN "Succeeded" ELSE "Ready"
<1>1. CASE present
  BY <1>1 DEF Observed, Records, States
<1>2. CASE ~present
  BY <1>2 DEF Observed, Records, States
<1>3. QED
  BY <1>1, <1>2

LEMMA EndsLeaves ==
    ASSUME TypeOK, NEW w \in Worker, Ends(w)
    PROVE  /\ Idle \in Passes /\ Idle.at = "idle"
           /\ NoObservation \in Observations /\ NoObservation.effects = {}
           /\ pass' = [pass EXCEPT ![w] = Idle]
           /\ seen' = [seen EXCEPT ![w] = NoObservation]
  BY DEF Ends, Idle, Passes, NoObservation, Observations

\* Where a pass is, and what it has observed, when a command is left.
LeavesTo(w, q, o) ==
    /\ pass' = [pass EXCEPT ![w] = q]
    /\ seen' = [seen EXCEPT ![w] = o]
    /\ q.at \in {"idle", "leading"}
    /\ q.at = "leading" => q.generation = pass[w].generation
    /\ o.effects \subseteq effect \cup Reversible

LEMMA GoesOnLeaves ==
    ASSUME TypeOK, EffectInv, NEW w \in Worker, GoesOn(w)
    PROVE  \E q \in Passes, o \in Observations : LeavesTo(w, q, o)
<1>1. CASE Ends(w)
  BY <1>1, EndsLeaves DEF LeavesTo
<1>2. CASE pass' = [pass EXCEPT ![w] = NextKey(w)] /\ UNCHANGED seen
  <2>1. /\ NextKey(w) \in Passes /\ NextKey(w).at = "leading"
        /\ NextKey(w).generation = pass[w].generation
    BY DEF TypeOK, Passes, NextKey
  <2>2. /\ seen[w] \in Observations /\ seen' = [seen EXCEPT ![w] = seen[w]]
        /\ seen[w].effects \subseteq effect \cup Reversible
    BY <1>2 DEF TypeOK, EffectInv
  <2>3. QED
    BY <1>2, <2>1, <2>2 DEF LeavesTo
<1>3. QED
  BY <1>1, <1>2 DEF GoesOn

-----------------------------------------------------------------------------
(* The start of a pass, and its end                                        *)

LEMMA LeaveKeeps ==
    ASSUME IInv, NEW w \in Worker, NEW q \in Passes, NEW o \in Observations,
           pass' = [pass EXCEPT ![w] = q], seen' = [seen EXCEPT ![w] = o],
           q.at \in {"idle", "listing", "observed", "leading"},
           q.at = "leading" => pass[w].at \in Led /\ q.generation = pass[w].generation,
           o.effects \subseteq effect \cup Reversible,
           UNCHANGED <<lease, ledger, effect, wire, aside, attempts, unsettled>>
    PROVE  IInv'
<1>p. /\ pass' \in [Worker -> Passes] /\ pass'[w] = q
      /\ \A v \in Worker : v # w => pass'[v] = pass[v]
  BY PassChanges DEF IInv
<1>s. /\ seen' \in [Worker -> Observations] /\ seen'[w] = o
      /\ \A v \in Worker : v # w => seen'[v] = seen[v]
  BY DEF IInv, TypeOK
<1>3. TypeOK'
  BY <1>p, <1>s DEF IInv, TypeOK
<1>4. TermInv'
  BY <1>p, <1>s DEF IInv, TermInv, Led
<1>5. PassInv'
  BY <1>p, <1>s DEF IInv, PassInv, Keyed, Active
<1>6. EffectInv'
  BY <1>p, <1>s DEF IInv, EffectInv
<1>7. DoubtfulInv'
  BY <1>p, <1>s DEF IInv, DoubtfulInv
<1>8. OwnInv'
  BY <1>p, <1>s DEF IInv, OwnInv, Active
<1>9. DoubtIsRemembered'
  BY <1>p, <1>s DEF IInv, DoubtIsRemembered
<1>10. SucceededIsReal'
  BY <1>p, <1>s DEF IInv, SucceededIsReal
<1>11. QED
  BY <1>3, <1>4, <1>5, <1>6, <1>7, <1>8, <1>9, <1>10 DEF IInv

LEMMA ListKeeps ==
    ASSUME IInv, NEW w \in Worker, List(w)
    PROVE  IInv'
<1>1. PICK q \in Passes : pass' = [pass EXCEPT ![w] = q] /\ q.at = "listing"
<2>1. [pass[w] EXCEPT !.at = "listing"] \in Passes
  BY DEF IInv, TypeOK, Passes
<2>2. QED
  BY <2>1 DEF IInv, TypeOK, Passes, List
<1>2. PICK o \in Observations :
        seen' = [seen EXCEPT ![w] = o] /\ o.effects \subseteq effect \cup Reversible
<2> DEFINE o == seen[w]
<2>1. o \in Observations /\ o.effects \subseteq effect \cup Reversible
  BY DEF IInv, TypeOK, EffectInv
<2>2. seen' = [seen EXCEPT ![w] = o]
  BY DEF IInv, TypeOK, List
<2>3. QED
  BY <2>1, <2>2
<1>3. QED
  BY <1>1, <1>2, LeaveKeeps DEF List, history

LEMMA ObserveKeeps ==
    ASSUME IInv, NEW w \in Worker, Observe(w)
    PROVE  IInv'
<1>1. PICK q \in Passes : pass' = [pass EXCEPT ![w] = q] /\ q.at = "observed"
<2>1. [pass[w] EXCEPT !.at = "observed"] \in Passes
  BY DEF IInv, TypeOK, Passes
<2>2. QED
  BY <2>1 DEF IInv, TypeOK, Passes, Observe
<1>2. PICK o \in Observations :
        seen' = [seen EXCEPT ![w] = o] /\ o.effects \subseteq effect \cup Reversible
<2>1. PICK since \in Stamped, shown \in Shown :
        seen' = [seen EXCEPT ![w].complete = TRUE, ![w].since = since, ![w].effects = shown]
  BY DEF Observe
<2>2. since \in SUBSET Nat /\ shown \in SUBSET Key /\ shown \subseteq effect \cup Reversible
  BY FenceAssumption DEF IInv, TypeOK, Stamped, Shown
<2> DEFINE o == [seen[w] EXCEPT !.complete = TRUE, !.since = since, !.effects = shown]
<2>3. o \in Observations /\ o.effects = shown
  BY <2>2 DEF IInv, TypeOK, Observations
<2>4. seen' = [seen EXCEPT ![w] = o]
  BY <2>1 DEF IInv, TypeOK, Observations
<2>5. QED
  BY <2>2, <2>3, <2>4
<1>3. QED
  BY <1>1, <1>2, LeaveKeeps DEF Observe, history

LEMMA ObserveFailsKeeps ==
    ASSUME IInv, NEW w \in Worker, ObserveFails(w)
    PROVE  IInv'
<1>1. NoObservation \in Observations /\ NoObservation.effects = {}
  BY DEF NoObservation, Observations
<1>2. PICK q \in Passes : pass' = [pass EXCEPT ![w] = q] /\ q.at = "observed"
<2>1. [pass[w] EXCEPT !.at = "observed"] \in Passes
  BY DEF IInv, TypeOK, Passes
<2>2. QED
  BY <2>1 DEF IInv, TypeOK, Passes, ObserveFails
<1>3. QED
  BY <1>1, <1>2, LeaveKeeps DEF ObserveFails, history

LEMMA FollowKeeps ==
    ASSUME IInv, NEW w \in Worker, Follow(w)
    PROVE  IInv'
  BY EndsLeaves, LeaveKeeps DEF IInv, Follow, history

LEMMA EndPassKeeps ==
    ASSUME IInv, NEW w \in Worker, EndPass(w)
    PROVE  IInv'
  BY EndsLeaves, LeaveKeeps DEF IInv, EndPass, history

LEMMA NothingToDoKeeps ==
    ASSUME IInv, NEW w \in Worker, NothingToDo(w)
    PROVE  IInv'
<1>1. /\ NextKey(w) \in Passes /\ NextKey(w).at = "leading"
      /\ NextKey(w).generation = pass[w].generation
  BY DEF IInv, TypeOK, Passes, NextKey
<1>2. /\ seen[w] \in Observations /\ seen[w].effects \subseteq effect \cup Reversible
      /\ seen' = [seen EXCEPT ![w] = seen[w]]
  BY DEF IInv, TypeOK, EffectInv, NothingToDo
<1>3. QED
  BY <1>1, <1>2, LeaveKeeps DEF NothingToDo, Led, history

LEMMA RefusedKeeps ==
    ASSUME IInv, NEW w \in Worker, Refused(w)
    PROVE  IInv'
<1>1. PICK q \in Passes, o \in Observations : LeavesTo(w, q, o)
  BY GoesOnLeaves DEF IInv, Refused
<1>2. QED
  BY <1>1, LeaveKeeps DEF LeavesTo, Refused, Led, history

LEMMA LeadKeeps ==
    ASSUME IInv, NEW w \in Worker, Lead(w)
    PROVE  IInv'
<1>q. PICK q \in Passes :
        /\ pass' = [pass EXCEPT ![w] = q]
        /\ q.at = "leading" /\ q.generation = lease.generation
<2> DEFINE q == [pass[w] EXCEPT !.at = "leading", !.generation = lease.generation, !.todo = Key]
<2>1. q \in Passes /\ q.at = "leading" /\ q.generation = lease.generation
  BY DEF IInv, TypeOK, Passes
<2>2. pass' = [pass EXCEPT ![w] = q]
  BY DEF IInv, TypeOK, Passes, Lead
<2>3. QED
  BY <2>1, <2>2
<1>p. /\ pass' \in [Worker -> Passes] /\ pass'[w] = q
      /\ \A v \in Worker : v # w => pass'[v] = pass[v]
  BY <1>q, PassChanges DEF IInv
<1>u. UNCHANGED <<lease, ledger, effect, wire, seen, aside, attempts, unsettled>>
  BY DEF Lead, history
<1>4. TypeOK'
  BY <1>q, <1>p, <1>u DEF IInv, TypeOK
<1>5. TermInv'
  BY <1>q, <1>p, <1>u DEF IInv, TermInv, Led, TypeOK, Lead, Leads
<1>6. PassInv'
  BY <1>q, <1>p, <1>u DEF IInv, PassInv, Keyed, Active
<1>7. EffectInv'
  BY <1>q, <1>p, <1>u DEF IInv, EffectInv
<1>8. DoubtfulInv'
  BY <1>q, <1>p, <1>u DEF IInv, DoubtfulInv
<1>9. OwnInv'
  BY <1>q, <1>p, <1>u DEF IInv, OwnInv, Active
<1>10. DoubtIsRemembered'
  BY <1>q, <1>p, <1>u DEF IInv, DoubtIsRemembered
<1>11. SucceededIsReal'
  BY <1>q, <1>p, <1>u DEF IInv, SucceededIsReal
<1>12. QED
  BY <1>4, <1>5, <1>6, <1>7, <1>8, <1>9, <1>10, <1>11 DEF IInv

-----------------------------------------------------------------------------
(* The visit of a command                                                  *)

LEMMA VisitKeeps ==
    ASSUME IInv, NEW w \in Worker, Visit(w)
    PROVE  IInv'
<1>k. PICK k \in Key :
        pass' = [pass EXCEPT ![w].todo = @ \ {k},
                   ![w].at = IF k \in aside THEN @ ELSE "visiting",
                   ![w].key = IF k \in aside THEN @ ELSE {k}]
  BY DEF IInv, TypeOK, Passes, Visit
<1>q. PICK q \in Passes :
        /\ pass' = [pass EXCEPT ![w] = q]
        /\ q.at \in {"leading", "visiting"} /\ q.generation = pass[w].generation
        /\ q.at = "visiting" => q.key = {k}
<2> DEFINE q == [pass[w] EXCEPT !.todo = @ \ {k},
                   !.at = IF k \in aside THEN @ ELSE "visiting",
                   !.key = IF k \in aside THEN @ ELSE {k}]
<2>1. q \in Passes
  BY <1>k DEF IInv, TypeOK, Passes
<2>2. /\ q.at \in {"leading", "visiting"} /\ q.generation = pass[w].generation
      /\ q.at = "visiting" => q.key = {k}
  BY <1>k DEF IInv, TypeOK, Passes, Visit
<2>3. pass' = [pass EXCEPT ![w] = q]
  BY <1>k DEF IInv, TypeOK, Passes
<2>4. QED
  BY <2>1, <2>2, <2>3
<1>p. /\ pass' \in [Worker -> Passes] /\ pass'[w] = q
      /\ \A v \in Worker : v # w => pass'[v] = pass[v]
  BY <1>q, PassChanges DEF IInv
<1>u. UNCHANGED <<lease, ledger, effect, wire, seen, aside, attempts, unsettled>>
  BY DEF Visit, history
<1>5. TypeOK'
  BY <1>q, <1>p, <1>u DEF IInv, TypeOK
<1>6. TermInv'
  BY <1>q, <1>p, <1>u DEF IInv, TermInv, Led, Visit
<1>7. PassInv'
  BY <1>q, <1>p, <1>u DEF IInv, PassInv, Keyed, Active
<1>8. EffectInv'
  BY <1>q, <1>p, <1>u DEF IInv, EffectInv
<1>9. DoubtfulInv'
  BY <1>q, <1>p, <1>u DEF IInv, DoubtfulInv
<1>10. OwnInv'
  BY <1>q, <1>p, <1>u DEF IInv, OwnInv, Active
<1>11. DoubtIsRemembered'
  BY <1>q, <1>p, <1>u DEF IInv, DoubtIsRemembered
<1>12. SucceededIsReal'
  BY <1>q, <1>p, <1>u DEF IInv, SucceededIsReal
<1>13. QED
  BY <1>5, <1>6, <1>7, <1>8, <1>9, <1>10, <1>11, <1>12 DEF IInv

LEMMA BeginKeeps ==
    ASSUME IInv, NEW w \in Worker, Begin(w)
    PROVE  IInv'
<1>q. PICK q \in Passes :
        /\ pass' = [pass EXCEPT ![w] = q]
        /\ q.at = "begun" /\ q.attempt = attempts + 1
        /\ q.generation = pass[w].generation /\ q.key = pass[w].key
<2> DEFINE q == [pass[w] EXCEPT !.at = "begun", !.attempt = attempts + 1]
<2>1. pass[w] \in Passes /\ attempts + 1 \in Nat
  BY DEF IInv, TypeOK
<2>2. q \in Passes
  BY <2>1 DEF Passes
<2>3. /\ q.at = "begun" /\ q.attempt = attempts + 1
      /\ q.generation = pass[w].generation /\ q.key = pass[w].key
  BY DEF IInv, TypeOK, Passes
<2>4. pass' = [pass EXCEPT ![w] = q]
  BY DEF IInv, TypeOK, Passes, Begin
<2>5. QED
  BY <2>2, <2>3, <2>4
<1>p. /\ pass' \in [Worker -> Passes] /\ pass'[w] = q
      /\ \A v \in Worker : v # w => pass'[v] = pass[v]
  BY <1>q, PassChanges DEF IInv
<1>k. PICK k \in Key :
        /\ pass[w].key = {k} /\ CanBegin(ledger[k], pass[w].generation)
        /\ ledger' = [ledger EXCEPT ![k] = Begun(@, pass[w].generation, attempts + 1)]
  BY DEF IInv, PassInv, Keyed, Begin
<1>m. PICK m \in Records :
        /\ ledger' = [ledger EXCEPT ![k] = m] /\ m.state = "InFlight"
        /\ m.generation = pass[w].generation /\ m.attempt = attempts + 1
<2>1. Begun(ledger[k], pass[w].generation, attempts + 1) \in Records
  BY DEF IInv, TypeOK, Passes, Records, States, Begun
<2>2. QED
  BY <1>k, <2>1 DEF Begun
<1>l. /\ ledger' \in [Key -> Records] /\ ledger'[k] = m
      /\ \A j \in Key : j # k => ledger'[j] = ledger[j]
  BY <1>m, LedgerChanges DEF IInv
<1>o. pass[w].generation = lease.generation /\ lease.holder = w
  BY DEF Begin, Authorized, Leads
<1>u. UNCHANGED <<lease, effect, wire, aside>>
  BY DEF Begin
<1>s. /\ seen' \in [Worker -> Observations]
      /\ \A v \in Worker : seen'[v].effects = seen[v].effects
<2>1. PICK ahead \in SUBSET Worker :
        seen' = [v \in Worker |->
                   IF v \in ahead THEN [seen[v] EXCEPT !.since = @ \cup {attempts + 1}]
                   ELSE seen[v]]
  BY DEF Begin, SeenAfter
<2>2. ASSUME NEW o \in Observations
      PROVE  /\ [o EXCEPT !.since = @ \cup {attempts + 1}] \in Observations
             /\ [o EXCEPT !.since = @ \cup {attempts + 1}].effects = o.effects
  BY DEF IInv, TypeOK, Observations
<2>3. QED
  BY <2>1, <2>2 DEF IInv, TypeOK
<1>r. /\ unsettled' = unsettled \cup {[key |-> k, attempt |-> attempts + 1]}
      /\ unsettled' \subseteq Requests /\ attempts' = attempts + 1 /\ attempts' \in Nat
  BY <1>k DEF IInv, TypeOK, Requests, Begin
<1>10. TypeOK'
  BY <1>p, <1>l, <1>u, <1>s, <1>r DEF IInv, TypeOK
<1>11. TermInv'
  BY <1>q, <1>p, <1>k, <1>m, <1>l, <1>u DEF IInv, TermInv, Led, Begin
<1>12. PassInv'
  BY <1>q, <1>p, <1>k, <1>m, <1>l, <1>u DEF IInv, PassInv, Keyed, Active, TypeOK
<1>13. EffectInv'
  BY <1>q, <1>p, <1>k, <1>m, <1>l, <1>u, <1>s DEF IInv, EffectInv
<1>14. DoubtfulInv'
  BY <1>q, <1>p, <1>k, <1>m, <1>l, <1>u, <1>o DEF IInv, DoubtfulInv, TypeOK, TermInv, Led,
     Passes
<1>15. OwnInv'
  BY <1>q, <1>p, <1>k, <1>m, <1>l, <1>u, <1>o DEF IInv, OwnInv, Active, TypeOK, TermInv,
     Led, Passes, CanComplete
<1>16. DoubtIsRemembered'
  BY <1>q, <1>p, <1>k, <1>m, <1>l, <1>r DEF IInv, DoubtIsRemembered, TypeOK,
     Requests, CanBegin
<1>17. SucceededIsReal'
  BY <1>q, <1>p, <1>k, <1>m, <1>l, <1>u DEF IInv, SucceededIsReal, TypeOK
<1>18. QED
  BY <1>10, <1>11, <1>12, <1>13, <1>14, <1>15, <1>16, <1>17 DEF IInv

LEMMA FindDoubtKeeps ==
    ASSUME IInv, NEW w \in Worker, FindDoubt(w)
    PROVE  IInv'
<1>k. PICK k \in Key :
        /\ pass[w].key = {k} /\ Pending(ledger[k])
        /\ ledger' = [ledger EXCEPT ![k].state = "ObservationRequired"]
        /\ IF ObservedSince(w, ledger[k])
           THEN /\ pass' = [pass EXCEPT ![w].at = "doubtful", ![w].attempt = ledger[k].attempt]
                /\ UNCHANGED seen
           ELSE GoesOn(w)
  BY DEF IInv, PassInv, Keyed, FindDoubt
<1>m. PICK m \in Records :
        /\ ledger' = [ledger EXCEPT ![k] = m] /\ m.state = "ObservationRequired"
        /\ m.attempt = ledger[k].attempt
<2> DEFINE m == [ledger[k] EXCEPT !.state = "ObservationRequired"]
<2>1. m \in Records /\ m.state = "ObservationRequired" /\ m.attempt = ledger[k].attempt
  BY DEF IInv, TypeOK, Records, States
<2>2. QED
  BY <1>k, <2>1 DEF IInv, TypeOK
<1>l. /\ ledger' \in [Key -> Records] /\ ledger'[k] = m
      /\ \A j \in Key : j # k => ledger'[j] = ledger[j]
  BY <1>m, LedgerChanges DEF IInv
<1>q. PICK q \in Passes, o \in Observations :
        /\ pass' = [pass EXCEPT ![w] = q]
        /\ q.at \in {"idle", "leading", "doubtful"}
        /\ q.at # "idle" => q.generation = pass[w].generation
        /\ q.at = "doubtful" => q.key = {k} /\ q.attempt = ledger[k].attempt
        /\ seen' = [seen EXCEPT ![w] = o] /\ o.effects \subseteq effect \cup Reversible
<2>1. CASE ObservedSince(w, ledger[k])
  <3> DEFINE q == [pass[w] EXCEPT !.at = "doubtful", !.attempt = ledger[k].attempt]
  <3>1. pass[w] \in Passes /\ ledger[k].attempt \in Nat
    BY DEF IInv, TypeOK, Records
  <3>2. /\ q \in Passes /\ q.at = "doubtful" /\ q.key = {k}
        /\ q.generation = pass[w].generation
    BY <1>k, <3>1 DEF Passes
  <3>3. pass' = [pass EXCEPT ![w] = q]
    BY <1>k, <2>1 DEF IInv, TypeOK
  <3>4. q.attempt = ledger[k].attempt
    BY DEF IInv, TypeOK, Passes
  <3>5. /\ seen[w] \in Observations /\ seen' = [seen EXCEPT ![w] = seen[w]]
        /\ seen[w].effects \subseteq effect \cup Reversible
    BY <1>k, <2>1 DEF IInv, TypeOK, EffectInv
  <3>6. QED
    BY <3>2, <3>4, <3>5, <3>3
<2>2. CASE ~ObservedSince(w, ledger[k])
  BY <1>k, <2>2, GoesOnLeaves DEF IInv, LeavesTo
<2>3. QED
  BY <2>1, <2>2
<1>p. /\ pass' \in [Worker -> Passes] /\ pass'[w] = q
      /\ \A v \in Worker : v # w => pass'[v] = pass[v]
  BY <1>q, PassChanges DEF IInv
<1>s. /\ seen' \in [Worker -> Observations] /\ seen'[w] = o
      /\ \A v \in Worker : v # w => seen'[v] = seen[v]
  BY <1>q DEF IInv, TypeOK
<1>u. UNCHANGED <<lease, effect, wire, aside, attempts, unsettled>>
  BY DEF FindDoubt, history
<1>8. TypeOK'
  BY <1>p, <1>l, <1>s, <1>u DEF IInv, TypeOK
<1>9. TermInv'
  BY <1>q, <1>p, <1>k, <1>m, <1>l, <1>u DEF IInv, TermInv, Led, FindDoubt
<1>10. PassInv'
  BY <1>q, <1>p, <1>k, <1>m, <1>l, <1>u DEF IInv, PassInv, Keyed, Active
<1>11. EffectInv'
  BY <1>q, <1>p, <1>k, <1>m, <1>l, <1>u, <1>s DEF IInv, EffectInv
<1>12. DoubtfulInv'
  BY <1>q, <1>p, <1>k, <1>m, <1>l, <1>u DEF IInv, DoubtfulInv, TypeOK, Passes
<1>13. OwnInv'
  BY <1>q, <1>p, <1>k, <1>m, <1>l, <1>u DEF IInv, OwnInv, Active, TypeOK, Passes,
     CanComplete
<1>14. DoubtIsRemembered'
  BY <1>m, <1>l, <1>u DEF IInv, DoubtIsRemembered, TypeOK, Requests
<1>15. SucceededIsReal'
  BY <1>q, <1>p, <1>k, <1>m, <1>l, <1>u DEF IInv, SucceededIsReal, TypeOK
<1>16. QED
  BY <1>8, <1>9, <1>10, <1>11, <1>12, <1>13, <1>14, <1>15 DEF IInv

LEMMA ObserveDoubtKeeps ==
    ASSUME IInv, NEW w \in Worker, ObserveDoubt(w)
    PROVE  IInv'
<1>1. PICK k \in pass[w].key :
        /\ CanObserve(ledger[k], pass[w].generation)
        /\ ledger' = [ledger EXCEPT ![k] =
               Observed(@, pass[w].generation, k \in seen[w].effects)]
        /\ pass' = [pass EXCEPT ![w] = IF k \in seen[w].effects THEN NextKey(w)
                                       ELSE [@ EXCEPT !.at = "visiting", !.attempt = 0]]
  BY Zenon DEF ObserveDoubt
<1>k. k \in Key /\ pass[w].key = {k}
  BY DEF IInv, PassInv, Keyed, ObserveDoubt
<1>m. PICK m \in Records :
        /\ ledger' = [ledger EXCEPT ![k] = m] /\ m.attempt = ledger[k].attempt
        /\ k \in seen[w].effects => m.state = "Succeeded"
        /\ k \notin seen[w].effects => m.state = "Ready"
<2> DEFINE m == Observed(ledger[k], pass[w].generation, k \in seen[w].effects)
<2>1. ledger[k] \in Records /\ pass[w].generation \in Nat
  BY <1>k DEF IInv, TypeOK, Passes
<2>2. /\ m \in Records /\ m.attempt = ledger[k].attempt
      /\ m.state = IF k \in seen[w].effects THEN "Succeeded" ELSE "Ready"
  <3> HIDE DEF m
  <3>1. (k \in seen[w].effects) \in BOOLEAN
    OBVIOUS
  <3>2. QED
    BY <2>1, <3>1, ObservedChanges, Zenon DEF m
<2>3. ledger' = [ledger EXCEPT ![k] = m]
  BY <1>1
<2>4. QED
  BY <2>2, <2>3
<1>l. /\ ledger' \in [Key -> Records] /\ ledger'[k] = m
      /\ \A j \in Key : j # k => ledger'[j] = ledger[j]
  BY <1>k, <1>m, LedgerChanges DEF IInv
<1>q. PICK q \in Passes :
        /\ pass' = [pass EXCEPT ![w] = q]
        /\ q.at \in {"leading", "visiting"} /\ q.generation = pass[w].generation
        /\ q.at = "visiting" => q.key = {k}
<2>1. CASE k \in seen[w].effects
  <3>1. /\ NextKey(w) \in Passes /\ NextKey(w).at = "leading"
        /\ NextKey(w).generation = pass[w].generation
    BY DEF IInv, TypeOK, Passes, NextKey
  <3>2. QED
    BY <1>1, <2>1, <3>1
<2>2. CASE k \notin seen[w].effects
  <3> DEFINE q == [pass[w] EXCEPT !.at = "visiting", !.attempt = 0]
  <3>1. /\ q \in Passes /\ q.at = "visiting" /\ q.generation = pass[w].generation
        /\ q.key = {k} /\ pass' = [pass EXCEPT ![w] = q]
    BY <1>1, <1>k, <2>2 DEF IInv, TypeOK, Passes
  <3>2. QED
    BY <3>1
<2>3. QED
  BY <2>1, <2>2
<1>p. /\ pass' \in [Worker -> Passes] /\ pass'[w] = q
      /\ \A v \in Worker : v # w => pass'[v] = pass[v]
  BY <1>q, PassChanges DEF IInv
<1>o. /\ ledger[k].attempt = pass[w].attempt
      /\ RequestsOf(w) = {[key |-> k, attempt |-> ledger[k].attempt]}
      /\ unsettled' = unsettled \ RequestsOf(w)
  BY <1>k DEF IInv, DoubtfulInv, RequestsOf, ObserveDoubt, Authorized
<1>u. UNCHANGED <<lease, effect, wire, seen, aside, attempts>>
  BY DEF ObserveDoubt
<1>9. TypeOK'
  BY <1>q, <1>p, <1>k, <1>m, <1>l, <1>u, <1>o DEF IInv, TypeOK
<1>10. TermInv'
  BY <1>q, <1>p, <1>k, <1>m, <1>l, <1>u DEF IInv, TermInv, Led, ObserveDoubt
<1>11. PassInv'
  BY <1>q, <1>p, <1>k, <1>m, <1>l, <1>u DEF IInv, PassInv, Keyed, Active
<1>12. EffectInv'
  BY <1>q, <1>p, <1>k, <1>m, <1>l, <1>u DEF IInv, EffectInv
<1>13. DoubtfulInv'
  BY <1>q, <1>p, <1>k, <1>m, <1>l, <1>u DEF IInv, DoubtfulInv, TypeOK, Passes
<1>14. OwnInv'
  BY <1>q, <1>p, <1>k, <1>m, <1>l, <1>u DEF IInv, OwnInv, Active, TypeOK, Passes,
     CanComplete
<1>15. DoubtIsRemembered'
  <2> SUFFICES ASSUME NEW r \in unsettled'
               PROVE  ledger'[r.key].attempt = r.attempt /\ ledger'[r.key].state # "Ready"
    BY DEF DoubtIsRemembered
  <2>1. r \in unsettled /\ r \in Requests /\ r \notin RequestsOf(w)
    BY <1>o DEF IInv, TypeOK
  <2>2. ledger[r.key].attempt = r.attempt /\ ledger[r.key].state # "Ready"
    BY <2>1 DEF IInv, DoubtIsRemembered
  <2>3. r.key # k
    BY <2>1, <2>2, <1>o DEF Requests
  <2>4. QED
    BY <2>1, <2>2, <2>3, <1>l DEF Requests
<1>16. SucceededIsReal'
  BY <1>q, <1>p, <1>k, <1>m, <1>l, <1>u DEF IInv, SucceededIsReal, TypeOK,
     EffectInv
<1>17. QED
  BY <1>9, <1>10, <1>11, <1>12, <1>13, <1>14, <1>15, <1>16 DEF IInv

LEMMA RevalidateKeeps ==
    ASSUME IInv, NEW w \in Worker, Revalidate(w)
    PROVE  IInv'
<1>q. PICK q \in Passes :
        /\ pass' = [pass EXCEPT ![w] = q]
        /\ q.at \in {"fenced", "closing"} /\ q.generation = pass[w].generation
        /\ q.key = pass[w].key /\ q.attempt = pass[w].attempt
        /\ q.at = "closing" => q.outcome = "failed"
<2> DEFINE fenced == [pass[w] EXCEPT !.at = "fenced"]
           failed == [pass[w] EXCEPT !.at = "closing", !.outcome = "failed"]
<2>1. /\ fenced \in Passes /\ fenced.at = "fenced" /\ fenced.generation = pass[w].generation
      /\ fenced.key = pass[w].key /\ fenced.attempt = pass[w].attempt
  BY DEF IInv, TypeOK, Passes
<2>2. /\ failed \in Passes /\ failed.at = "closing" /\ failed.generation = pass[w].generation
      /\ failed.key = pass[w].key /\ failed.attempt = pass[w].attempt
      /\ failed.outcome = "failed"
  BY DEF IInv, TypeOK, Passes
<2>3. pass' = [pass EXCEPT ![w] = fenced] \/ pass' = [pass EXCEPT ![w] = failed]
  BY DEF IInv, TypeOK, Passes, Revalidate
<2>4. QED
  BY <2>1, <2>2, <2>3
<1>p. /\ pass' \in [Worker -> Passes] /\ pass'[w] = q
      /\ \A v \in Worker : v # w => pass'[v] = pass[v]
  BY <1>q, PassChanges DEF IInv
<1>u. UNCHANGED <<lease, ledger, effect, wire, seen, aside, attempts, unsettled>>
  BY DEF Revalidate, history
<1>4. TypeOK'
  BY <1>q, <1>p, <1>u DEF IInv, TypeOK
<1>5. TermInv'
  BY <1>q, <1>p, <1>u DEF IInv, TermInv, Led, Revalidate
<1>6. PassInv'
  BY <1>q, <1>p, <1>u DEF IInv, PassInv, Keyed, Active, Revalidate
<1>7. EffectInv'
  BY <1>q, <1>p, <1>u DEF IInv, EffectInv
<1>8. DoubtfulInv'
  BY <1>q, <1>p, <1>u DEF IInv, DoubtfulInv
<1>9. OwnInv'
  BY <1>q, <1>p, <1>u DEF IInv, OwnInv, Active, Revalidate
<1>10. DoubtIsRemembered'
  BY <1>q, <1>p, <1>u DEF IInv, DoubtIsRemembered, Revalidate
<1>11. SucceededIsReal'
  BY <1>q, <1>p, <1>u DEF IInv, SucceededIsReal
<1>12. QED
  BY <1>4, <1>5, <1>6, <1>7, <1>8, <1>9, <1>10, <1>11 DEF IInv

LEMMA SendKeeps ==
    ASSUME IInv, NEW w \in Worker, Send(w)
    PROVE  IInv'
<1>q. PICK q \in Passes :
        /\ pass' = [pass EXCEPT ![w] = q]
        /\ q.at = "sent" /\ q.generation = pass[w].generation
        /\ q.key = pass[w].key /\ q.attempt = pass[w].attempt
<2> DEFINE q == [pass[w] EXCEPT !.at = "sent"]
<2>1. q \in Passes
  BY DEF IInv, TypeOK, Passes
<2>2. /\ q.at = "sent" /\ q.generation = pass[w].generation
      /\ q.key = pass[w].key /\ q.attempt = pass[w].attempt
  BY DEF IInv, TypeOK, Passes
<2>3. pass' = [pass EXCEPT ![w] = q]
  BY DEF IInv, TypeOK, Passes, Send
<2>4. QED
  BY <2>1, <2>2, <2>3
<1>p. /\ pass' \in [Worker -> Passes] /\ pass'[w] = q
      /\ \A v \in Worker : v # w => pass'[v] = pass[v]
  BY <1>q, PassChanges DEF IInv
<1>r. RequestsOf(w) \subseteq Requests /\ wire' = wire \cup RequestsOf(w)
  BY DEF IInv, TypeOK, Passes, Requests, RequestsOf, Send
<1>u. UNCHANGED <<lease, ledger, effect, seen, aside, attempts, unsettled>>
  BY DEF Send, history
<1>5. TypeOK'
  BY <1>q, <1>p, <1>u, <1>r DEF IInv, TypeOK
<1>6. TermInv'
  BY <1>q, <1>p, <1>u DEF IInv, TermInv, Led, Send
<1>7. PassInv'
  BY <1>q, <1>p, <1>u DEF IInv, PassInv, Keyed, Active, Send
<1>8. EffectInv'
  BY <1>q, <1>p, <1>u DEF IInv, EffectInv
<1>9. DoubtfulInv'
  BY <1>q, <1>p, <1>u DEF IInv, DoubtfulInv
<1>10. OwnInv'
  BY <1>q, <1>p, <1>u DEF IInv, OwnInv, Active, Send
<1>11. DoubtIsRemembered'
  BY <1>u DEF IInv, DoubtIsRemembered
<1>12. SucceededIsReal'
  BY <1>q, <1>p, <1>u DEF IInv, SucceededIsReal
<1>13. QED
  BY <1>5, <1>6, <1>7, <1>8, <1>9, <1>10, <1>11, <1>12 DEF IInv

LEMMA AmbiguousKeeps ==
    ASSUME IInv, NEW w \in Worker, Ambiguous(w)
    PROVE  IInv'
<1>q. PICK q \in Passes :
        /\ pass' = [pass EXCEPT ![w] = q]
        /\ q.at = "closing" /\ q.outcome = "uncertain"
        /\ q.generation = pass[w].generation /\ q.key = pass[w].key
        /\ q.attempt = pass[w].attempt
<2> DEFINE q == [pass[w] EXCEPT !.at = "closing", !.outcome = "uncertain"]
<2>1. q \in Passes
  BY DEF IInv, TypeOK, Passes
<2>2. /\ q.at = "closing" /\ q.outcome = "uncertain"
      /\ q.generation = pass[w].generation /\ q.key = pass[w].key
      /\ q.attempt = pass[w].attempt
  BY DEF IInv, TypeOK, Passes
<2>3. pass' = [pass EXCEPT ![w] = q]
  BY DEF IInv, TypeOK, Passes, Ambiguous
<2>4. QED
  BY <2>1, <2>2, <2>3
<1>p. /\ pass' \in [Worker -> Passes] /\ pass'[w] = q
      /\ \A v \in Worker : v # w => pass'[v] = pass[v]
  BY <1>q, PassChanges DEF IInv
<1>u. UNCHANGED <<lease, ledger, effect, wire, seen, aside, attempts, unsettled>>
  BY DEF Ambiguous, history
<1>4. TypeOK'
  BY <1>q, <1>p, <1>u DEF IInv, TypeOK
<1>5. TermInv'
  BY <1>q, <1>p, <1>u DEF IInv, TermInv, Led, Ambiguous
<1>6. PassInv'
  BY <1>q, <1>p, <1>u DEF IInv, PassInv, Keyed, Active, Ambiguous
<1>7. EffectInv'
  BY <1>q, <1>p, <1>u DEF IInv, EffectInv
<1>8. DoubtfulInv'
  BY <1>q, <1>p, <1>u DEF IInv, DoubtfulInv
<1>9. OwnInv'
  BY <1>q, <1>p, <1>u DEF IInv, OwnInv, Active, Ambiguous
<1>10. DoubtIsRemembered'
  BY <1>q, <1>p, <1>u DEF IInv, DoubtIsRemembered, Ambiguous
<1>11. SucceededIsReal'
  BY <1>q, <1>p, <1>u DEF IInv, SucceededIsReal
<1>12. QED
  BY <1>4, <1>5, <1>6, <1>7, <1>8, <1>9, <1>10, <1>11 DEF IInv

LEMMA CompleteKeeps ==
    ASSUME IInv, NEW w \in Worker, Complete(w)
    PROVE  IInv'
<1>q. PICK q \in Passes, o \in Observations :
        /\ pass' = [pass EXCEPT ![w] = q]
        /\ q.at \in {"idle", "leading"}
        /\ q.at = "leading" => q.generation = pass[w].generation
        /\ seen' = [seen EXCEPT ![w] = o] /\ o.effects \subseteq effect \cup Reversible
  BY GoesOnLeaves DEF IInv, Complete, LeavesTo
<1>p. /\ pass' \in [Worker -> Passes] /\ pass'[w] = q
      /\ \A v \in Worker : v # w => pass'[v] = pass[v]
  BY <1>q, PassChanges DEF IInv
<1>k. PICK k \in Key : pass[w].key = {k}
  BY DEF IInv, PassInv, Keyed, Complete
<1>m. PICK m \in Records :
        /\ ledger' = [ledger EXCEPT ![k] = m] /\ m.attempt = ledger[k].attempt
        /\ \/ m = ledger[k] /\ unsettled' = unsettled
           \/ /\ CanComplete(ledger[k], pass[w].generation)
              /\ \/ /\ m.state = "Succeeded" /\ pass[w].outcome = "succeeded"
                    /\ unsettled' = unsettled
                 \/ m.state = "Ready" /\ unsettled' = unsettled \ RequestsOf(w)
                 \/ m.state = "ObservationRequired" /\ unsettled' = unsettled
<2>1. CASE UNCHANGED <<ledger, unsettled>>
  BY <2>1 DEF IInv, TypeOK
<2>2. CASE /\ CanComplete(ledger[k], pass[w].generation)
           /\ ledger' = [ledger EXCEPT ![k] = Completed(@, pass[w].outcome)]
           /\ unsettled' = IF pass[w].outcome = "failed" THEN unsettled \ RequestsOf(w)
                           ELSE unsettled
  <3> DEFINE m == Completed(ledger[k], pass[w].outcome)
  <3>1. pass[w].outcome \in {"succeeded", "failed", "uncertain"}
    BY DEF IInv, TypeOK, Passes, PassInv, Complete
  <3>2. /\ m \in Records /\ m.attempt = ledger[k].attempt
        /\ pass[w].outcome = "succeeded" => m.state = "Succeeded"
        /\ pass[w].outcome = "failed" => m.state = "Ready"
        /\ pass[w].outcome = "uncertain" => m.state = "ObservationRequired"
    BY <3>1 DEF IInv, TypeOK, Records, States, Completed
  <3>3. QED
    BY <2>2, <3>1, <3>2
<2>3. QED
  BY <1>k, <2>1, <2>2 DEF Complete
<1>l. /\ ledger' \in [Key -> Records] /\ ledger'[k] = m
      /\ \A j \in Key : j # k => ledger'[j] = ledger[j]
  BY <1>m, LedgerChanges DEF IInv
<1>r. /\ RequestsOf(w) = {[key |-> k, attempt |-> pass[w].attempt]}
      /\ CanComplete(ledger[k], pass[w].generation) => ledger[k].attempt = pass[w].attempt
  BY <1>k DEF IInv, TypeOK, Passes, RequestsOf, OwnInv, Active, Complete
<1>s. /\ seen' \in [Worker -> Observations] /\ seen'[w] = o
      /\ \A v \in Worker : v # w => seen'[v] = seen[v]
  BY <1>q DEF IInv, TypeOK
<1>u. UNCHANGED <<lease, effect, wire, aside, attempts>> /\ unsettled' \subseteq unsettled
  BY <1>m DEF Complete
<1>9. TypeOK'
  BY <1>p, <1>l, <1>s, <1>u DEF IInv, TypeOK
<1>10. TermInv'
  BY <1>q, <1>p, <1>k, <1>m, <1>l, <1>u DEF IInv, TermInv, Led, Complete
<1>11. PassInv'
  BY <1>q, <1>p, <1>k, <1>m, <1>l, <1>u DEF IInv, PassInv, Keyed, Active
<1>12. EffectInv'
  BY <1>q, <1>p, <1>k, <1>m, <1>l, <1>u, <1>s DEF IInv, EffectInv
<1>13. DoubtfulInv'
  BY <1>q, <1>p, <1>k, <1>m, <1>l, <1>u DEF IInv, DoubtfulInv, TypeOK, Passes
<1>14. OwnInv'
  BY <1>q, <1>p, <1>k, <1>m, <1>l, <1>u DEF IInv, OwnInv, Active, TypeOK, Passes,
     CanComplete
<1>15. DoubtIsRemembered'
  <2> SUFFICES ASSUME NEW r \in unsettled'
               PROVE  ledger'[r.key].attempt = r.attempt /\ ledger'[r.key].state # "Ready"
    BY DEF DoubtIsRemembered
  <2>1. r \in unsettled /\ r \in Requests
    BY <1>u DEF IInv, TypeOK
  <2>2. ledger[r.key].attempt = r.attempt /\ ledger[r.key].state # "Ready"
    BY <2>1 DEF IInv, DoubtIsRemembered
  <2>3. CASE r.key # k
    BY <2>1, <2>2, <2>3, <1>l DEF Requests
  <2>4. CASE r.key = k
    <3>1. r = [key |-> k, attempt |-> ledger[k].attempt]
      BY <2>1, <2>2, <2>4 DEF Requests
    <3>2. m.state # "Ready"
      BY <3>1, <1>m, <1>r, <2>2, <2>4
    <3>3. QED
      BY <3>2, <2>2, <2>4, <1>m, <1>l
  <2>5. QED
    BY <2>3, <2>4
<1>16. SucceededIsReal'
  BY <1>q, <1>p, <1>k, <1>m, <1>l, <1>u DEF IInv, SucceededIsReal, TypeOK, EffectInv,
     Complete
<1>17. QED
  BY <1>9, <1>10, <1>11, <1>12, <1>13, <1>14, <1>15, <1>16 DEF IInv

-----------------------------------------------------------------------------
(* The lease                                                               *)

LEMMA AcquireKeeps ==
    ASSUME IInv, NEW w \in Worker, Acquire(w)
    PROVE  IInv'
<1>1. /\ lease'.generation = lease.generation + 1 /\ lease.generation \in Nat
      /\ lease' \in [holder : Worker \cup {Gone}, generation : Nat, live : BOOLEAN]
  BY DEF IInv, TypeOK, Acquire
<1>2. \A v \in Worker : pass[v].generation \in Nat
  BY DEF IInv, TypeOK, Passes
<1>u. UNCHANGED <<ledger, effect, wire, pass, seen, aside, attempts, unsettled>>
  BY DEF Acquire, history
<1>4. TypeOK'
  BY <1>1, <1>2, <1>u DEF IInv, TypeOK
<1>5. TermInv'
  BY <1>1, <1>2, <1>u DEF IInv, TermInv, Led
<1>6. PassInv'
  BY <1>1, <1>2, <1>u DEF IInv, PassInv, Keyed, Active
<1>7. EffectInv'
  BY <1>1, <1>2, <1>u DEF IInv, EffectInv
<1>8. DoubtfulInv'
  BY <1>1, <1>2, <1>u DEF IInv, DoubtfulInv, TermInv, Led
<1>9. OwnInv'
  BY <1>1, <1>2, <1>u DEF IInv, OwnInv, Active
<1>10. DoubtIsRemembered'
  BY <1>1, <1>2, <1>u DEF IInv, DoubtIsRemembered
<1>11. SucceededIsReal'
  BY <1>1, <1>2, <1>u DEF IInv, SucceededIsReal
<1>12. QED
  BY <1>4, <1>5, <1>6, <1>7, <1>8, <1>9, <1>10, <1>11 DEF IInv

LEMMA CrashKeeps ==
    ASSUME IInv, NEW w \in Worker, Crash(w)
    PROVE  IInv'
<1>p. /\ pass' \in [Worker -> Passes] /\ pass'[w].at = "idle"
      /\ \A v \in Worker : v # w => pass'[v] = pass[v]
  BY EndsLeaves DEF IInv, TypeOK, Crash
<1>s. /\ seen' \in [Worker -> Observations] /\ seen'[w].effects = {}
      /\ \A v \in Worker : v # w => seen'[v] = seen[v]
  BY EndsLeaves DEF IInv, TypeOK, Crash
<1>h. /\ lease' \in [holder : Worker \cup {Gone}, generation : Nat, live : BOOLEAN]
      /\ lease'.generation = lease.generation
      /\ \A v \in Worker : v # w /\ lease.holder = v => lease'.holder = v
  BY DEF IInv, TypeOK, Crash
<1>u. UNCHANGED <<ledger, effect, wire, aside, attempts, unsettled>>
  BY DEF Crash, history
<1>5. TypeOK'
  BY <1>p, <1>s, <1>h, <1>u DEF IInv, TypeOK
<1>6. TermInv'
  BY <1>p, <1>s, <1>h, <1>u DEF IInv, TermInv, Led
<1>7. PassInv'
  BY <1>p, <1>s, <1>h, <1>u DEF IInv, PassInv, Keyed, Active
<1>8. EffectInv'
  BY <1>p, <1>s, <1>h, <1>u DEF IInv, EffectInv
<1>9. DoubtfulInv'
  BY <1>p, <1>s, <1>h, <1>u DEF IInv, DoubtfulInv
<1>10. OwnInv'
  BY <1>p, <1>s, <1>h, <1>u DEF IInv, OwnInv, Active
<1>11. DoubtIsRemembered'
  BY <1>p, <1>s, <1>h, <1>u DEF IInv, DoubtIsRemembered
<1>12. SucceededIsReal'
  BY <1>p, <1>s, <1>h, <1>u DEF IInv, SucceededIsReal
<1>13. QED
  BY <1>5, <1>6, <1>7, <1>8, <1>9, <1>10, <1>11, <1>12 DEF IInv

-----------------------------------------------------------------------------
(* Kubernetes                                                              *)

LEMMA AnswerKeeps ==
    ASSUME IInv, NEW w \in Worker, NEW outcome \in {"succeeded", "failed"},
           pass[w].at = "sent",
           pass' = [pass EXCEPT ![w].at = "closing", ![w].outcome = outcome],
           effect \subseteq effect', effect' \subseteq Key, wire' \subseteq wire,
           outcome = "succeeded" => pass[w].key \subseteq effect',
           UNCHANGED <<lease, ledger, seen, aside, attempts, unsettled>>
    PROVE  IInv'
<1>q. PICK q \in Passes :
        /\ pass' = [pass EXCEPT ![w] = q]
        /\ q.at = "closing" /\ q.outcome = outcome
        /\ q.generation = pass[w].generation /\ q.key = pass[w].key
        /\ q.attempt = pass[w].attempt
<2> DEFINE q == [pass[w] EXCEPT !.at = "closing", !.outcome = outcome]
<2>1. q \in Passes
  BY DEF IInv, TypeOK, Passes
<2>2. /\ q.at = "closing" /\ q.outcome = outcome
      /\ q.generation = pass[w].generation /\ q.key = pass[w].key
      /\ q.attempt = pass[w].attempt
  BY DEF IInv, TypeOK, Passes
<2>3. pass' = [pass EXCEPT ![w] = q]
  BY DEF IInv, TypeOK, Passes
<2>4. QED
  BY <2>1, <2>2, <2>3
<1>p. /\ pass' \in [Worker -> Passes] /\ pass'[w] = q
      /\ \A v \in Worker : v # w => pass'[v] = pass[v]
  BY <1>q, PassChanges DEF IInv
<1>3. TypeOK'
  BY <1>q, <1>p DEF IInv, TypeOK
<1>4. TermInv'
  BY <1>q, <1>p DEF IInv, TermInv, Led
<1>5. PassInv'
  BY <1>q, <1>p DEF IInv, PassInv, Keyed, Active
<1>6. EffectInv'
  BY <1>q, <1>p DEF IInv, EffectInv
<1>7. DoubtfulInv'
  BY <1>q, <1>p DEF IInv, DoubtfulInv
<1>8. OwnInv'
  BY <1>q, <1>p DEF IInv, OwnInv, Active
<1>9. DoubtIsRemembered'
  BY <1>q, <1>p DEF IInv, DoubtIsRemembered
<1>10. SucceededIsReal'
  BY <1>q, <1>p DEF IInv, SucceededIsReal
<1>11. QED
  BY <1>3, <1>4, <1>5, <1>6, <1>7, <1>8, <1>9, <1>10 DEF IInv

LEMMA SilenceKeeps ==
    ASSUME IInv, effect \subseteq effect', effect' \subseteq Key, wire' \subseteq wire,
           UNCHANGED <<lease, ledger, pass, seen, aside, attempts, unsettled>>
    PROVE  IInv'
<1>1. TypeOK'
  BY DEF IInv, TypeOK
<1>2. TermInv'
  BY DEF IInv, TermInv, Led
<1>3. PassInv'
  BY DEF IInv, PassInv, Keyed, Active
<1>4. EffectInv'
  BY DEF IInv, EffectInv
<1>5. DoubtfulInv'
  BY DEF IInv, DoubtfulInv
<1>6. OwnInv'
  BY DEF IInv, OwnInv, Active
<1>7. DoubtIsRemembered'
  BY DEF IInv, DoubtIsRemembered
<1>8. SucceededIsReal'
  BY DEF IInv, SucceededIsReal
<1>9. QED
  BY <1>1, <1>2, <1>3, <1>4, <1>5, <1>6, <1>7, <1>8 DEF IInv

LEMMA ExecuteKeeps ==
    ASSUME IInv, NEW r \in wire, Execute(r)
    PROVE  IInv'
<1>1. /\ wire' \subseteq wire /\ effect \subseteq effect' /\ effect' \subseteq Key
      /\ r.key \in effect'
      /\ UNCHANGED <<lease, ledger, seen, aside, attempts, unsettled>>
  BY DEF IInv, TypeOK, Requests, Execute, history
<1>2. CASE UNCHANGED pass
  BY <1>1, <1>2, SilenceKeeps
<1>3. CASE \E w \in Worker :
             /\ pass[w].at = "sent" /\ r \in RequestsOf(w)
             /\ pass' = [pass EXCEPT ![w].at = "closing", ![w].outcome =
                           IF r.key \in effect THEN "failed" ELSE "succeeded"]
  <2>1. PICK w \in Worker :
             /\ pass[w].at = "sent" /\ r \in RequestsOf(w)
             /\ pass' = [pass EXCEPT ![w].at = "closing", ![w].outcome =
                           IF r.key \in effect THEN "failed" ELSE "succeeded"]
    BY <1>3
  <2>2. pass[w].key \subseteq effect'
    BY <1>1, <2>1 DEF IInv, PassInv, Keyed, RequestsOf
  <2>3. QED
    BY <1>1, <2>1, <2>2, AnswerKeeps
<1>4. QED
  BY <1>2, <1>3 DEF Execute

LEMMA DropKeeps ==
    ASSUME IInv, NEW r \in wire, Drop(r)
    PROVE  IInv'
<1>1. /\ wire' \subseteq wire /\ effect \subseteq Key
      /\ UNCHANGED <<lease, ledger, effect, seen, aside, attempts, unsettled>>
  BY DEF IInv, TypeOK, Drop, history
<1>2. QED
  BY <1>1, SilenceKeeps, AnswerKeeps DEF Drop

LEMMA ExpireKeeps ==
    ASSUME IInv, Expire
    PROVE  IInv'
<1>1. /\ lease' \in [holder : Worker \cup {Gone}, generation : Nat, live : BOOLEAN]
      /\ lease'.generation = lease.generation /\ lease'.holder = lease.holder
  BY DEF IInv, TypeOK, Expire
<1>2. UNCHANGED <<ledger, effect, wire, pass, seen, aside, attempts, unsettled>>
  BY DEF Expire, history
<1>3. TypeOK'
  BY <1>1, <1>2 DEF IInv, TypeOK
<1>4. TermInv'
  BY <1>1, <1>2 DEF IInv, TermInv, Led
<1>5. PassInv'
  BY <1>1, <1>2 DEF IInv, PassInv, Keyed, Active
<1>6. EffectInv'
  BY <1>1, <1>2 DEF IInv, EffectInv
<1>7. DoubtfulInv'
  BY <1>1, <1>2 DEF IInv, DoubtfulInv
<1>8. OwnInv'
  BY <1>1, <1>2 DEF IInv, OwnInv, Active
<1>9. DoubtIsRemembered'
  BY <1>1, <1>2 DEF IInv, DoubtIsRemembered
<1>10. SucceededIsReal'
  BY <1>1, <1>2 DEF IInv, SucceededIsReal
<1>11. QED
  BY <1>3, <1>4, <1>5, <1>6, <1>7, <1>8, <1>9, <1>10 DEF IInv

LEMMA AsideKeeps ==
    ASSUME IInv, NEW k \in Key, SetAside(k) \/ TakeUp(k)
    PROVE  IInv'
<1>1. /\ aside' \subseteq Key
      /\ UNCHANGED <<lease, ledger, effect, wire, pass, seen, attempts, unsettled>>
  BY DEF IInv, TypeOK, SetAside, TakeUp, history
<1>2. TypeOK'
  BY <1>1 DEF IInv, TypeOK
<1>3. TermInv' /\ PassInv' /\ EffectInv'
  BY <1>1 DEF IInv, TermInv, PassInv, EffectInv
<1>4. DoubtfulInv' /\ OwnInv' /\ DoubtIsRemembered' /\ SucceededIsReal'
  BY <1>1 DEF IInv, DoubtfulInv, OwnInv, DoubtIsRemembered, SucceededIsReal
<1>5. QED
  BY <1>2, <1>3, <1>4 DEF IInv

-----------------------------------------------------------------------------
(* Every step                                                              *)

LEMMA StutterKeeps ==
    ASSUME IInv, UNCHANGED vars
    PROVE  IInv'
  BY DEF vars, IInv, TypeOK, TermInv, PassInv, EffectInv, DoubtfulInv, OwnInv,
     DoubtIsRemembered, SucceededIsReal

LEMMA InitHolds == Init => IInv
<1> SUFFICES ASSUME Init PROVE IInv
  OBVIOUS
<1>1. NoRecord \in Records /\ Idle \in Passes /\ NoObservation \in Observations
  BY DEF NoRecord, Records, States, Idle, Passes, NoObservation, Observations
<1>2. TypeOK
  BY <1>1 DEF Init, TypeOK
<1>3. /\ \A w \in Worker : pass[w].at = "idle" /\ seen[w].effects = {}
      /\ \A k \in Key : ledger[k].state = "Ready"
      /\ unsettled = {}
  BY DEF Init, Idle, NoObservation, NoRecord
<1>4. QED
  BY <1>2, <1>3 DEF IInv, TermInv, Led, PassInv, Keyed, Active, EffectInv, DoubtfulInv,
     OwnInv, DoubtIsRemembered, SucceededIsReal

LEMMA NextKeeps == IInv /\ [Next]_vars => IInv'
<1> SUFFICES ASSUME IInv, [Next]_vars PROVE IInv'
  OBVIOUS
<1>1. ASSUME NEW w \in Worker, Step(w) PROVE IInv'
  BY <1>1, ListKeeps, ObserveKeeps, LeadKeeps, FollowKeeps, VisitKeeps, EndPassKeeps, RefusedKeeps,
     BeginKeeps, FindDoubtKeeps, NothingToDoKeeps, ObserveDoubtKeeps, RevalidateKeeps,
     SendKeeps, AmbiguousKeeps, CompleteKeeps DEF Step
<1>2. ASSUME NEW w \in Worker, ObserveFails(w) \/ Acquire(w) \/ Crash(w) PROVE IInv'
  BY <1>2, ObserveFailsKeeps, AcquireKeeps, CrashKeeps
<1>3. ASSUME NEW r \in wire, Execute(r) \/ Drop(r) PROVE IInv'
  BY <1>3, ExecuteKeeps, DropKeeps
<1>4. ASSUME NEW k \in Key, SetAside(k) \/ TakeUp(k) PROVE IInv'
  BY <1>4, AsideKeeps
<1>5. QED
  BY <1>1, <1>2, <1>3, <1>4, ExpireKeeps, StutterKeeps DEF Next

LEMMA IInvHolds == Spec => []IInv
  BY InitHolds, NextKeeps, PTL DEF Spec

-----------------------------------------------------------------------------
(* The theorems                                                            *)

\* Every variable keeps its type, in particular a pass is always at one of the
\* points that mutateKubernetes and its callers go through.
THEOREM TypesCorrect == Spec => []TypeOK
<1>1. IInv => TypeOK
  BY DEF IInv
<1>2. QED
  BY <1>1, IInvHolds, PTL

\* BeginMutation, ObserveMutation and CompleteMutation keep the record of an
\* attempt that has neither failed for certain nor been looked for since, as the
\* clocks of the two processes tell, whoever leads, however often the lease
\* changes hands and however late an outcome is recorded: it is the attempt in
\* the ledger, which is not ready for another.
THEOREM DoubtsAreRemembered == Spec => []DoubtIsRemembered
<1>1. IInv => DoubtIsRemembered
  BY DEF IInv
<1>2. QED
  BY <1>1, IInvHolds, PTL

\* A record of a create that CompleteMutation or ObserveMutation sets to
\* Succeeded has its effect in Kubernetes, also when the record is made by another
\* process than the one that sent the request.  Of the other commands this does
\* not hold: a row may show from before what they are to bring about.
THEOREM SuccessIsReal == Spec => []SucceededIsReal
<1>1. IInv => SucceededIsReal
  BY DEF IInv
<1>2. QED
  BY <1>1, IInvHolds, PTL
=============================================================================

------------------------- MODULE AccessControlProofs -------------------------
(***************************************************************************)
(* Proofs about principals, role bindings and sessions, for any number of   *)
(* principals, teams, bindings and transactions in flight: an owner remains,*)
(* a session knows its teams, and none is valid again that was invalidated. *)
(***************************************************************************)
EXTENDS AccessControl, FiniteSetTheorems, SequenceTheorems, TLAPS

-----------------------------------------------------------------------------
(* The inductive invariant                                                 *)

\* A row is written by one transaction at a time.
Apart(q, r) ==
    /\ DOMAIN q.principals \cap DOMAIN r.principals = {}
    /\ DOMAIN q.bindings \cap DOMAIN r.bindings = {}
    /\ DOMAIN q.members \cap DOMAIN r.members = {}

LockInv == \A t, u \in Tx : t # u => Apart(tx[t], tx[u])

Exists(subject) == subject \in Principal => principals[subject] # Absent

\* What is granted, or to be invalidated, is a team or an account that exists;
\* so has every member an account, or gets it from the same transaction.
SubjectInv ==
    /\ \A b \in Binding : bindings[b] # Absent => Exists(bindings[b].subject)
    /\ \A team \in Team, p \in Principal :
         members[<<team, p>>] # Absent => principals[p] # Absent

Grounded(q) ==
    /\ \A i \in 1..Len(q.subjects) : Exists(q.subjects[i])
    /\ q.op = "rebind" => Exists(q.value.subject)
    /\ \A b \in DOMAIN q.bindings :
         q.bindings[b] # Absent => Exists(q.bindings[b].subject)
    /\ \A team \in Team, p \in Principal :
         <<team, p>> \in DOMAIN q.members =>
           principals[p] # Absent \/ p \in DOMAIN q.principals

\* A transaction that only reads has written nothing.
Unwritten(q) ==
    q.at \in {"idle", "begun"} =>
      DOMAIN q.principals = {} /\ DOMAIN q.bindings = {} /\ DOMAIN q.members = {}

\* What a transaction has read before its write, by operation.
Prepared(q) ==
    q.at = "begun" =>
      /\ q.op \in {"rebind", "unbind", "leave", "provision", "synchronize"}
      /\ q.op = "rebind" => q.row \in Binding /\ q.value \in Grant /\ q.guarded
      /\ q.op = "unbind" => q.row \in Binding /\ q.guarded
      /\ q.op = "leave" =>
           /\ q.guarded
           /\ \E team \in Team, p \in Principal : q.row = <<team, p>> /\ q.subjects = <<p>>
      /\ q.op \in {"provision", "synchronize"} =>
           /\ q.row \in Principal
           /\ q.value \in [desired : SUBSET Team, stale : SUBSET Team]
           /\ ~q.guarded
           /\ q.subjects = IF q.op = "provision" THEN <<>> ELSE <<q.row>>

\* Each write of an account moves its generation on.
Advances(q) ==
    \A p \in DOMAIN q.principals :
      principals[p] # Absent => q.principals[p].generation > principals[p].generation

\* A transaction that changes the memberships of a principal writes, or is yet
\* to write, the principal's account.
Moves(q) ==
    \A team \in Team, p \in Principal :
      <<team, p>> \in DOMAIN q.members => p \in DOMAIN q.principals \/ q.subjects = <<p>>

\* A transaction that asks for no remaining owner takes nothing away, except
\* what a provider says.
Adds(q) ==
    ~q.guarded =>
      /\ \A p \in DOMAIN q.principals :
           principals[p] # Absent => q.principals[p].disabled = principals[p].disabled
      /\ \A b \in DOMAIN q.bindings : bindings[b] = Absent
      /\ \A m \in DOMAIN q.members :
           members[m] # Absent => q.op = "synchronize" /\ q.members[m] = Absent

Sound(q) ==
    Grounded(q) /\ Unwritten(q) /\ Prepared(q) /\ Advances(q) /\ Moves(q) /\ Adds(q)

WriteInv == \A t \in Tx : Sound(tx[t])

\* What a transaction that has counted the owners sees keeps an owner while it
\* holds the lock.
CountInv ==
    \A t \in Tx : tx[t].at = "checked" /\ tx[t].guarded =>
      /\ lock = t
      /\ pruned \/ Owners(PrincipalsSeen(t), BindingsSeen(t), MembersSeen(t)) # {}

\* A session is of an account that exists, and not of its future.
SessionInv ==
    session # Absent =>
      /\ principals[session.principal] # Absent
      /\ session.generation <= principals[session.principal].generation

\* Each transaction in flight is counted.
InFlight == {t \in Tx : tx[t].at # "idle"}
ChangesInv == Cardinality(InFlight) <= changes

IInv ==
    /\ TypeOK /\ ChangesInv /\ LockInv /\ SubjectInv /\ WriteInv /\ CountInv /\ SessionInv
    /\ OwnerRemains /\ SessionKnowsItsTeams

-----------------------------------------------------------------------------
(* Tables, and the owners they show                                        *)

LEMMA SeenIs ==
    ASSUME TypeOK, NEW t \in Tx
    PROVE  /\ PrincipalsSeen(t) \in [Principal -> Account \cup {Absent}]
           /\ \A p \in Principal : PrincipalsSeen(t)[p] =
                IF p \in DOMAIN tx[t].principals THEN tx[t].principals[p] ELSE principals[p]
           /\ BindingsSeen(t) \in [Binding -> Grant \cup {Absent}]
           /\ \A b \in Binding : BindingsSeen(t)[b] =
                IF b \in DOMAIN tx[t].bindings THEN tx[t].bindings[b] ELSE bindings[b]
           /\ MembersSeen(t) \in [Team \X Principal -> Sources \cup {Absent}]
           /\ \A m \in Team \X Principal : MembersSeen(t)[m] =
                IF m \in DOMAIN tx[t].members THEN tx[t].members[m] ELSE members[m]
<1>1. IsTransaction(tx[t])
  BY DEF TypeOK
<1>2. /\ PrincipalsSeen(t) \in [Principal -> Account \cup {Absent}]
      /\ \A p \in Principal : PrincipalsSeen(t)[p] =
           IF p \in DOMAIN tx[t].principals THEN tx[t].principals[p] ELSE principals[p]
  BY <1>1 DEF TypeOK, IsTransaction, IsRows, PrincipalsSeen, Over
<1>3. /\ BindingsSeen(t) \in [Binding -> Grant \cup {Absent}]
      /\ \A b \in Binding : BindingsSeen(t)[b] =
           IF b \in DOMAIN tx[t].bindings THEN tx[t].bindings[b] ELSE bindings[b]
  BY <1>1 DEF TypeOK, IsTransaction, IsRows, BindingsSeen, Over
<1>4. /\ MembersSeen(t) \in [Team \X Principal -> Sources \cup {Absent}]
      /\ \A m \in Team \X Principal : MembersSeen(t)[m] =
           IF m \in DOMAIN tx[t].members THEN tx[t].members[m] ELSE members[m]
  BY <1>1 DEF TypeOK, IsTransaction, IsRows, MembersSeen, Over
<1>5. QED
  BY <1>2, <1>3, <1>4

\* Tables that lose neither an enabled account, nor a binding, nor a membership
\* lose no owner.
Grows(ps, bs, ms, qs, cs, ns) ==
    /\ \A p \in Principal : ps[p] # Absent /\ ~ps[p].disabled => qs[p] # Absent /\ ~qs[p].disabled
    /\ \A b \in Binding : bs[b] # Absent => cs[b] = bs[b]
    /\ \A team \in Team, p \in Principal :
         ms[<<team, p>>] # Absent => ns[<<team, p>>] # Absent

LEMMA OwnersGrow ==
    ASSUME NEW ps, NEW bs, NEW ms, NEW qs, NEW cs, NEW ns, Grows(ps, bs, ms, qs, cs, ns)
    PROVE  Owners(ps, bs, ms) \subseteq Owners(qs, cs, ns)
<1> SUFFICES ASSUME NEW p \in Owners(ps, bs, ms) PROVE p \in Owners(qs, cs, ns)
  OBVIOUS
<1>1. p \in Principal /\ ps[p] # Absent /\ ~ps[p].disabled
  BY DEF Owners
<1>2. PICK b \in Binding :
        /\ bs[b] # Absent /\ bs[b].owner
        /\ bs[b].subject = p \/ \E team \in Team : bs[b].subject = team /\ ms[<<team, p>>] # Absent
  BY DEF Owners
<1>3. qs[p] # Absent /\ ~qs[p].disabled /\ cs[b] = bs[b]
  BY <1>1, <1>2 DEF Grows
<1>4. \A team \in Team : ms[<<team, p>>] # Absent => ns[<<team, p>>] # Absent
  BY <1>1 DEF Grows
<1>5. QED
  BY <1>1, <1>2, <1>3, <1>4 DEF Owners

LEMMA TxChanges ==
    ASSUME TypeOK, NEW t \in Tx, NEW n, tx' = [tx EXCEPT ![t] = n]
    PROVE  /\ DOMAIN tx' = Tx /\ tx'[t] = n
           /\ \A u \in Tx : u # t => tx'[u] = tx[u]
  BY DEF TypeOK

LEMMA FlightChanges ==
    ASSUME IInv, NEW t \in Tx, NEW n, tx' = [tx EXCEPT ![t] = n]
    PROVE  /\ n.at # "idle" /\ tx[t].at = "idle" =>
                Cardinality(InFlight') = Cardinality(InFlight) + 1
           /\ n.at # "idle" /\ tx[t].at # "idle" =>
                Cardinality(InFlight') = Cardinality(InFlight)
           /\ n.at = "idle" /\ tx[t].at # "idle" =>
                Cardinality(InFlight') = Cardinality(InFlight) - 1
           /\ Cardinality(InFlight) \in Nat
           /\ tx[t].at # "idle" => Cardinality(InFlight) >= 1
<1>1. /\ DOMAIN tx' = Tx /\ tx'[t] = n
      /\ \A u \in Tx : u # t => tx'[u] = tx[u]
  BY TxChanges DEF IInv
<1>2. IsFiniteSet(InFlight) /\ Cardinality(InFlight) \in Nat
  BY FS_Subset, FS_CardinalityType, AccessAssumption DEF InFlight
<1>3. /\ n.at # "idle" => InFlight' = InFlight \cup {t}
      /\ n.at = "idle" => InFlight' = InFlight \ {t}
      /\ t \in InFlight <=> tx[t].at # "idle"
  BY <1>1 DEF InFlight
<1>4. /\ Cardinality(InFlight \cup {t}) =
           IF t \in InFlight THEN Cardinality(InFlight) ELSE Cardinality(InFlight) + 1
      /\ Cardinality(InFlight \ {t}) =
           IF t \in InFlight THEN Cardinality(InFlight) - 1 ELSE Cardinality(InFlight)
  BY <1>2, FS_AddElement, FS_RemoveElement
<1>5. Cardinality(InFlight \ {t}) \in Nat
  BY <1>2, FS_Subset, FS_CardinalityType
<1>6. CASE n.at # "idle"
  <2>1. Cardinality(InFlight') = Cardinality(InFlight \cup {t})
    BY <1>3, <1>6
  <2>2. QED
    BY <1>2, <1>3, <1>4, <1>5, <1>6, <2>1
<1>7. CASE n.at = "idle"
  <2>1. Cardinality(InFlight') = Cardinality(InFlight \ {t})
    BY <1>3, <1>7
  <2>2. QED
    BY <1>2, <1>3, <1>4, <1>5, <1>7, <2>1
<1>8. QED
  BY <1>6, <1>7

-----------------------------------------------------------------------------
(* A step of one transaction that commits nothing                          *)

LEMMA StatementKeeps ==
    ASSUME IInv, NEW t \in Tx, NEW n, tx' = [tx EXCEPT ![t] = n],
           UNCHANGED <<principals, bindings, members, session, pruned>>,
           changes' \in 0..MaxChanges, Cardinality(InFlight') <= changes',
           \/ lock' = lock
           \/ lock = Absent /\ lock' = t
           \/ lock = t /\ lock' = Absent,
           IsTransaction(n), Sound(n),
           \A u \in Tx : u # t => Apart(n, tx[u]) /\ Apart(tx[u], n),
           n.at = "checked" /\ n.guarded =>
             /\ lock' = t
             /\ pruned \/ Owners(Over(n.principals, principals), Over(n.bindings, bindings),
                                 Over(n.members, members)) # {}
    PROVE  IInv'
<1>t. /\ DOMAIN tx' = Tx /\ tx'[t] = n
      /\ \A u \in Tx : u # t => tx'[u] = tx[u]
  BY TxChanges DEF IInv
<1>2. TypeOK'
  BY <1>t DEF IInv, TypeOK, IsTransaction, IsRows
<1>3. ChangesInv'
  BY DEF ChangesInv
<1>4. LockInv'
  BY <1>t DEF IInv, LockInv, Apart
<1>5. SubjectInv'
  BY DEF IInv, SubjectInv, Exists
<1>6. WriteInv'
  BY <1>t DEF IInv, WriteInv, Sound, Grounded, Exists, Unwritten, Prepared, Advances, Moves, Adds
<1>7. CountInv'
  <2>1. SUFFICES ASSUME NEW u \in Tx, tx'[u].at = "checked", tx'[u].guarded
                 PROVE  /\ lock' = u
                        /\ \/ pruned
                           \/ Owners(PrincipalsSeen(u)', BindingsSeen(u)', MembersSeen(u)') # {}
    BY DEF CountInv
  <2>2. CASE u = t
    BY <1>t, <2>1, <2>2 DEF PrincipalsSeen, BindingsSeen, MembersSeen
  <2>3. CASE u # t
    BY <1>t, <2>1, <2>3, AccessAssumption
       DEF IInv, CountInv, PrincipalsSeen, BindingsSeen, MembersSeen
  <2>4. QED
    BY <2>2, <2>3
<1>8. SessionInv'
  BY DEF IInv, SessionInv
<1>9. OwnerRemains'
  BY DEF IInv, OwnerRemains, Owners
<1>10. SessionKnowsItsTeams'
  BY DEF IInv, SessionKnowsItsTeams, SessionValid, TeamsOf
<1>11. QED
  BY <1>2, <1>3, <1>4, <1>5, <1>6, <1>7, <1>8, <1>9, <1>10 DEF IInv

LEMMA RowsAre ==
    DOMAIN None = {} /\ \A x, value : DOMAIN Row(x, value) = {x} /\ Row(x, value)[x] = value
  BY DEF None, Row

LEMMA FreshIs ==
    ASSUME NEW op, NEW row, NEW value, NEW subjects, NEW guarded
    PROVE  LET n == [Idle EXCEPT !.at = "begun", !.op = op, !.row = row,
                       !.value = value, !.subjects = subjects, !.guarded = guarded]
           IN  /\ DOMAIN n = DOMAIN Idle /\ n.at = "begun" /\ n.op = op /\ n.row = row
               /\ n.value = value /\ n.subjects = subjects /\ n.guarded = guarded
               /\ n.principals = None /\ n.bindings = None /\ n.members = None
  BY DEF Idle

LEMMA OpeningIs ==
    ASSUME NEW op \in {"principal", "bind", "join"}, NEW guarded \in BOOLEAN,
           NEW subjects \in Seq(Principal \cup Team)
    PROVE  LET n == Opening(op, subjects, guarded)
           IN  /\ IsTransaction(n) /\ n.op = op
               /\ n.subjects = subjects /\ n.guarded = guarded
<1> DEFINE n == Opening(op, subjects, guarded)
<1>1. /\ DOMAIN n = DOMAIN Idle /\ n.at = "idle" /\ n.op = op /\ n.row = Absent
      /\ n.value = Absent /\ n.subjects = subjects /\ n.guarded = guarded
      /\ n.principals = None /\ n.bindings = None /\ n.members = None
  BY DEF Opening, Idle
<1> HIDE DEF n
<1>2. QED
  BY <1>1, RowsAre DEF IsTransaction, IsRows, n

LEMMA WrittenIs ==
    ASSUME NEW s, DOMAIN s = DOMAIN Idle, NEW ps, NEW bs, NEW ms
    PROVE  LET n == [s EXCEPT !.at = IF s.guarded THEN "written" ELSE "checked",
                              !.principals = ps, !.bindings = bs, !.members = ms]
           IN  /\ DOMAIN n = DOMAIN Idle /\ n.at = IF s.guarded THEN "written" ELSE "checked"
               /\ n.op = s.op /\ n.row = s.row /\ n.value = s.value
               /\ n.subjects = s.subjects /\ n.guarded = s.guarded
               /\ n.principals = ps /\ n.bindings = bs /\ n.members = ms
  BY DEF Idle

LEMMA BeginKeeps ==
    ASSUME IInv, NEW t \in Tx,
           NEW op \in {"rebind", "unbind", "leave", "provision", "synchronize"},
           NEW row \in Principal \cup Binding \cup (Team \X Principal),
           NEW value \in Grant \cup [desired : SUBSET Team, stale : SUBSET Team] \cup {Absent},
           NEW subjects \in Seq(Principal \cup Team), NEW guarded \in BOOLEAN,
           Begin(t, op, row, value, subjects, guarded),
           \A i \in 1..Len(subjects) : Exists(subjects[i]),
           op = "rebind" =>
             row \in Binding /\ value \in Grant /\ Exists(value.subject) /\ guarded,
           op = "unbind" => row \in Binding /\ guarded,
           op = "leave" => guarded /\ \E team \in Team, p \in Principal :
                                        row = <<team, p>> /\ subjects = <<p>>,
           op \in {"provision", "synchronize"} =>
             /\ row \in Principal /\ ~guarded
             /\ value \in [desired : SUBSET Team, stale : SUBSET Team]
             /\ subjects = IF op = "provision" THEN <<>> ELSE <<row>>
    PROVE  IInv'
<1> DEFINE n == [Idle EXCEPT !.at = "begun", !.op = op, !.row = row,
                   !.value = value, !.subjects = subjects, !.guarded = guarded]
<1>1. /\ DOMAIN n = DOMAIN Idle /\ n.at = "begun" /\ n.op = op /\ n.row = row
      /\ n.value = value /\ n.subjects = subjects /\ n.guarded = guarded
      /\ n.principals = None /\ n.bindings = None /\ n.members = None
  BY FreshIs
<1>2. /\ tx' = [tx EXCEPT ![t] = n] /\ tx[t].at = "idle"
      /\ changes < MaxChanges /\ changes' = changes + 1
      /\ UNCHANGED <<principals, bindings, members, lock, session, pruned>>
  BY DEF Begin, Start
<1> HIDE DEF n
<1>3. IsTransaction(n)
  BY <1>1, RowsAre DEF IsTransaction, IsRows
<1>4. Sound(n)
  BY <1>1, RowsAre DEF Sound, Grounded, Unwritten, Prepared, Advances, Moves, Adds
<1>5. \A u \in Tx : u # t => Apart(n, tx[u]) /\ Apart(tx[u], n)
  BY <1>1, RowsAre DEF Apart
<1>6. changes' \in 0..MaxChanges /\ Cardinality(InFlight') <= changes'
  <2>1. /\ Cardinality(InFlight') = Cardinality(InFlight) + 1
        /\ Cardinality(InFlight) \in Nat
    BY <1>1, <1>2, FlightChanges
  <2>2. Cardinality(InFlight) <= changes /\ changes \in Nat /\ MaxChanges \in Nat
    BY AccessAssumption DEF IInv, TypeOK, ChangesInv
  <2>3. QED
    BY <1>2, <2>1, <2>2
<1>7. QED
  BY <1>1, <1>2, <1>3, <1>4, <1>5, <1>6, StatementKeeps

\* The rows that a statement writes are of their tables and free.
Writable(t, ps, bs, ms) ==
    /\ IsRows(ps, Principal, Account) /\ \A p \in DOMAIN ps : PrincipalFree(t, p)
    /\ IsRows(bs, Binding, Grant \cup {Absent}) /\ \A b \in DOMAIN bs : BindingFree(t, b)
    /\ IsRows(ms, Team \X Principal, Sources \cup {Absent})
    /\ \A m \in DOMAIN ms : MemberFree(t, m)

\* What the statement s has to be for its writes to be sound.
Justified(s, ps, bs, ms) ==
    /\ \A i \in 1..Len(s.subjects) : Exists(s.subjects[i])
    /\ s.op = "rebind" => Exists(s.value.subject)
    /\ \A b \in DOMAIN bs : bs[b] # Absent => Exists(bs[b].subject)
    /\ \A p \in DOMAIN ps :
         principals[p] # Absent => ps[p].generation > principals[p].generation
    /\ \A team \in Team, p \in Principal : <<team, p>> \in DOMAIN ms =>
         /\ p \in DOMAIN ps \/ s.subjects = <<p>>
         /\ principals[p] # Absent \/ p \in DOMAIN ps
    /\ ~s.guarded =>
         /\ \A p \in DOMAIN ps :
              principals[p] # Absent => ps[p].disabled = principals[p].disabled
         /\ \A b \in DOMAIN bs : bindings[b] = Absent
         /\ \A m \in DOMAIN ms :
              members[m] # Absent => s.op = "synchronize" /\ ms[m] = Absent

LEMMA WriteKeeps ==
    ASSUME IInv, NEW t \in Tx, NEW s, NEW ps, NEW bs, NEW ms, Write(t, s, ps, bs, ms),
           Start(t) \/ (tx[t].at = "begun" /\ UNCHANGED changes),
           IsTransaction(s), Writable(t, ps, bs, ms), Justified(s, ps, bs, ms)
    PROVE  IInv'
<1> DEFINE n == [s EXCEPT !.at = IF s.guarded THEN "written" ELSE "checked",
                          !.principals = ps, !.bindings = bs, !.members = ms]
<1>1. /\ DOMAIN n = DOMAIN Idle /\ n.at = IF s.guarded THEN "written" ELSE "checked"
      /\ n.op = s.op /\ n.row = s.row /\ n.value = s.value
      /\ n.subjects = s.subjects /\ n.guarded = s.guarded
      /\ n.principals = ps /\ n.bindings = bs /\ n.members = ms
  BY WrittenIs DEF IsTransaction
<1>2. /\ tx' = [tx EXCEPT ![t] = n]
      /\ UNCHANGED <<principals, bindings, members, lock, session, pruned>>
  BY DEF Write
<1> HIDE DEF n
<1>3. IsTransaction(n)
  BY <1>1 DEF IsTransaction, Writable
<1>4. Sound(n)
  <2>1. Grounded(n)
    BY <1>1 DEF Grounded, Justified
  <2>2. Unwritten(n) /\ Prepared(n)
    BY <1>1 DEF Unwritten, Prepared
  <2>3. Advances(n) /\ Moves(n)
    BY <1>1 DEF Advances, Moves, Justified
  <2>4. Adds(n)
    BY <1>1 DEF Adds, Justified
  <2>5. QED
    BY <2>1, <2>2, <2>3, <2>4 DEF Sound
<1>5. \A u \in Tx : u # t => Apart(n, tx[u]) /\ Apart(tx[u], n)
  BY <1>1 DEF Apart, Writable, PrincipalFree, BindingFree, MemberFree
<1>6. changes' \in 0..MaxChanges /\ Cardinality(InFlight') <= changes'
  <2>1. Cardinality(InFlight) <= changes /\ changes \in 0..MaxChanges /\ MaxChanges \in Nat
    BY AccessAssumption DEF IInv, TypeOK, ChangesInv
  <2>2. n.at # "idle" /\ Cardinality(InFlight) \in Nat
    BY <1>1, <1>2, FlightChanges
  <2>3. CASE Start(t)
    <3>1. Cardinality(InFlight') = Cardinality(InFlight) + 1
      BY <1>2, <2>2, <2>3, FlightChanges DEF Start
    <3>2. QED
      BY <2>1, <2>2, <2>3, <3>1 DEF Start
  <2>4. CASE tx[t].at = "begun" /\ UNCHANGED changes
    <3>1. Cardinality(InFlight') = Cardinality(InFlight)
      BY <1>2, <2>2, <2>4, FlightChanges
    <3>2. QED
      BY <2>1, <2>4, <3>1
  <2>5. QED
    BY <2>3, <2>4
<1>7. ~(n.at = "checked" /\ n.guarded)
  BY <1>1
<1>8. QED
  BY <1>2, <1>3, <1>4, <1>5, <1>6, <1>7, StatementKeeps

-----------------------------------------------------------------------------
(* What a transaction reads first                                          *)

LEMMA SubjectsExist ==
    ASSUME IInv
    PROVE  /\ \A x \in Subjects : x \in Principal \cup Team /\ Exists(x)
           /\ \A b \in Binding : bindings[b] # Absent =>
                /\ bindings[b] \in Grant /\ bindings[b].subject \in Principal \cup Team
                /\ Exists(bindings[b].subject)
<1>1. \A x \in Subjects : x \in Principal \cup Team /\ Exists(x)
  BY AccessAssumption DEF Subjects, Exists
<1>2. ASSUME NEW b \in Binding, bindings[b] # Absent
      PROVE  /\ bindings[b] \in Grant /\ bindings[b].subject \in Principal \cup Team
             /\ Exists(bindings[b].subject)
  BY <1>2 DEF IInv, TypeOK, SubjectInv, Grant
<1>3. QED
  BY <1>1, <1>2

LEMMA BeginUpdateRoleBindingKeeps ==
    ASSUME IInv, NEW t \in Tx, BeginUpdateRoleBinding(t)
    PROVE  IInv'
<1>1. PICK b \in Binding, grant \in Grant :
        /\ bindings[b] # Absent
        /\ grant.subject \in Subjects
        /\ Begin(t, "rebind", b, grant,
                 IF bindings[b].subject = grant.subject THEN <<bindings[b].subject>>
                 ELSE <<bindings[b].subject, grant.subject>>, TRUE)
  BY DEF BeginUpdateRoleBinding
<1> DEFINE subjects == IF bindings[b].subject = grant.subject THEN <<bindings[b].subject>>
                       ELSE <<bindings[b].subject, grant.subject>>
<1>2. /\ subjects \in Seq(Principal \cup Team)
      /\ \A i \in 1..Len(subjects) : Exists(subjects[i])
  <2>1. /\ bindings[b].subject \in Principal \cup Team /\ Exists(bindings[b].subject)
        /\ grant.subject \in Principal \cup Team /\ Exists(grant.subject)
    BY <1>1, SubjectsExist
  <2>2. CASE bindings[b].subject = grant.subject
    BY <2>1, <2>2
  <2>3. CASE bindings[b].subject # grant.subject
    BY <2>1, <2>3
  <2>4. QED
    BY <2>2, <2>3
<1>3. Exists(grant.subject)
  BY <1>1, SubjectsExist
<1> HIDE DEF subjects
<1>4. Begin(t, "rebind", b, grant, subjects, TRUE)
  BY <1>1 DEF subjects
<1>5. QED
  BY <1>2, <1>3, <1>4, BeginKeeps

LEMMA BeginDeleteRoleBindingKeeps ==
    ASSUME IInv, NEW t \in Tx, BeginDeleteRoleBinding(t)
    PROVE  IInv'
<1>1. PICK b \in Binding :
        bindings[b] # Absent /\ Begin(t, "unbind", b, Absent, <<bindings[b].subject>>, TRUE)
  BY DEF BeginDeleteRoleBinding
<1> DEFINE subjects == <<bindings[b].subject>>
<1>2. /\ subjects \in Seq(Principal \cup Team)
      /\ \A i \in 1..Len(subjects) : Exists(subjects[i])
  BY <1>1, SubjectsExist
<1> HIDE DEF subjects
<1>3. Begin(t, "unbind", b, Absent, subjects, TRUE)
  BY <1>1 DEF subjects
<1>4. QED
  BY <1>2, <1>3, BeginKeeps

LEMMA BeginRemoveTeamMembershipKeeps ==
    ASSUME IInv, NEW t \in Tx, BeginRemoveTeamMembership(t)
    PROVE  IInv'
<1>1. PICK team \in Team, p \in Principal :
        /\ members[<<team, p>>] = "manual"
        /\ Begin(t, "leave", <<team, p>>, Absent, <<p>>, TRUE)
  BY DEF BeginRemoveTeamMembership
<1> DEFINE subjects == <<p>>
           row == <<team, p>>
<1>2. /\ subjects \in Seq(Principal \cup Team)
      /\ \A i \in 1..Len(subjects) : Exists(subjects[i])
  BY <1>1, AccessAssumption DEF IInv, SubjectInv, Exists, Sources
<1>3. row \in Team \X Principal /\ row = <<team, p>> /\ subjects = <<p>>
  OBVIOUS
<1> HIDE DEF subjects, row
<1>4. Begin(t, "leave", row, Absent, subjects, TRUE)
  BY <1>1, <1>3
<1>5. QED
  BY <1>2, <1>3, <1>4, BeginKeeps

LEMMA BeginResolveOIDCPrincipalKeeps ==
    ASSUME IInv, NEW t \in Tx, BeginResolveOIDCPrincipal(t)
    PROVE  IInv'
<1>1. PICK p \in Principal, desired \in SUBSET Team :
        IF principals[p] = Absent
        THEN Begin(t, "provision", p, [desired |-> desired, stale |-> {}], <<>>, FALSE)
        ELSE Begin(t, "synchronize", p,
                   [desired |-> desired,
                    stale |-> {team \in Team \ desired : members[<<team, p>>] = "provider"}],
                   <<p>>, FALSE)
  BY DEF BeginResolveOIDCPrincipal
<1>2. CASE principals[p] = Absent
  <2> DEFINE value == [desired |-> desired, stale |-> {}]
             subjects == <<>>
  <2>1. value \in [desired : SUBSET Team, stale : SUBSET Team]
    OBVIOUS
  <2>2. /\ subjects \in Seq(Principal \cup Team) /\ subjects = <<>>
        /\ \A i \in 1..Len(subjects) : Exists(subjects[i])
    OBVIOUS
  <2> HIDE DEF value, subjects
  <2>3. Begin(t, "provision", p, value, subjects, FALSE)
    BY <1>1, <1>2 DEF value, subjects
  <2>4. QED
    BY <2>1, <2>2, <2>3, BeginKeeps
<1>3. CASE principals[p] # Absent
  <2> DEFINE value == [desired |-> desired,
                       stale |-> {team \in Team \ desired : members[<<team, p>>] = "provider"}]
             subjects == <<p>>
  <2>1. value \in [desired : SUBSET Team, stale : SUBSET Team]
    OBVIOUS
  <2>2. /\ subjects \in Seq(Principal \cup Team) /\ subjects = <<p>>
        /\ \A i \in 1..Len(subjects) : Exists(subjects[i])
    BY <1>3 DEF Exists
  <2> HIDE DEF value, subjects
  <2>3. Begin(t, "synchronize", p, value, subjects, FALSE)
    BY <1>1, <1>3 DEF value, subjects
  <2>4. QED
    BY <2>1, <2>2, <2>3, BeginKeeps
<1>4. QED
  BY <1>2, <1>3

-----------------------------------------------------------------------------
(* The writes                                                              *)

LEMMA UpdatePrincipalKeeps ==
    ASSUME IInv, NEW t \in Tx, UpdatePrincipal(t)
    PROVE  IInv'
<1>1. PICK p \in Principal, off \in BOOLEAN :
        /\ Start(t) /\ principals[p] # Absent /\ PrincipalFree(t, p)
        /\ Write(t, Opening("principal", <<>>, TRUE),
                 Row(p, [Bumped(principals[p]) EXCEPT !.disabled = off]), None, None)
  BY DEF UpdatePrincipal
<1> DEFINE account == [Bumped(principals[p]) EXCEPT !.disabled = off]
           subjects == <<>>
           s == Opening("principal", subjects, TRUE)
           ps == Row(p, account)
<1>2. account \in Account /\ account.generation > principals[p].generation
  <2>1. principals[p] \in Account
    BY <1>1 DEF IInv, TypeOK
  <2>2. /\ Bumped(principals[p]) \in Account
        /\ Bumped(principals[p]).generation = principals[p].generation + 1
    BY <2>1 DEF Account, Bumped
  <2>3. QED
    BY <2>1, <2>2 DEF Account
<1>3. /\ subjects \in Seq(Principal \cup Team)
      /\ \A i \in 1..Len(subjects) : Exists(subjects[i])
  OBVIOUS
<1> HIDE DEF account, subjects
<1>4. IsTransaction(s) /\ s.op = "principal" /\ s.subjects = subjects /\ s.guarded
  BY ZenonT(60), <1>3, OpeningIs
<1>5. Write(t, s, ps, None, None)
  BY <1>1 DEF account, subjects
<1>6. DOMAIN ps = {p} /\ ps[p] = account
  BY RowsAre
<1> HIDE DEF s, ps
<1>7. Writable(t, ps, None, None)
  BY <1>1, <1>2, <1>6, RowsAre DEF Writable, IsRows
<1>8. Justified(s, ps, None, None)
  BY <1>2, <1>3, <1>4, <1>6, RowsAre DEF Justified
<1>9. QED
  BY <1>1, <1>4, <1>5, <1>7, <1>8, WriteKeeps

LEMMA CreateRoleBindingKeeps ==
    ASSUME IInv, NEW t \in Tx, CreateRoleBinding(t)
    PROVE  IInv'
<1>1. PICK b \in Binding, grant \in Grant :
        /\ Start(t) /\ grant.subject \in Subjects /\ BindingFree(t, b) /\ bindings[b] = Absent
        /\ Write(t, Opening("bind", <<grant.subject>>, FALSE), None, Row(b, grant), None)
  BY DEF CreateRoleBinding
<1> DEFINE subjects == <<grant.subject>>
           s == Opening("bind", subjects, FALSE)
           bs == Row(b, grant)
<1>2. /\ subjects \in Seq(Principal \cup Team) /\ Exists(grant.subject)
      /\ \A i \in 1..Len(subjects) : Exists(subjects[i])
  BY <1>1, SubjectsExist
<1> HIDE DEF subjects
<1>3. IsTransaction(s) /\ s.op = "bind" /\ s.subjects = subjects /\ ~s.guarded
  BY <1>2, OpeningIs
<1>4. Write(t, s, None, bs, None)
  BY <1>1 DEF subjects
<1>5. DOMAIN bs = {b} /\ bs[b] = grant
  BY RowsAre
<1> HIDE DEF s, bs
<1>6. Writable(t, None, bs, None)
  BY <1>1, <1>5, RowsAre DEF Writable, IsRows
<1>7. Justified(s, None, bs, None)
  BY <1>1, <1>2, <1>3, <1>5, RowsAre DEF Justified
<1>8. QED
  BY <1>1, <1>3, <1>4, <1>6, <1>7, WriteKeeps

LEMMA PutTeamMembershipKeeps ==
    ASSUME IInv, NEW t \in Tx, PutTeamMembership(t)
    PROVE  IInv'
<1>1. PICK team \in Team, p \in Principal :
        /\ Start(t) /\ principals[p] # Absent
        /\ MemberFree(t, <<team, p>>) /\ members[<<team, p>>] = Absent
        /\ Write(t, Opening("join", <<p>>, FALSE), None, None, Row(<<team, p>>, "manual"))
  BY DEF PutTeamMembership
<1> DEFINE subjects == <<p>>
           s == Opening("join", subjects, FALSE)
           ms == Row(<<team, p>>, "manual")
<1>2. /\ subjects \in Seq(Principal \cup Team) /\ subjects = <<p>>
      /\ \A i \in 1..Len(subjects) : Exists(subjects[i])
  BY <1>1 DEF Exists
<1> HIDE DEF subjects
<1>3. IsTransaction(s) /\ s.op = "join" /\ s.subjects = subjects /\ ~s.guarded
  BY <1>2, OpeningIs
<1>4. Write(t, s, None, None, ms)
  BY <1>1 DEF subjects
<1>5. DOMAIN ms = {<<team, p>>} /\ ms[<<team, p>>] = "manual"
  BY RowsAre
<1> HIDE DEF s, ms
<1>6. Writable(t, None, None, ms)
  BY <1>1, <1>5, RowsAre DEF Writable, IsRows, Sources
<1>7. \A tm \in Team, q \in Principal : <<tm, q>> \in DOMAIN ms => q = p
  BY <1>5
<1>8. Justified(s, None, None, ms)
  BY <1>1, <1>2, <1>3, <1>5, <1>7, RowsAre DEF Justified
<1>9. QED
  BY <1>1, <1>3, <1>4, <1>6, <1>8, WriteKeeps

\* What a transaction that is about to write has read.
LEMMA BegunIs ==
    ASSUME IInv, NEW t \in Tx, tx[t].at = "begun"
    PROVE  /\ IsTransaction(tx[t]) /\ Prepared(tx[t])
           /\ \A i \in 1..Len(tx[t].subjects) : Exists(tx[t].subjects[i])
           /\ tx[t].op = "rebind" => Exists(tx[t].value.subject)
  BY DEF IInv, TypeOK, WriteInv, Sound, Grounded

LEMMA UpdateRoleBindingKeeps ==
    ASSUME IInv, NEW t \in Tx, UpdateRoleBinding(t)
    PROVE  IInv'
<1> DEFINE s == tx[t]
           bs == IF bindings[s.row] = Absent THEN None ELSE Row(s.row, s.value)
<1>1. /\ s.at = "begun" /\ s.op = "rebind" /\ UNCHANGED changes /\ BindingFree(t, s.row)
      /\ Write(t, s, None, bs, None)
  BY DEF UpdateRoleBinding, Writing
<1>2. /\ IsTransaction(s) /\ s.row \in Binding /\ s.value \in Grant /\ s.guarded
      /\ Exists(s.value.subject) /\ \A i \in 1..Len(s.subjects) : Exists(s.subjects[i])
  BY <1>1, BegunIs DEF Prepared
<1>3. \A b \in DOMAIN bs : b = s.row /\ bs[b] = s.value
  BY DEF None, Row
<1> HIDE DEF bs
<1>4. Writable(t, None, bs, None)
  BY <1>1, <1>2, <1>3, RowsAre DEF Writable, IsRows
<1>5. Justified(s, None, bs, None)
  BY <1>2, <1>3, RowsAre DEF Justified
<1>6. QED
  BY <1>1, <1>2, <1>4, <1>5, WriteKeeps

LEMMA DeleteRoleBindingKeeps ==
    ASSUME IInv, NEW t \in Tx, DeleteRoleBinding(t)
    PROVE  IInv'
<1> DEFINE s == tx[t]
           bs == Row(s.row, Absent)
<1>1. /\ s.at = "begun" /\ s.op = "unbind" /\ UNCHANGED changes /\ BindingFree(t, s.row)
      /\ Write(t, s, None, bs, None)
  BY DEF DeleteRoleBinding, Writing
<1>2. /\ IsTransaction(s) /\ s.row \in Binding /\ s.guarded
      /\ \A i \in 1..Len(s.subjects) : Exists(s.subjects[i])
  BY <1>1, BegunIs DEF Prepared
<1>3. \A b \in DOMAIN bs : b = s.row /\ bs[b] = Absent
  BY DEF Row
<1> HIDE DEF bs
<1>4. Writable(t, None, bs, None)
  BY <1>1, <1>2, <1>3, RowsAre DEF Writable, IsRows
<1>5. Justified(s, None, bs, None)
  BY <1>1, <1>2, <1>3, RowsAre DEF Justified
<1>6. QED
  BY <1>1, <1>2, <1>4, <1>5, WriteKeeps

LEMMA RemoveTeamMembershipKeeps ==
    ASSUME IInv, NEW t \in Tx, RemoveTeamMembership(t)
    PROVE  IInv'
<1> DEFINE s == tx[t]
           ms == IF members[s.row] = Absent THEN None ELSE Row(s.row, Absent)
<1>1. /\ s.at = "begun" /\ s.op = "leave" /\ UNCHANGED changes /\ MemberFree(t, s.row)
      /\ Write(t, s, None, None, ms)
  BY DEF RemoveTeamMembership, Writing
<1>2. /\ IsTransaction(s) /\ s.guarded /\ \A i \in 1..Len(s.subjects) : Exists(s.subjects[i])
      /\ \E team \in Team, p \in Principal : s.row = <<team, p>> /\ s.subjects = <<p>>
  BY <1>1, BegunIs DEF Prepared
<1>3. \A m \in DOMAIN ms : m = s.row /\ ms[m] = Absent
  BY DEF None, Row
<1> HIDE DEF ms
<1>4. Writable(t, None, None, ms)
  BY <1>1, <1>2, <1>3, RowsAre DEF Writable, IsRows
<1>5. \A team \in Team, p \in Principal :
        <<team, p>> \in DOMAIN ms => s.subjects = <<p>> /\ principals[p] # Absent
  BY <1>2, <1>3 DEF Exists
<1>6. Justified(s, None, None, ms)
  BY <1>1, <1>2, <1>5, RowsAre DEF Justified
<1>7. QED
  BY <1>1, <1>2, <1>4, <1>6, WriteKeeps

LEMMA SynchronizeOIDCMembershipsKeeps ==
    ASSUME IInv, NEW t \in Tx, SynchronizeOIDCMemberships(t)
    PROVE  IInv'
<1> DEFINE q == tx[t]
           p == q.row
           s == [q EXCEPT !.subjects = IF Differs(t) THEN @ ELSE <<>>]
           ms == Provided(t)
<1>1. /\ q.at = "begun" /\ q.op = "synchronize" /\ UNCHANGED changes
      /\ \A team \in q.value.stale \cup q.value.desired : MemberFree(t, <<team, p>>)
      /\ Write(t, s, None, None, ms)
  BY DEF SynchronizeOIDCMemberships, Writing
<1>2. /\ IsTransaction(q) /\ ~q.guarded /\ p \in Principal /\ q.subjects = <<p>>
      /\ q.value \in [desired : SUBSET Team, stale : SUBSET Team] /\ principals[p] # Absent
  <2>1. /\ IsTransaction(q) /\ ~q.guarded /\ p \in Principal /\ q.subjects = <<p>>
        /\ q.value \in [desired : SUBSET Team, stale : SUBSET Team]
        /\ \A i \in 1..Len(q.subjects) : Exists(q.subjects[i])
    BY <1>1, BegunIs DEF Prepared
  <2>2. 1 \in 1..Len(q.subjects) /\ q.subjects[1] = p
    BY <2>1
  <2>3. QED
    BY <2>1, <2>2 DEF Exists
<1>3. /\ DOMAIN s = DOMAIN Idle /\ s.at = q.at /\ s.op = q.op /\ s.row = q.row
      /\ s.value = q.value /\ s.guarded = q.guarded /\ s.principals = q.principals
      /\ s.bindings = q.bindings /\ s.members = q.members
      /\ s.subjects = IF Differs(t) THEN <<p>> ELSE <<>>
  BY <1>2 DEF IsTransaction, Idle
<1> HIDE DEF s
<1>4. /\ IsTransaction(s)
      /\ \A i \in 1..Len(s.subjects) : Exists(s.subjects[i])
  <2>1. <<p>> \in Seq(Principal \cup Team) /\ <<>> \in Seq(Principal \cup Team)
    BY <1>2
  <2>2. s.subjects \in Seq(Principal \cup Team)
    BY <1>3, <2>1
  <2>3. \A i \in 1..Len(s.subjects) : Exists(s.subjects[i])
    BY <1>2, <1>3 DEF Exists
  <2>4. QED
    BY <1>2, <1>3, <2>2, <2>3 DEF IsTransaction
<1>5. /\ DOMAIN ms = Gone(t) \cup Added(t)
      /\ \A m \in DOMAIN ms : ms[m] = IF m \in Gone(t) THEN Absent ELSE "provider"
  BY DEF Provided
<1>6. \A m \in DOMAIN ms : \E team \in q.value.stale \cup q.value.desired :
        /\ m = <<team, p>> /\ team \in Team
        /\ m \in Gone(t) \/ members[m] = Absent
  BY <1>2, <1>5 DEF Gone, Added
<1>7. DOMAIN ms # {} => s.subjects = <<p>>
  BY <1>3, <1>5 DEF Differs, Gone
<1> HIDE DEF ms
<1>8. Writable(t, None, None, ms)
  BY <1>1, <1>2, <1>5, <1>6, RowsAre DEF Writable, IsRows, Sources
<1>9. \A team \in Team, x \in Principal : <<team, x>> \in DOMAIN ms =>
        x = p /\ s.subjects = <<x>>
  BY <1>6, <1>7
<1>10. \A m \in DOMAIN ms : members[m] # Absent => ms[m] = Absent
  BY <1>5, <1>6
<1>11. Justified(s, None, None, ms)
  BY <1>1, <1>2, <1>3, <1>4, <1>9, <1>10, RowsAre DEF Justified
<1>12. QED
  BY <1>1, <1>4, <1>8, <1>11, WriteKeeps

LEMMA ProvisionOIDCPrincipalKeeps ==
    ASSUME IInv, NEW t \in Tx, ProvisionOIDCPrincipal(t)
    PROVE  IInv'
<1> DEFINE s == tx[t]
           p == s.row
           account == [disabled |-> FALSE, generation |-> 1]
           ps == Row(p, account)
           ms == [m \in s.value.desired \X {p} |-> "provider"]
<1>1. /\ s.at = "begun" /\ s.op = "provision" /\ UNCHANGED changes
      /\ PrincipalFree(t, p) /\ principals[p] = Absent
      /\ Write(t, s, ps, None, ms)
  BY DEF ProvisionOIDCPrincipal, Writing
<1>2. /\ IsTransaction(s) /\ ~s.guarded /\ p \in Principal /\ s.subjects = <<>>
      /\ s.value \in [desired : SUBSET Team, stale : SUBSET Team]
  BY <1>1, BegunIs DEF Prepared
<1>3. account \in Account
  BY DEF Account
<1> HIDE DEF account
<1>4. DOMAIN ps = {p} /\ ps[p] = account
  BY RowsAre
<1>5. /\ DOMAIN ms = s.value.desired \X {p} /\ s.value.desired \subseteq Team
      /\ \A m \in DOMAIN ms : ms[m] = "provider"
  BY <1>2
<1> HIDE DEF ps, ms
<1>6. \A m \in DOMAIN ms : members[m] = Absent
  BY <1>1, <1>2, <1>5 DEF IInv, SubjectInv
<1>7. \A m \in DOMAIN ms : MemberFree(t, m)
  <2>1. ASSUME NEW team \in Team, NEW u \in Tx, u # t, <<team, p>> \in DOMAIN tx[u].members
        PROVE  FALSE
    <3>1. principals[p] # Absent \/ p \in DOMAIN tx[u].principals
      BY <1>2, <2>1 DEF IInv, WriteInv, Sound, Grounded
    <3>2. QED
      BY <1>1, <2>1, <3>1 DEF PrincipalFree
  <2>2. QED
    BY <1>5, <2>1 DEF MemberFree
<1>8. Writable(t, ps, None, ms)
  BY <1>1, <1>2, <1>3, <1>4, <1>5, <1>7, RowsAre DEF Writable, IsRows, Sources
<1>9. \A team \in Team, x \in Principal : <<team, x>> \in DOMAIN ms => x \in DOMAIN ps
  BY <1>4, <1>5
<1>10. Justified(s, ps, None, ms)
  BY <1>1, <1>2, <1>4, <1>6, <1>9, RowsAre DEF Justified
<1>11. QED
  BY <1>1, <1>2, <1>8, <1>10, WriteKeeps

-----------------------------------------------------------------------------
(* What follows the writes                                                 *)

LEMMA TxIs ==
    ASSUME IInv, NEW t \in Tx
    PROVE  IsTransaction(tx[t]) /\ Sound(tx[t])
  BY DEF IInv, TypeOK, WriteInv

LEMMA EnsureInstallationOwnerKeeps ==
    ASSUME IInv, NEW t \in Tx, EnsureInstallationOwner(t)
    PROVE  IInv'
<1> DEFINE q == tx[t]
           n == [q EXCEPT !.at = "checked"]
<1>1. IsTransaction(q) /\ Sound(q)
  BY TxIs
<1>2. /\ DOMAIN n = DOMAIN Idle /\ n.at = "checked" /\ n.op = q.op /\ n.row = q.row
      /\ n.value = q.value /\ n.subjects = q.subjects /\ n.guarded = q.guarded
      /\ n.principals = q.principals /\ n.bindings = q.bindings /\ n.members = q.members
  BY <1>1 DEF IsTransaction, Idle
<1>3. /\ tx' = [tx EXCEPT ![t] = n] /\ q.at = "written" /\ lock = Absent /\ lock' = t
      /\ Owners(PrincipalsSeen(t), BindingsSeen(t), MembersSeen(t)) # {}
      /\ UNCHANGED <<principals, bindings, members, session, pruned, changes>>
  BY DEF EnsureInstallationOwner
<1> HIDE DEF n
<1>4. IsTransaction(n) /\ Sound(n)
  BY <1>1, <1>2 DEF IsTransaction, Sound, Grounded, Unwritten, Prepared, Advances, Moves, Adds
<1>5. \A u \in Tx : u # t => Apart(n, tx[u]) /\ Apart(tx[u], n)
  BY <1>2 DEF IInv, LockInv, Apart
<1>6. changes' \in 0..MaxChanges /\ Cardinality(InFlight') <= changes'
  <2>1. Cardinality(InFlight') = Cardinality(InFlight)
    BY <1>2, <1>3, FlightChanges
  <2>2. QED
    BY <1>3, <2>1 DEF IInv, TypeOK, ChangesInv
<1>7. Owners(Over(n.principals, principals), Over(n.bindings, bindings),
             Over(n.members, members)) # {}
  BY <1>2, <1>3 DEF PrincipalsSeen, BindingsSeen, MembersSeen
<1>8. QED
  BY <1>3, <1>4, <1>5, <1>6, <1>7, StatementKeeps

LEMMA AffectedExist ==
    ASSUME IInv, NEW t \in Tx, tx[t].subjects # <<>>,
           NEW p \in Affected(t, Head(tx[t].subjects))
    PROVE  p \in Principal /\ PrincipalsSeen(t)[p] \in Account
<1> DEFINE q == tx[t]
           subject == Head(q.subjects)
<1>1. IsTransaction(q) /\ Sound(q)
  BY TxIs
<1>2. /\ subject \in Principal \cup Team
      /\ Exists(subject)
  <2>1. q.subjects \in Seq(Principal \cup Team) /\ q.subjects # <<>>
    BY <1>1 DEF IsTransaction
  <2>2. 1 \in 1..Len(q.subjects) /\ subject = q.subjects[1] /\ subject \in Principal \cup Team
    BY <2>1
  <2>3. QED
    BY <1>1, <2>2 DEF Sound, Grounded
<1>3. p \in Principal /\ (principals[p] # Absent \/ p \in DOMAIN q.principals)
  <2>1. CASE subject \in Principal
    BY <1>2, <2>1 DEF Affected, Exists
  <2>2. CASE subject \notin Principal
    <3>1. p \in Principal /\ subject \in Team /\ MembersSeen(t)[<<subject, p>>] # Absent
      BY <1>2, <2>2 DEF Affected
    <3>2. <<subject, p>> \in DOMAIN q.members \/ members[<<subject, p>>] # Absent
      BY <3>1, SeenIs DEF IInv
    <3>3. QED
      BY <1>1, <3>1, <3>2 DEF IInv, SubjectInv, Sound, Grounded
  <2>3. QED
    BY <2>1, <2>2
<1>4. QED
  BY <1>1, <1>3, SeenIs DEF IInv, TypeOK, IsTransaction, IsRows

LEMMA InvalidateBindingSubjectKeeps ==
    ASSUME IInv, NEW t \in Tx, InvalidateBindingSubject(t)
    PROVE  IInv'
<1> DEFINE q == tx[t]
           affected == Affected(t, Head(q.subjects))
           seen == PrincipalsSeen(t)
           ps == Over([p \in affected |-> Bumped(seen[p])], q.principals)
           n == [q EXCEPT !.subjects = Tail(@), !.principals = ps]
<1>1. IsTransaction(q) /\ Sound(q)
  BY TxIs
<1>2. /\ q.at = "checked" /\ q.subjects # <<>> /\ \A p \in affected : PrincipalFree(t, p)
      /\ UNCHANGED <<principals, bindings, members, lock, session, pruned, changes>>
  BY DEF InvalidateBindingSubject
<1>3. /\ DOMAIN n = DOMAIN Idle /\ n.at = "checked" /\ n.op = q.op /\ n.row = q.row
      /\ n.value = q.value /\ n.subjects = Tail(q.subjects) /\ n.guarded = q.guarded
      /\ n.principals = ps /\ n.bindings = q.bindings /\ n.members = q.members
  BY <1>1, <1>2 DEF IsTransaction, Idle
<1>4. tx' = [tx EXCEPT ![t] = n]
  BY DEF InvalidateBindingSubject
<1>5. /\ DOMAIN ps = affected \cup DOMAIN q.principals
      /\ \A p \in affected : ps[p] = Bumped(seen[p])
      /\ \A p \in DOMAIN q.principals : p \notin affected => ps[p] = q.principals[p]
  BY DEF Over
<1> HIDE DEF n, ps
<1>6. \A p \in affected : p \in Principal /\ seen[p] \in Account
  BY <1>2, AffectedExist
<1>7. \A p \in affected :
        /\ Bumped(seen[p]) \in Account /\ Bumped(seen[p]).disabled = seen[p].disabled
        /\ Bumped(seen[p]).generation = seen[p].generation + 1
  BY <1>6 DEF Bumped, Account
<1>8. \A p \in Principal :
        seen[p] = IF p \in DOMAIN q.principals THEN q.principals[p] ELSE principals[p]
  BY SeenIs DEF IInv
<1> HIDE DEF seen, affected
<1>9. /\ Tail(q.subjects) \in Seq(Principal \cup Team)
      /\ \A i \in 1..Len(Tail(q.subjects)) :
           i + 1 \in 1..Len(q.subjects) /\ Tail(q.subjects)[i] = q.subjects[i + 1]
  BY <1>1, <1>2, HeadTailProperties DEF IsTransaction
<1>10. IsTransaction(n)
  BY <1>1, <1>3, <1>5, <1>6, <1>7, <1>9 DEF IsTransaction, IsRows
<1>11. Sound(n)
  <2>1. Grounded(n)
    BY <1>1, <1>3, <1>5, <1>9 DEF Sound, Grounded
  <2>2. Unwritten(n) /\ Prepared(n)
    BY <1>3 DEF Unwritten, Prepared
  <2>3. Advances(n)
    <3>1. \A p \in affected : principals[p] # Absent => ps[p].generation > principals[p].generation
      <4>1. SUFFICES ASSUME NEW p \in affected, principals[p] # Absent
                     PROVE  seen[p].generation + 1 > principals[p].generation
        BY <1>5, <1>7
      <4>2. p \in Principal /\ seen[p] \in Account /\ principals[p] \in Account
        BY <1>6, <4>1 DEF IInv, TypeOK
      <4>3. seen[p].generation >= principals[p].generation
        BY <1>1, <1>8, <4>1, <4>2 DEF Sound, Advances, Account, IsTransaction, IsRows
      <4>4. QED
        BY <4>2, <4>3 DEF Account
    <3>2. QED
      BY <1>1, <1>3, <1>5, <3>1 DEF Sound, Advances
  <2>4. Moves(n)
    <3>1. SUFFICES ASSUME NEW team \in Team, NEW p \in Principal, <<team, p>> \in DOMAIN q.members
                   PROVE  p \in DOMAIN ps
      BY <1>3 DEF Moves
    <3>2. CASE p \in DOMAIN q.principals
      BY <1>5, <3>2
    <3>3. CASE q.subjects = <<p>>
      BY <1>5, <3>3 DEF affected, Affected
    <3>4. p \in DOMAIN q.principals \/ q.subjects = <<p>>
      BY <1>1, <3>1 DEF Sound, Moves
    <3>5. QED
      BY <3>2, <3>3, <3>4
  <2>5. Adds(n)
    <3>1. ~q.guarded => \A p \in affected : principals[p] # Absent =>
            ps[p].disabled = principals[p].disabled
      BY <1>1, <1>5, <1>6, <1>7, <1>8 DEF Sound, Adds
    <3>2. QED
      BY <1>1, <1>3, <1>5, <3>1 DEF Sound, Adds
  <2>6. QED
    BY <2>1, <2>2, <2>3, <2>4, <2>5 DEF Sound
<1>12. \A u \in Tx : u # t => Apart(n, tx[u]) /\ Apart(tx[u], n)
  BY <1>2, <1>3, <1>5 DEF IInv, LockInv, Apart, PrincipalFree
<1>13. changes' \in 0..MaxChanges /\ Cardinality(InFlight') <= changes'
  <2>1. Cardinality(InFlight') = Cardinality(InFlight)
    BY <1>2, <1>3, <1>4, FlightChanges
  <2>2. QED
    BY <1>2, <2>1 DEF IInv, TypeOK, ChangesInv
<1>14. n.guarded =>
         /\ lock' = t
         /\ pruned \/ Owners(Over(n.principals, principals), Over(n.bindings, bindings),
                             Over(n.members, members)) # {}
  <2>1. Grows(PrincipalsSeen(t), BindingsSeen(t), MembersSeen(t),
              Over(n.principals, principals), Over(n.bindings, bindings),
              Over(n.members, members))
    <3>1. \A p \in Principal : seen[p] # Absent /\ ~seen[p].disabled =>
            /\ Over(n.principals, principals)[p] # Absent
            /\ ~Over(n.principals, principals)[p].disabled
      <4>1. SUFFICES ASSUME NEW p \in Principal, seen[p] # Absent, ~seen[p].disabled
                     PROVE  /\ Over(ps, principals)[p] # Absent
                            /\ ~Over(ps, principals)[p].disabled
        BY <1>3
      <4>2. Over(ps, principals)[p] = IF p \in DOMAIN ps THEN ps[p] ELSE principals[p]
        BY DEF IInv, TypeOK, Over
      <4>3. CASE p \in affected
        BY <1>5, <1>7, <4>1, <4>2, <4>3, AccessAssumption
      <4>4. CASE p \notin affected
        BY <1>5, <1>8, <4>1, <4>2, <4>4
      <4>5. QED
        BY <4>3, <4>4
    <3>2. QED
      BY <1>3, <3>1 DEF Grows, seen, BindingsSeen, MembersSeen
  <2>2. Owners(PrincipalsSeen(t), BindingsSeen(t), MembersSeen(t)) \subseteq
          Owners(Over(n.principals, principals), Over(n.bindings, bindings),
                 Over(n.members, members))
    BY <2>1, OwnersGrow
  <2>3. q.guarded =>
          /\ lock = t
          /\ pruned \/ Owners(PrincipalsSeen(t), BindingsSeen(t), MembersSeen(t)) # {}
    BY <1>2 DEF IInv, CountInv
  <2>4. QED
    BY <1>2, <1>3, <2>2, <2>3
<1>15. QED
  BY <1>2, <1>3, <1>4, <1>10, <1>11, <1>12, <1>13, <1>14, StatementKeeps

LEMMA IdleIs ==
    /\ DOMAIN Idle.principals = {} /\ DOMAIN Idle.bindings = {} /\ DOMAIN Idle.members = {}
    /\ Idle.at = "idle" /\ ~Idle.guarded /\ Idle.op = "none" /\ Idle.subjects = <<>>
    /\ IsTransaction(Idle) /\ Sound(Idle)
<1>1. /\ Idle.at = "idle" /\ Idle.op = "none" /\ Idle.row = Absent /\ Idle.value = Absent
      /\ Idle.subjects = <<>> /\ Idle.guarded = FALSE
      /\ Idle.principals = None /\ Idle.bindings = None /\ Idle.members = None
  BY DEF Idle
<1>2. IsTransaction(Idle)
  <2>1. <<>> \in Seq(Principal \cup Team)
    OBVIOUS
  <2>2. QED
    BY <1>1, <2>1, RowsAre DEF IsTransaction, IsRows
<1>3. Sound(Idle)
  BY <1>1, RowsAre DEF Sound, Grounded, Unwritten, Prepared, Advances, Moves, Adds
<1>4. QED
  BY <1>1, <1>2, <1>3, RowsAre

LEMMA RollbackKeeps ==
    ASSUME IInv, NEW t \in Tx, Rollback(t)
    PROVE  IInv'
<1>1. /\ tx[t].at # "idle" /\ tx' = [tx EXCEPT ![t] = Idle] /\ changes' = changes - 1
      /\ lock' = lock \/ (lock = t /\ lock' = Absent)
      /\ UNCHANGED <<principals, bindings, members, session, pruned>>
  BY DEF Rollback, Unlock
<1>2. changes' \in 0..MaxChanges /\ Cardinality(InFlight') <= changes'
  <2>1. /\ Cardinality(InFlight') = Cardinality(InFlight) - 1
        /\ Cardinality(InFlight) \in Nat /\ Cardinality(InFlight) >= 1
    BY <1>1, IdleIs, FlightChanges
  <2>2. /\ Cardinality(InFlight) <= changes /\ changes \in Nat /\ MaxChanges \in Nat
        /\ changes <= MaxChanges
    BY AccessAssumption DEF IInv, TypeOK, ChangesInv
  <2>3. QED
    BY <1>1, <2>1, <2>2
<1>3. \A u \in Tx : u # t => Apart(Idle, tx[u]) /\ Apart(tx[u], Idle)
  BY IdleIs DEF Apart
<1>4. QED
  BY <1>1, <1>2, <1>3, IdleIs, StatementKeeps

-----------------------------------------------------------------------------
(* The commit                                                              *)

\* The tables after a commit are what the transaction saw.
LEMMA CommitIs ==
    ASSUME IInv, NEW t \in Tx, Commit(t)
    PROVE  /\ tx[t].at = "checked" /\ tx[t].subjects = <<>>
           /\ IsTransaction(tx[t]) /\ Sound(tx[t])
           /\ DOMAIN tx' = Tx /\ tx'[t] = Idle
           /\ \A u \in Tx : u # t => tx'[u] = tx[u] /\ Apart(tx[t], tx[u])
           /\ \A p \in Principal : principals'[p] =
                IF p \in DOMAIN tx[t].principals THEN tx[t].principals[p] ELSE principals[p]
           /\ \A b \in Binding : bindings'[b] =
                IF b \in DOMAIN tx[t].bindings THEN tx[t].bindings[b] ELSE bindings[b]
           /\ \A m \in Team \X Principal : members'[m] =
                IF m \in DOMAIN tx[t].members THEN tx[t].members[m] ELSE members[m]
           /\ \A p \in Principal : principals[p] # Absent =>
                principals'[p] # Absent /\ principals'[p].generation >= principals[p].generation
           /\ pruned => pruned'
           /\ UNCHANGED <<session, changes>>
<1>1. IsTransaction(tx[t]) /\ Sound(tx[t])
  BY TxIs
<1>2. /\ tx[t].at = "checked" /\ tx[t].subjects = <<>>
      /\ pruned => pruned'
      /\ DOMAIN tx' = Tx /\ tx'[t] = Idle /\ UNCHANGED <<session, changes>>
      /\ \A u \in Tx : u # t => tx'[u] = tx[u] /\ Apart(tx[t], tx[u])
  BY DEF IInv, TypeOK, LockInv, Commit
<1>3. /\ \A p \in Principal : principals'[p] =
           IF p \in DOMAIN tx[t].principals THEN tx[t].principals[p] ELSE principals[p]
      /\ \A b \in Binding : bindings'[b] =
           IF b \in DOMAIN tx[t].bindings THEN tx[t].bindings[b] ELSE bindings[b]
      /\ \A m \in Team \X Principal : members'[m] =
           IF m \in DOMAIN tx[t].members THEN tx[t].members[m] ELSE members[m]
  BY SeenIs DEF IInv, Commit
<1>4. ASSUME NEW p \in Principal, principals[p] # Absent
      PROVE  principals'[p] # Absent /\ principals'[p].generation >= principals[p].generation
  <2>1. principals[p] \in Account
    BY <1>4 DEF IInv, TypeOK
  <2>2. CASE p \in DOMAIN tx[t].principals
    <3>1. tx[t].principals[p] \in Account
      BY <1>1, <2>2 DEF IsTransaction, IsRows
    <3>2. tx[t].principals[p].generation > principals[p].generation
      BY <1>1, <1>4, <2>2 DEF Sound, Advances
    <3>3. QED
      BY <1>3, <2>1, <2>2, <3>1, <3>2, AccessAssumption DEF Account
  <2>3. CASE p \notin DOMAIN tx[t].principals
    BY <1>3, <1>4, <2>1, <2>3 DEF Account
  <2>4. QED
    BY <2>2, <2>3
<1>5. QED
  BY <1>1, <1>2, <1>3, <1>4

\* A commit that was not guarded took nothing away, or a provider did.
LEMMA CommitAdds ==
    ASSUME IInv, NEW t \in Tx, Commit(t), ~tx[t].guarded, ~pruned'
    PROVE  /\ ~pruned
           /\ \A p \in Principal : principals[p] # Absent =>
                principals'[p] # Absent /\ principals'[p].disabled = principals[p].disabled
           /\ \A b \in Binding : bindings[b] # Absent =>
                bindings'[b] = bindings[b] /\ b \notin DOMAIN tx[t].bindings
           /\ \A m \in Team \X Principal : members[m] # Absent =>
                members'[m] = members[m] /\ m \notin DOMAIN tx[t].members
<1>1. Adds(tx[t])
  BY CommitIs DEF Sound
<1>2. ~pruned /\ \A m \in DOMAIN tx[t].members :
                   ~(tx[t].op = "synchronize" /\ tx[t].members[m] = Absent)
  BY DEF Commit
<1>3. \A m \in DOMAIN tx[t].members : members[m] = Absent
  BY <1>1, <1>2 DEF Adds
<1>4. \A b \in DOMAIN tx[t].bindings : bindings[b] = Absent
  BY <1>1 DEF Adds
<1>5. \A p \in Principal : principals[p] # Absent =>
        principals'[p] # Absent /\ principals'[p].disabled = principals[p].disabled
  BY <1>1, CommitIs DEF Adds
<1>6. QED
  BY <1>2, <1>3, <1>4, <1>5, CommitIs

LEMMA CommitKeepsOwner ==
    ASSUME IInv, NEW t \in Tx, Commit(t)
    PROVE  OwnerRemains'
<1>1. CASE pruned'
  BY <1>1 DEF OwnerRemains
<1>2. CASE ~pruned' /\ tx[t].guarded
  BY <1>2, CommitIs DEF IInv, CountInv, OwnerRemains, Commit
<1>3. CASE ~pruned' /\ ~tx[t].guarded
  <2>1. Grows(principals, bindings, members, principals', bindings', members')
    BY <1>3, CommitAdds DEF Grows
  <2>2. Owners(principals, bindings, members) # {}
    BY <1>3, CommitAdds DEF IInv, OwnerRemains
  <2>3. Owners(principals', bindings', members') # {}
    BY <2>1, <2>2, OwnersGrow
  <2>4. QED
    BY <2>3 DEF OwnerRemains, Owners
<1>4. QED
  BY <1>1, <1>2, <1>3

LEMMA CommitKeepsCount ==
    ASSUME IInv, NEW t \in Tx, Commit(t)
    PROVE  CountInv'
<1>1. SUFFICES ASSUME NEW u \in Tx, tx'[u].at = "checked", tx'[u].guarded
               PROVE  /\ lock' = u
                      /\ \/ pruned'
                         \/ Owners(PrincipalsSeen(u)', BindingsSeen(u)', MembersSeen(u)') # {}
  BY DEF CountInv
<1>2. u # t /\ tx'[u] = tx[u]
  BY <1>1, CommitIs, IdleIs
<1>3. /\ lock = u /\ lock' = u
      /\ pruned \/ Owners(PrincipalsSeen(u), BindingsSeen(u), MembersSeen(u)) # {}
  BY <1>1, <1>2 DEF IInv, CountInv, Commit, Unlock
<1>4. ~tx[t].guarded
  BY <1>2, <1>3, CommitIs DEF IInv, CountInv
<1>5. CASE pruned'
  BY <1>3, <1>5
<1>6. CASE ~pruned'
  <2>1. Owners(PrincipalsSeen(u), BindingsSeen(u), MembersSeen(u)) # {}
    BY <1>3, <1>4, <1>6, CommitAdds
  <2>2. IsTransaction(tx[u])
    BY TxIs
  <2>3. /\ \A p \in Principal : PrincipalsSeen(u)'[p] =
             IF p \in DOMAIN tx[u].principals THEN tx[u].principals[p] ELSE principals'[p]
        /\ \A b \in Binding : BindingsSeen(u)'[b] =
             IF b \in DOMAIN tx[u].bindings THEN tx[u].bindings[b] ELSE bindings'[b]
        /\ \A m \in Team \X Principal : MembersSeen(u)'[m] =
             IF m \in DOMAIN tx[u].members THEN tx[u].members[m] ELSE members'[m]
    <3>1. /\ DOMAIN principals' = Principal /\ DOMAIN bindings' = Binding
          /\ DOMAIN members' = Team \X Principal
      BY SeenIs DEF IInv, Commit
    <3>2. QED
      BY <1>2, <3>1 DEF PrincipalsSeen, BindingsSeen, MembersSeen, Over
  <2>4. Grows(PrincipalsSeen(u), BindingsSeen(u), MembersSeen(u),
              PrincipalsSeen(u)', BindingsSeen(u)', MembersSeen(u)')
    <3>1. \A p \in Principal : PrincipalsSeen(u)[p] # Absent /\ ~PrincipalsSeen(u)[p].disabled =>
            PrincipalsSeen(u)'[p] # Absent /\ ~PrincipalsSeen(u)'[p].disabled
      BY <1>4, <1>6, <2>3, SeenIs, CommitAdds DEF IInv
    <3>2. \A b \in Binding : BindingsSeen(u)[b] # Absent =>
            BindingsSeen(u)'[b] = BindingsSeen(u)[b]
      BY <1>4, <1>6, <2>3, SeenIs, CommitAdds DEF IInv
    <3>3. \A m \in Team \X Principal : MembersSeen(u)[m] # Absent =>
            MembersSeen(u)'[m] # Absent
      BY <1>4, <1>6, <2>3, SeenIs, CommitAdds DEF IInv
    <3>4. QED
      BY <3>1, <3>2, <3>3 DEF Grows
  <2>5. QED
    BY <1>3, <2>1, <2>4, OwnersGrow
<1>7. QED
  BY <1>5, <1>6

LEMMA CommitKeepsSessions ==
    ASSUME IInv, NEW t \in Tx, Commit(t)
    PROVE  /\ SessionInv' /\ SessionKnowsItsTeams'
           /\ session # Absent /\ ~SessionValid => ~SessionValid'
<1>1. CASE session = Absent
  BY <1>1, CommitIs DEF SessionInv, SessionKnowsItsTeams, SessionValid
<1>2. CASE session # Absent
  <2> DEFINE p == session.principal
  <2>1. /\ p \in Principal /\ session.generation \in Nat /\ session' = session
        /\ principals[p] # Absent /\ principals[p] \in Account
        /\ session.generation <= principals[p].generation
    BY <1>2, CommitIs DEF IInv, TypeOK, SessionInv, Sessions
  <2>2. principals'[p] # Absent /\ principals'[p].generation >= principals[p].generation
    BY <2>1, CommitIs
  <2>3. CASE p \in DOMAIN tx[t].principals
    <3>1. /\ principals'[p] = tx[t].principals[p] /\ principals'[p] \in Account
          /\ principals'[p].generation > principals[p].generation
      BY <2>1, <2>3, CommitIs DEF IsTransaction, IsRows, Sound, Advances
    <3>2. principals'[p].generation # session.generation
      BY <2>1, <3>1 DEF Account
    <3>3. ~SessionValid'
      BY <2>1, <3>2 DEF SessionValid
    <3>4. SessionInv'
      BY <1>2, <2>1, <2>2, <3>1 DEF SessionInv, Account
    <3>5. QED
      BY <3>3, <3>4 DEF SessionKnowsItsTeams
  <2>4. CASE p \notin DOMAIN tx[t].principals
    <3>1. principals'[p] = principals[p]
      BY <2>1, <2>4, CommitIs
    <3>2. \A team \in Team : <<team, p>> \notin DOMAIN tx[t].members
      BY <2>1, <2>4, CommitIs DEF Sound, Moves
    <3>3. TeamsOf(p)' = TeamsOf(p)
      BY <2>1, <3>2, CommitIs DEF TeamsOf
    <3>4. SessionValid' = SessionValid
      BY <1>2, <2>1, <3>1 DEF SessionValid
    <3>5. QED
      BY <1>2, <2>1, <3>1, <3>3, <3>4 DEF IInv, SessionInv, SessionKnowsItsTeams
  <2>5. QED
    BY <2>3, <2>4
<1>3. QED
  BY <1>1, <1>2

LEMMA CommitKeeps ==
    ASSUME IInv, NEW t \in Tx, Commit(t)
    PROVE  IInv'
<1> DEFINE q == tx[t]
<1>t. /\ q.at = "checked" /\ q.subjects = <<>> /\ IsTransaction(q) /\ Sound(q)
      /\ DOMAIN tx' = Tx /\ tx'[t] = Idle
      /\ \A u \in Tx : u # t => tx'[u] = tx[u] /\ Apart(tx[t], tx[u])
      /\ pruned => pruned'
      /\ UNCHANGED <<session, changes>>
  BY CommitIs
<1>e. \A x : Exists(x) => Exists(x)'
  BY CommitIs DEF Exists
<1>3. TypeOK'
  <2>1. /\ principals' \in [Principal -> Account \cup {Absent}]
        /\ bindings' \in [Binding -> Grant \cup {Absent}]
        /\ members' \in [Team \X Principal -> Sources \cup {Absent}]
    BY SeenIs DEF IInv, Commit
  <2>2. \A u \in Tx : IsTransaction(tx'[u])
    BY <1>t, IdleIs, TxIs
  <2>3. lock' \in Tx \cup {Absent} /\ pruned' \in BOOLEAN
    BY DEF IInv, TypeOK, Commit, Unlock
  <2>4. QED
    BY <1>t, <2>1, <2>2, <2>3 DEF IInv, TypeOK, IsTransaction, IsRows
<1>4. ChangesInv'
  <2>1. /\ Cardinality(InFlight') = Cardinality(InFlight) - 1
        /\ Cardinality(InFlight) \in Nat
    BY <1>t, IdleIs, FlightChanges DEF Commit
  <2>2. QED
    BY <1>t, <2>1 DEF IInv, TypeOK, ChangesInv
<1>5. LockInv'
  BY <1>t, IdleIs DEF IInv, LockInv, Apart
<1>6. SubjectInv'
  <2>1. \A b \in Binding : bindings'[b] # Absent => Exists(bindings'[b].subject)
    BY CommitIs DEF IInv, SubjectInv, Sound, Grounded
  <2>2. \A team \in Team, p \in Principal :
          members'[<<team, p>>] # Absent => principals'[p] # Absent
    <3>1. SUFFICES ASSUME NEW team \in Team, NEW p \in Principal,
                          members'[<<team, p>>] # Absent, principals[p] = Absent
                   PROVE  principals'[p] # Absent
      BY CommitIs
    <3>2. <<team, p>> \in DOMAIN q.members
      BY <3>1, CommitIs DEF IInv, SubjectInv
    <3>3. p \in DOMAIN q.principals
      BY <1>t, <3>1, <3>2 DEF Sound, Grounded
    <3>4. QED
      BY <1>t, <3>3, CommitIs, AccessAssumption DEF IsTransaction, IsRows
  <2>3. QED
    BY <1>e, <2>1, <2>2 DEF SubjectInv
<1>7. WriteInv'
  <2>1. Sound(tx[t])'
    BY <1>t, IdleIs DEF Sound, Grounded, Unwritten, Prepared, Advances, Moves, Adds
  <2>2. SUFFICES ASSUME NEW u \in Tx, u # t PROVE Sound(tx[u])'
    BY <2>1 DEF WriteInv
  <2> DEFINE r == tx[u]
  <2>3. /\ tx'[u] = r /\ Sound(r) /\ IsTransaction(r)
        /\ \A p \in DOMAIN r.principals : p \in Principal /\ principals'[p] = principals[p]
        /\ \A b \in DOMAIN r.bindings : b \in Binding /\ bindings'[b] = bindings[b]
        /\ \A m \in DOMAIN r.members : m \in Team \X Principal /\ members'[m] = members[m]
    BY <1>t, <2>2, TxIs, CommitIs DEF Apart, IsTransaction, IsRows
  <2>4. Grounded(tx[u])'
    <3>1. \A p \in Principal : principals[p] # Absent => principals'[p] # Absent
      BY CommitIs
    <3>2. QED
      BY <1>e, <2>3, <3>1 DEF Sound, Grounded
  <2>5. Unwritten(tx[u])' /\ Prepared(tx[u])' /\ Moves(tx[u])'
    BY <2>3 DEF Sound, Unwritten, Prepared, Moves
  <2>6. Advances(tx[u])' /\ Adds(tx[u])'
    BY <2>3 DEF Sound, Advances, Adds
  <2>7. QED
    BY <2>4, <2>5, <2>6 DEF Sound
<1>8. QED
  BY <1>3, <1>4, <1>5, <1>6, <1>7, CommitKeepsCount, CommitKeepsSessions, CommitKeepsOwner
     DEF IInv

-----------------------------------------------------------------------------
(* One statement, and the sessions                                         *)

LEMMA CreatePrincipalKeeps ==
    ASSUME IInv, NEW p \in Principal, CreatePrincipal(p)
    PROVE  IInv'
<1> DEFINE account == [disabled |-> FALSE, generation |-> 1]
<1>a. account \in Account
  BY DEF Account
<1> HIDE DEF account
<1>2. /\ principals[p] = Absent /\ \A t \in Tx : p \notin DOMAIN tx[t].principals
      /\ principals' \in [Principal -> Account \cup {Absent}]
      /\ principals'[p] = account /\ principals'[p] # Absent
      /\ \A x \in Principal : x # p => principals'[x] = principals[x]
      /\ UNCHANGED <<bindings, members, tx, lock, session, pruned, changes>>
  BY <1>a, AccessAssumption DEF IInv, TypeOK, CreatePrincipal, account
<1>3. \A x : Exists(x) => Exists(x)'
  BY <1>2 DEF Exists
<1>4. TypeOK'
  BY <1>2 DEF IInv, TypeOK, IsTransaction, IsRows
<1>5. ChangesInv' /\ LockInv'
  BY <1>2 DEF IInv, ChangesInv, InFlight, LockInv, Apart
<1>6. SubjectInv'
  BY <1>2, <1>3 DEF IInv, SubjectInv
<1>7. WriteInv'
  <2>1. SUFFICES ASSUME NEW t \in Tx PROVE Sound(tx[t])'
    BY DEF WriteInv
  <2>2. /\ Sound(tx[t]) /\ tx' = tx
        /\ \A x \in DOMAIN tx[t].principals : x \in Principal /\ principals'[x] = principals[x]
        /\ \A x \in Principal : principals[x] # Absent => principals'[x] # Absent
    BY <1>2, TxIs DEF IsTransaction, IsRows
  <2>3. Grounded(tx[t])'
    BY <1>3, <2>2 DEF Sound, Grounded
  <2>4. Unwritten(tx[t])' /\ Prepared(tx[t])' /\ Moves(tx[t])'
    BY <2>2 DEF Sound, Unwritten, Prepared, Moves
  <2>5. Advances(tx[t])' /\ Adds(tx[t])'
    BY <1>2, <2>2 DEF Sound, Advances, Adds
  <2>6. QED
    BY <2>3, <2>4, <2>5 DEF Sound
<1>8. CountInv'
  <2>1. SUFFICES ASSUME NEW t \in Tx, tx[t].at = "checked", tx[t].guarded
                 PROVE  /\ lock = t
                        /\ \/ pruned
                           \/ Owners(PrincipalsSeen(t)', BindingsSeen(t), MembersSeen(t)) # {}
    BY <1>2 DEF CountInv, BindingsSeen, MembersSeen
  <2>2. \A x \in Principal : PrincipalsSeen(t)[x] # Absent =>
          PrincipalsSeen(t)'[x] = PrincipalsSeen(t)[x]
    BY <1>2 DEF IInv, TypeOK, PrincipalsSeen, Over
  <2>3. Grows(PrincipalsSeen(t), BindingsSeen(t), MembersSeen(t),
              PrincipalsSeen(t)', BindingsSeen(t), MembersSeen(t))
    BY <2>2 DEF Grows
  <2>4. QED
    BY <2>1, <2>3, OwnersGrow DEF IInv, CountInv
<1>9. OwnerRemains'
  <2>1. Grows(principals, bindings, members, principals', bindings, members)
    BY <1>2 DEF Grows
  <2>2. Owners(principals, bindings, members) \subseteq Owners(principals', bindings, members)
    BY <2>1, OwnersGrow
  <2>3. QED
    BY <1>2, <2>2 DEF IInv, OwnerRemains, Owners
<1>10. SessionInv' /\ SessionKnowsItsTeams'
  BY <1>2 DEF IInv, TypeOK, Sessions, SessionInv, SessionKnowsItsTeams, SessionValid, TeamsOf
<1>11. QED
  BY <1>4, <1>5, <1>6, <1>7, <1>8, <1>9, <1>10 DEF IInv

LEMMA CreateBrowserSessionKeeps ==
    ASSUME IInv, NEW p \in Principal, CreateBrowserSession(p)
    PROVE  IInv'
<1>1. /\ principals[p] # Absent /\ session' \in Sessions /\ session'.principal = p
      /\ session'.generation = principals[p].generation /\ session'.teams = TeamsOf(p)
      /\ UNCHANGED <<principals, bindings, members, tx, lock, pruned, changes>>
  BY DEF IInv, TypeOK, Account, Sessions, TeamsOf, CreateBrowserSession
<1>2. TypeOK' /\ ChangesInv' /\ LockInv' /\ SubjectInv'
  BY <1>1 DEF IInv, TypeOK, IsTransaction, IsRows, ChangesInv, InFlight, LockInv, Apart,
     SubjectInv, Exists
<1>3. WriteInv'
  BY <1>1 DEF IInv, WriteInv, Sound, Grounded, Exists, Unwritten, Prepared, Advances, Moves, Adds
<1>4. CountInv' /\ OwnerRemains'
  BY <1>1 DEF IInv, CountInv, OwnerRemains, Owners, PrincipalsSeen, BindingsSeen, MembersSeen
<1>5. SessionInv' /\ SessionKnowsItsTeams'
  <2>1. principals[p].generation \in Nat
    BY <1>1 DEF IInv, TypeOK, Account
  <2>2. QED
    BY <1>1, <2>1 DEF SessionInv, SessionKnowsItsTeams, TeamsOf
<1>6. QED
  BY <1>2, <1>3, <1>4, <1>5 DEF IInv

-----------------------------------------------------------------------------
(* Every step                                                              *)

LEMMA StutterKeeps ==
    ASSUME IInv, UNCHANGED vars
    PROVE  IInv'
<1>1. TypeOK' /\ ChangesInv' /\ LockInv' /\ SubjectInv'
  BY DEF vars, IInv, TypeOK, IsTransaction, IsRows, ChangesInv, InFlight, LockInv, Apart,
     SubjectInv, Exists
<1>2. WriteInv'
  BY DEF vars, IInv, WriteInv, Sound, Grounded, Exists, Unwritten, Prepared, Advances, Moves, Adds
<1>3. CountInv' /\ OwnerRemains'
  BY DEF vars, IInv, CountInv, OwnerRemains, Owners, PrincipalsSeen, BindingsSeen, MembersSeen
<1>4. SessionInv' /\ SessionKnowsItsTeams'
  BY DEF vars, IInv, SessionInv, SessionKnowsItsTeams, SessionValid, TeamsOf
<1>5. QED
  BY <1>1, <1>2, <1>3, <1>4 DEF IInv

LEMMA InitHolds == Init => IInv
<1> SUFFICES ASSUME Init PROVE IInv
  OBVIOUS
<1>1. PICK owner \in Principal, b \in Binding :
        /\ principals = [p \in Principal |->
                           IF p = owner THEN [disabled |-> FALSE, generation |-> 1] ELSE Absent]
        /\ bindings = [x \in Binding |->
                         IF x = b THEN [subject |-> owner, owner |-> TRUE] ELSE Absent]
  BY DEF Init
<1>2. /\ members = [m \in Team \X Principal |-> Absent] /\ tx = [t \in Tx |-> Idle]
      /\ lock = Absent /\ session = Absent /\ pruned = FALSE /\ changes = 0
  BY DEF Init
<1>3. /\ [disabled |-> FALSE, generation |-> 1] \in Account
      /\ [subject |-> owner, owner |-> TRUE] \in Grant
  BY DEF Account, Grant
<1>4. \A t \in Tx : tx[t] = Idle
  BY <1>2
<1>5. TypeOK
  <2>1. principals \in [Principal -> Account \cup {Absent}]
    BY <1>1, <1>3
  <2>2. bindings \in [Binding -> Grant \cup {Absent}]
    BY <1>1, <1>3
  <2>3. members \in [Team \X Principal -> Sources \cup {Absent}]
    BY <1>2
  <2>4. DOMAIN tx = Tx /\ \A t \in Tx : IsTransaction(tx[t])
    BY <1>2, <1>4, IdleIs
  <2>5. changes \in 0..MaxChanges
    BY <1>2, AccessAssumption
  <2>6. lock \in Tx \cup {Absent} /\ pruned \in BOOLEAN /\ session \in Sessions \cup {Absent}
    BY <1>2
  <2>7. QED
    BY <2>1, <2>2, <2>3, <2>4, <2>5, <2>6 DEF TypeOK
<1>6. ChangesInv
  <2>1. InFlight = {}
    BY <1>4, IdleIs DEF InFlight
  <2>2. QED
    BY <1>2, <2>1, FS_EmptySet DEF ChangesInv
<1>7. LockInv /\ WriteInv /\ CountInv
  BY <1>4, IdleIs DEF LockInv, Apart, WriteInv, CountInv
<1>8. /\ principals[owner] # Absent /\ ~principals[owner].disabled
      /\ bindings[b] # Absent /\ bindings[b].owner /\ bindings[b].subject = owner
      /\ \A x \in Binding : x # b => bindings[x] = Absent
  BY <1>1, <1>3, AccessAssumption
<1>9. SubjectInv
  BY <1>2, <1>8 DEF SubjectInv, Exists
<1>10. SessionInv /\ SessionKnowsItsTeams
  BY <1>2 DEF SessionInv, SessionKnowsItsTeams, SessionValid
<1>11. OwnerRemains
  BY <1>8 DEF OwnerRemains, Owners
<1>12. QED
  BY <1>5, <1>6, <1>7, <1>9, <1>10, <1>11 DEF IInv

LEMMA NextKeeps == IInv /\ [Next]_vars => IInv'
<1> SUFFICES ASSUME IInv, [Next]_vars PROVE IInv'
  OBVIOUS
<1>1. ASSUME NEW t \in Tx,
             \/ UpdatePrincipal(t) \/ CreateRoleBinding(t) \/ PutTeamMembership(t)
             \/ BeginUpdateRoleBinding(t) \/ BeginDeleteRoleBinding(t)
             \/ BeginRemoveTeamMembership(t) \/ BeginResolveOIDCPrincipal(t)
      PROVE  IInv'
  BY <1>1, UpdatePrincipalKeeps, CreateRoleBindingKeeps, PutTeamMembershipKeeps,
     BeginUpdateRoleBindingKeeps, BeginDeleteRoleBindingKeeps,
     BeginRemoveTeamMembershipKeeps, BeginResolveOIDCPrincipalKeeps
<1>2. ASSUME NEW t \in Tx,
             \/ UpdateRoleBinding(t) \/ DeleteRoleBinding(t) \/ RemoveTeamMembership(t)
             \/ SynchronizeOIDCMemberships(t) \/ ProvisionOIDCPrincipal(t)
             \/ EnsureInstallationOwner(t) \/ InvalidateBindingSubject(t)
             \/ Commit(t) \/ Rollback(t)
      PROVE  IInv'
  BY <1>2, UpdateRoleBindingKeeps, DeleteRoleBindingKeeps, RemoveTeamMembershipKeeps,
     SynchronizeOIDCMembershipsKeeps, ProvisionOIDCPrincipalKeeps,
     EnsureInstallationOwnerKeeps, InvalidateBindingSubjectKeeps, CommitKeeps, RollbackKeeps
<1>3. QED
  BY <1>1, <1>2, CreatePrincipalKeeps, CreateBrowserSessionKeeps, StutterKeeps DEF Next

LEMMA IInvHolds == Spec => []IInv
  BY InitHolds, NextKeeps, PTL DEF Spec

\* Only a commit and the two single statements change accounts or the session.
LEMMA NoStepRevives ==
    ASSUME IInv, [Next]_vars, session # Absent, ~SessionValid
    PROVE  ~SessionValid'
<1>1. ASSUME NEW t \in Tx, Commit(t) PROVE ~SessionValid'
  BY <1>1, CommitKeepsSessions
<1>2. ASSUME NEW p \in Principal, CreatePrincipal(p) PROVE ~SessionValid'
  BY <1>2 DEF IInv, TypeOK, Sessions, SessionInv, SessionValid, CreatePrincipal
<1>3. ASSUME NEW p \in Principal, CreateBrowserSession(p) PROVE ~SessionValid'
  BY <1>3 DEF CreateBrowserSession
<1>4. CASE UNCHANGED <<principals, session>>
  BY <1>4 DEF SessionValid
<1>5. QED
  BY ZenonT(60), <1>1, <1>2, <1>3, <1>4 DEF Next, vars, UpdatePrincipal, CreateRoleBinding,
     BeginUpdateRoleBinding, UpdateRoleBinding, BeginDeleteRoleBinding, DeleteRoleBinding,
     PutTeamMembership, BeginRemoveTeamMembership, RemoveTeamMembership,
     BeginResolveOIDCPrincipal, SynchronizeOIDCMemberships, ProvisionOIDCPrincipal,
     EnsureInstallationOwner, InvalidateBindingSubject, Rollback, Begin, Write

-----------------------------------------------------------------------------
(* The theorems                                                            *)

\* Rows, transactions in flight and the session keep their types, and there are
\* never more transactions in flight than were counted.
THEOREM TypesCorrect == Spec => []TypeOK
<1>1. IInv => TypeOK
  BY DEF IInv
<1>2. QED
  BY <1>1, IInvHolds, PTL

\* ensureInstallationOwner locks the installation's row and counts after its
\* own writes: however many changes of accounts, bindings and memberships are
\* in flight together, an enabled owner remains when each commits, unless a
\* provider took the membership that made the last one.
THEOREM OwnerAlwaysRemains == Spec => []OwnerRemains
<1>1. IInv => OwnerRemains
  BY DEF IInv
<1>2. QED
  BY <1>1, IInvHolds, PTL

\* invalidateBindingSubject moves the generation on in the transaction that
\* changes a membership: a session that BrowserSessionByDigest still finds was
\* created when its principal was in the teams that it is in now.
THEOREM SessionsKnowTheirTeams == Spec => []SessionKnowsItsTeams
<1>1. IInv => SessionKnowsItsTeams
  BY DEF IInv
<1>2. QED
  BY <1>1, IInvHolds, PTL

\* authorization_generation only grows, and every write of an account moves it:
\* enabling a principal again does not bring back a session that disabling it,
\* or a change of its roles, has invalidated.
THEOREM SessionsStayInvalid == Spec => NoSessionRevives
<1>1. IInv /\ [Next]_vars => [session # Absent /\ ~SessionValid => ~SessionValid']_vars
  BY NoStepRevives
<1>2. QED
  BY <1>1, IInvHolds, PTL DEF Spec, NoSessionRevives

=============================================================================

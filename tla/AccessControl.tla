----------------------------- MODULE AccessControl -----------------------------
(***************************************************************************)
(* Who owns an installation, and which sessions still stand for what their *)
(* principal may do.  Principals are enabled or disabled and carry an      *)
(* authorization generation; a role binding gives a role to a principal or *)
(* a team; a membership was put by hand or by an identity provider.        *)
(*                                                                         *)
(* Each change is a transaction of several statements at the isolation     *)
(* level READ COMMITTED: a statement sees what is committed when it runs   *)
(* together with the writes of its own transaction, and a written row is   *)
(* locked until its transaction ends.  The locks that foreign keys take    *)
(* only delay other transactions and are left out.                         *)
(***************************************************************************)
EXTENDS Naturals, Sequences, FiniteSets

CONSTANTS
  Principal,     \* human principals
  Team,          \* teams
  Binding,       \* identifiers of role bindings
  Tx,            \* transactions that may be in flight together
  Absent,        \* no row, no session
  MaxChanges     \* bound on the transactions that are in flight or committed

Account == [disabled : BOOLEAN, generation : Nat \ {0}]
Grant == [subject : Principal \cup Team, owner : BOOLEAN]
Sources == {"manual", "provider"}
Sessions == [principal : Principal, generation : Nat \ {0}, teams : SUBSET Team]

ASSUME AccessAssumption ==
  /\ MaxChanges \in Nat /\ IsFiniteSet(Tx)
  /\ Principal \cap Team = {}
  /\ Absent \notin Principal \cup Team \cup Binding \cup Tx
  /\ Absent \notin Account /\ Absent \notin Grant /\ Absent \notin Sources
  /\ Absent \notin Sessions

VARIABLES
  principals,  \* [Principal -> the committed row of principals or Absent]
  bindings,    \* [Binding -> the committed row of role_bindings or Absent]
  members,     \* [Team \X Principal -> where the committed membership is from]
  tx,          \* [Tx -> the transaction: its statements to come, its writes]
  lock,        \* the transaction that locked the installation's row
  session,     \* one browser session, as it was when it was created
  pruned,      \* history: a provider has taken a membership away
  changes      \* transactions that are in flight or committed

vars == <<principals, bindings, members, tx, lock, session, pruned, changes>>

(* The principals that ensureInstallationOwner counts: enabled, with an    *)
(* owner binding of their own or of one of their teams.                    *)
Owners(ps, bs, ms) ==
  {p \in Principal :
     /\ ps[p] # Absent
     /\ ~ps[p].disabled
     /\ \E b \in Binding :
          /\ bs[b] # Absent
          /\ bs[b].owner
          /\ \/ bs[b].subject = p
             \/ \E team \in Team : bs[b].subject = team /\ ms[<<team, p>>] # Absent}

TeamsOf(p) == {team \in Team : members[<<team, p>>] # Absent}

--------------------------------------------------------------------------------
(* Transactions *)

(* Rows that were written, and a table as a statement sees it that comes    *)
(* after these writes.                                                     *)
None == [x \in {} |-> Absent]
Row(x, value) == [y \in {x} |-> value]
Over(rows, table) ==
  [x \in DOMAIN rows \cup DOMAIN table |-> IF x \in DOMAIN rows THEN rows[x] ELSE table[x]]

Idle == [at |-> "idle", op |-> "none", row |-> Absent, value |-> Absent,
         subjects |-> <<>>, guarded |-> FALSE,
         principals |-> None, bindings |-> None, members |-> None]

PrincipalsSeen(t) == Over(tx[t].principals, principals)
BindingsSeen(t) == Over(tx[t].bindings, bindings)
MembersSeen(t) == Over(tx[t].members, members)

PrincipalFree(t, p) == \A u \in Tx \ {t} : p \notin DOMAIN tx[u].principals
BindingFree(t, b) == \A u \in Tx \ {t} : b \notin DOMAIN tx[u].bindings
MemberFree(t, m) == \A u \in Tx \ {t} : m \notin DOMAIN tx[u].members

Start(t) ==
  /\ tx[t].at = "idle"
  /\ changes < MaxChanges
  /\ changes' = changes + 1

(* A transaction after its first reads: what it is about to write to which *)
(* row, whose sessions it will invalidate, and whether it then asks for a  *)
(* remaining owner.                                                        *)
Begin(t, op, row, value, subjects, guarded) ==
  /\ Start(t)
  /\ tx' = [tx EXCEPT ![t] = [Idle EXCEPT !.at = "begun", !.op = op, !.row = row,
              !.value = value, !.subjects = subjects, !.guarded = guarded]]
  /\ UNCHANGED <<principals, bindings, members, lock, session, pruned>>

Subjects == Team \cup {p \in Principal : principals[p] # Absent}

(* The subject before and, when it is another one, the subject after.      *)
BeginUpdateRoleBinding(t) ==
  \E b \in Binding, grant \in Grant :
    /\ bindings[b] # Absent
    /\ grant.subject \in Subjects
    /\ LET before == bindings[b].subject
       IN  Begin(t, "rebind", b, grant,
                 IF before = grant.subject THEN <<before>> ELSE <<before, grant.subject>>,
                 TRUE)

BeginDeleteRoleBinding(t) ==
  \E b \in Binding :
    /\ bindings[b] # Absent
    /\ Begin(t, "unbind", b, Absent, <<bindings[b].subject>>, TRUE)

BeginRemoveTeamMembership(t) ==
  \E team \in Team, p \in Principal :
    /\ members[<<team, p>>] = "manual"
    /\ Begin(t, "leave", <<team, p>>, Absent, <<p>>, TRUE)

(* A token of an identity provider names teams that have a role.  A first  *)
(* login creates the principal, a later one makes the memberships of the   *)
(* provider what the token says.                                           *)
BeginResolveOIDCPrincipal(t) ==
  \E p \in Principal, desired \in SUBSET Team :
    /\ \A team \in desired :
         \E b \in Binding : bindings[b] # Absent /\ bindings[b].subject = team
    /\ IF principals[p] = Absent
       THEN /\ desired # {}
            /\ Begin(t, "provision", p, [desired |-> desired, stale |-> {}], <<>>, FALSE)
       ELSE /\ ~principals[p].disabled
            /\ Begin(t, "synchronize", p,
                     [desired |-> desired,
                      stale |-> {team \in Team \ desired : members[<<team, p>>] = "provider"}],
                     <<p>>, FALSE)

--------------------------------------------------------------------------------
(* The writes *)

Writing(t, op) ==
  /\ tx[t].at = "begun"
  /\ tx[t].op = op
  /\ UNCHANGED changes

(* A transaction that reads nothing it later relies on starts with its write. *)
Opening(op, subjects, guarded) ==
  [Idle EXCEPT !.op = op, !.subjects = subjects, !.guarded = guarded]

Write(t, statement, ps, bs, ms) ==
  /\ tx' = [tx EXCEPT ![t] =
       [statement EXCEPT !.at = IF statement.guarded THEN "written" ELSE "checked",
                         !.principals = ps, !.bindings = bs, !.members = ms]]
  /\ UNCHANGED <<principals, bindings, members, lock, session, pruned>>

Bumped(account) == [account EXCEPT !.generation = @ + 1]

\* Mutant: enabling and disabling leave the generation as it is.
UpdatePrincipalQuietly(t) ==
  \E p \in Principal, off \in BOOLEAN :
    /\ Start(t)
    /\ principals[p] # Absent
    /\ PrincipalFree(t, p)
    /\ Write(t, Opening("principal", <<>>, TRUE),
             Row(p, [principals[p] EXCEPT !.disabled = off]), None, None)

UpdatePrincipal(t) ==
  \E p \in Principal, off \in BOOLEAN :
    /\ Start(t)
    /\ principals[p] # Absent
    /\ PrincipalFree(t, p)
    /\ Write(t, Opening("principal", <<>>, TRUE),
             Row(p, [Bumped(principals[p]) EXCEPT !.disabled = off]), None, None)

(* An identifier that is taken is a conflict and changes nothing.          *)
CreateRoleBinding(t) ==
  \E b \in Binding, grant \in Grant :
    /\ Start(t)
    /\ grant.subject \in Subjects
    /\ BindingFree(t, b)
    /\ bindings[b] = Absent
    /\ Write(t, Opening("bind", <<grant.subject>>, FALSE), None, Row(b, grant), None)

(* The update does not look whether the row is still the one that was read, *)
(* or is there at all.                                                      *)
UpdateRoleBinding(t) ==
  LET b == tx[t].row IN
    /\ Writing(t, "rebind")
    /\ BindingFree(t, b)
    /\ Write(t, tx[t], None, IF bindings[b] = Absent THEN None ELSE Row(b, tx[t].value), None)

DeleteRoleBinding(t) ==
  LET b == tx[t].row IN
    /\ Writing(t, "unbind")
    /\ BindingFree(t, b)
    /\ bindings[b] # Absent
    /\ Write(t, tx[t], None, Row(b, Absent), None)

(* A membership that is there already is kept as it is: nothing changes.   *)
PutTeamMembership(t) ==
  \E team \in Team, p \in Principal :
    /\ Start(t)
    /\ principals[p] # Absent
    /\ MemberFree(t, <<team, p>>)
    /\ members[<<team, p>>] = Absent
    /\ Write(t, Opening("join", <<p>>, FALSE), None, None, Row(<<team, p>>, "manual"))

RemoveTeamMembership(t) ==
  LET m == tx[t].row IN
    /\ Writing(t, "leave")
    /\ MemberFree(t, m)
    /\ Write(t, tx[t], None, None, IF members[m] = Absent THEN None ELSE Row(m, Absent))

Gone(t) ==
  {<<team, tx[t].row>> : team \in
     {team \in tx[t].value.stale : members[<<team, tx[t].row>>] = "provider"}}

Added(t) ==
  {<<team, tx[t].row>> : team \in
     {team \in tx[t].value.desired : members[<<team, tx[t].row>>] = Absent}}

Provided(t) == [m \in Gone(t) \cup Added(t) |-> IF m \in Gone(t) THEN Absent ELSE "provider"]

\* Mutant: a membership that was added does not count as a change.
DiffersWhenStale(t) == tx[t].value.stale # {}
Differs(t) == tx[t].value.stale # {} \/ Added(t) # {}

SynchronizeOIDCMemberships(t) ==
  /\ Writing(t, "synchronize")
  /\ \A team \in tx[t].value.stale \cup tx[t].value.desired :
       MemberFree(t, <<team, tx[t].row>>)
  /\ Write(t, [tx[t] EXCEPT !.subjects = IF Differs(t) THEN @ ELSE <<>>],
           None, None, Provided(t))

ProvisionOIDCPrincipal(t) ==
  LET p == tx[t].row IN
    /\ Writing(t, "provision")
    /\ PrincipalFree(t, p)
    /\ principals[p] = Absent
    /\ Write(t, tx[t], Row(p, [disabled |-> FALSE, generation |-> 1]), None,
             [m \in tx[t].value.desired \X {p} |-> "provider"])

--------------------------------------------------------------------------------
(* What follows the write *)

\* Mutant: the owners are counted without the lock.
EnsureOwnerUnlocked(t) ==
  /\ tx[t].at = "written"
  /\ Owners(PrincipalsSeen(t), BindingsSeen(t), MembersSeen(t)) # {}
  /\ tx' = [tx EXCEPT ![t].at = "checked"]
  /\ UNCHANGED <<principals, bindings, members, lock, session, pruned, changes>>

(* The installation's row is locked until the transaction ends; the count  *)
(* is a statement after the lock and sees what was committed before it.    *)
EnsureInstallationOwner(t) ==
  /\ tx[t].at = "written"
  /\ lock = Absent
  /\ Owners(PrincipalsSeen(t), BindingsSeen(t), MembersSeen(t)) # {}
  /\ lock' = t
  /\ tx' = [tx EXCEPT ![t].at = "checked"]
  /\ UNCHANGED <<principals, bindings, members, session, pruned, changes>>

(* One statement for each subject: the principal, or the members of the    *)
(* team that the statement sees.                                           *)
Affected(t, subject) ==
  IF subject \in Principal THEN {subject}
  ELSE {p \in Principal : MembersSeen(t)[<<subject, p>>] # Absent}

InvalidateBindingSubject(t) ==
  /\ tx[t].at = "checked"
  /\ tx[t].subjects # <<>>
  /\ LET affected == Affected(t, Head(tx[t].subjects))
         seen == PrincipalsSeen(t)
     IN  /\ \A p \in affected : PrincipalFree(t, p)
         /\ tx' = [tx EXCEPT
              ![t].subjects = Tail(@),
              ![t].principals = Over([p \in affected |-> Bumped(seen[p])], @)]
  /\ UNCHANGED <<principals, bindings, members, lock, session, pruned, changes>>

Unlock(t) == IF lock = t THEN Absent ELSE lock

Commit(t) ==
  /\ tx[t].at = "checked"
  /\ tx[t].subjects = <<>>
  /\ principals' = PrincipalsSeen(t)
  /\ bindings' = BindingsSeen(t)
  /\ members' = MembersSeen(t)
  /\ tx' = [tx EXCEPT ![t] = Idle]
  /\ lock' = Unlock(t)
  /\ pruned' = (pruned \/ /\ tx[t].op = "synchronize"
                          /\ \E m \in DOMAIN tx[t].members : tx[t].members[m] = Absent)
  /\ UNCHANGED <<session, changes>>

(* No owner would remain, a row that was read is gone, the request was     *)
(* cancelled, or the database chose this transaction to end a deadlock.    *)
Rollback(t) ==
  /\ tx[t].at # "idle"
  /\ tx' = [tx EXCEPT ![t] = Idle]
  /\ lock' = Unlock(t)
  /\ changes' = changes - 1
  /\ UNCHANGED <<principals, bindings, members, session, pruned>>

--------------------------------------------------------------------------------
(* One statement, and the sessions *)

CreatePrincipal(p) ==
  /\ principals[p] = Absent
  /\ \A t \in Tx : p \notin DOMAIN tx[t].principals
  /\ principals' = [principals EXCEPT ![p] = [disabled |-> FALSE, generation |-> 1]]
  /\ UNCHANGED <<bindings, members, tx, lock, session, pruned, changes>>

(* CreateBrowserSession keeps the generation it read; the teams of the      *)
(* principal at that moment are history, for the properties only.          *)
CreateBrowserSession(p) ==
  /\ session = Absent
  /\ principals[p] # Absent
  /\ ~principals[p].disabled
  /\ session' = [principal |-> p, generation |-> principals[p].generation,
                 teams |-> TeamsOf(p)]
  /\ UNCHANGED <<principals, bindings, members, tx, lock, pruned, changes>>

(* BrowserSessionByDigest joins on the generation.                         *)
SessionValid ==
  /\ session # Absent
  /\ ~principals[session.principal].disabled
  /\ principals[session.principal].generation = session.generation

--------------------------------------------------------------------------------
(* First-time setup has left one principal with an owner binding.          *)
Init ==
  \E owner \in Principal, b \in Binding :
    /\ principals = [p \in Principal |->
                       IF p = owner THEN [disabled |-> FALSE, generation |-> 1] ELSE Absent]
    /\ bindings = [x \in Binding |->
                     IF x = b THEN [subject |-> owner, owner |-> TRUE] ELSE Absent]
    /\ members = [m \in Team \X Principal |-> Absent]
    /\ tx = [t \in Tx |-> Idle]
    /\ lock = Absent
    /\ session = Absent
    /\ pruned = FALSE
    /\ changes = 0

Next ==
  \/ \E t \in Tx :
       \/ UpdatePrincipal(t)
       \/ CreateRoleBinding(t)
       \/ BeginUpdateRoleBinding(t) \/ UpdateRoleBinding(t)
       \/ BeginDeleteRoleBinding(t) \/ DeleteRoleBinding(t)
       \/ PutTeamMembership(t)
       \/ BeginRemoveTeamMembership(t) \/ RemoveTeamMembership(t)
       \/ BeginResolveOIDCPrincipal(t)
       \/ SynchronizeOIDCMemberships(t) \/ ProvisionOIDCPrincipal(t)
       \/ EnsureInstallationOwner(t)
       \/ InvalidateBindingSubject(t)
       \/ Commit(t) \/ Rollback(t)
  \/ \E p \in Principal : CreatePrincipal(p) \/ CreateBrowserSession(p)

Spec == Init /\ [][Next]_vars

--------------------------------------------------------------------------------
IsRows(rows, keys, values) ==
  DOMAIN rows \subseteq keys /\ \A x \in DOMAIN rows : rows[x] \in values

IsTransaction(q) ==
  /\ DOMAIN q = DOMAIN Idle
  /\ q.at \in {"idle", "begun", "written", "checked"}
  /\ q.op \in {"none", "principal", "bind", "rebind", "unbind", "join", "leave",
              "provision", "synchronize"}
  /\ q.row \in Principal \cup Binding \cup (Team \X Principal) \cup {Absent}
  /\ q.value \in Grant \cup [desired : SUBSET Team, stale : SUBSET Team] \cup {Absent}
  /\ q.subjects \in Seq(Principal \cup Team)
  /\ q.guarded \in BOOLEAN
  /\ IsRows(q.principals, Principal, Account)
  /\ IsRows(q.bindings, Binding, Grant \cup {Absent})
  /\ IsRows(q.members, Team \X Principal, Sources \cup {Absent})

(* Types of the rows, the transactions and the session. *)
TypeOK ==
  /\ principals \in [Principal -> Account \cup {Absent}]
  /\ bindings \in [Binding -> Grant \cup {Absent}]
  /\ members \in [Team \X Principal -> Sources \cup {Absent}]
  /\ DOMAIN tx = Tx /\ \A t \in Tx : IsTransaction(tx[t])
  /\ lock \in Tx \cup {Absent}
  /\ pruned \in BOOLEAN
  /\ changes \in 0..MaxChanges
  /\ session \in Sessions \cup {Absent}

(* Whatever administrators do together, an enabled owner remains (the lock *)
(* of ensureInstallationOwner): only a provider can take the last one away. *)
OwnerRemains == pruned \/ Owners(principals, bindings, members) # {}

(* A session that is still valid was created with the memberships that its *)
(* principal has now: each change of them moves the generation on.         *)
SessionKnowsItsTeams == SessionValid => session.teams = TeamsOf(session.principal)

(* A session that was invalidated never becomes valid again, not even when *)
(* its principal is enabled again.                                         *)
NoSessionRevives == [][session # Absent /\ ~SessionValid => ~SessionValid']_vars
================================================================================

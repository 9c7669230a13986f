-------------------------- MODULE LeadershipManager -------------------------
(***************************************************************************)
(* The leadership manager of every worker process (leadership/manager.go   *)
(* and the Session of leadership/leadership.go).  Two goroutines of a      *)
(* process use it: "poll" renews the lease every third of its TTL, "pass"  *)
(* is the reconcile loop, which acquires, takes an authority and           *)
(* revalidates it.  Every call is a statement against the database and,    *)
(* later, a section under the manager's mutex, so the answers of the two   *)
(* goroutines may be applied in either order and after the lease moved on. *)
(***************************************************************************)
EXTENDS LeadershipLease

VARIABLES
    session,     \* the Session of each process
    role,        \* Snapshot().Role: leader, follower or paused
    call,        \* for each goroutine, the answer it has yet to apply
    pass,        \* where the reconcile pass of each process is
    authority    \* the authority the reconcile pass holds

managerVars == <<session, role, call, pass, authority>>
vars == <<clock, lease, grants, session, role, call, pass, authority>>

Threads == {"poll", "pass"}

Sessions == [generation : Nat, status : {"none", "active", "paused", "lost"}]
NoSession == [generation |-> 0, status |-> "none"]

Calls == [at : {"none", "acquired", "contended", "held", "validate", "revalidate"},
          lease : Leases]
NoCall == [at |-> "none", lease |-> NoLease]
Answer(at, l) == [at |-> at, lease |-> l]

Init ==
    /\ LeaseInit
    /\ session = [h \in Holder |-> NoSession]
    /\ role = [h \in Holder |-> "paused"]
    /\ call = [h \in Holder |-> [t \in Threads |-> NoCall]]
    /\ pass = [h \in Holder |-> "idle"]
    /\ authority = [h \in Holder |-> NoAuthority]

-----------------------------------------------------------------------------
(* Session                                                                 *)

\* Session.Sync: a session is lost for good once the lease shows another
\* generation or holder; an expired lease only pauses it.
Sync(h, s, l) ==
    IF s.status \in {"none", "lost"} THEN s
    ELSE IF l.generation # s.generation \/ l.holder # h
         THEN [s EXCEPT !.status = "lost"]
    ELSE IF Active(l, Now(h)) THEN [s EXCEPT !.status = "active"]
    ELSE [s EXCEPT !.status = "paused"]

\* The sync of pause(): the session's own lease with a zero expiry.
Paused(h, s) ==
    Sync(h, s, [holder |-> h, generation |-> s.generation, expiresAt |-> 0])

\* manager.pause
Pause(h) ==
    /\ session' = [session EXCEPT ![h] = Paused(h, @)]
    /\ role' = [role EXCEPT ![h] = "paused"]

\* manager.observeFollower
ObserveFollower(h, l) ==
    /\ session' = [session EXCEPT ![h] = Sync(h, @, l)]
    /\ role' = [role EXCEPT ![h] = "follower"]

\* Mutant: NewSession does not look at the expiry.
EnterUnchecked(h, l) ==
    /\ IF session[h].status = "none" \/ session[h].generation # l.generation
       THEN session' = [session EXCEPT ![h] =
                [generation |-> l.generation, status |-> "active"]]
       ELSE session' = [session EXCEPT ![h] = Sync(h, @, l)]
    /\ role' = [role EXCEPT ![h] = "leader"]

\* The mutex section of a TryAcquire that got the lease l: a new session when
\* the generation is not the session's, a sync otherwise.
Enter(h, l) ==
    IF session[h].status = "none" \/ session[h].generation # l.generation
    THEN IF Active(l, Now(h))
         THEN /\ session' = [session EXCEPT ![h] =
                    [generation |-> l.generation, status |-> "active"]]
              /\ role' = [role EXCEPT ![h] = "leader"]
         ELSE /\ session' = [session EXCEPT ![h] = Sync(h, @, l)]
              /\ role' = [role EXCEPT ![h] = "paused"]
    ELSE /\ session' = [session EXCEPT ![h] = Sync(h, @, l)]
         /\ role' = [role EXCEPT ![h] = "leader"]

\* TryAcquire returns nil: NewSession refuses a lease that has expired.
Entered(h, l) ==
    \/ session[h].status # "none" /\ session[h].generation = l.generation
    \/ Active(l, Now(h))

-----------------------------------------------------------------------------
(* TryAcquire                                                              *)

Ready(h, t) ==
    /\ call[h][t].at = "none"
    /\ t = "pass" => pass[h] = "idle"

\* The upsert returned the row.
AcquireStatement(h, t) ==
    /\ Ready(h, t)
    /\ \E now \in Readings(h) : AcquireLeadership(h, now)
    /\ call' = [call EXCEPT ![h][t] = Answer("acquired", lease')]
    /\ UNCHANGED <<clock, session, role, pass, authority>>

\* The upsert matched nothing.
ContendedStatement(h, t) ==
    /\ Ready(h, t)
    /\ \E now \in Readings(h) : ~Acquirable(h, now)
    /\ call' = [call EXCEPT ![h][t] = Answer("contended", NoLease)]
    /\ UNCHANGED <<clock, lease, grants, session, role, pass, authority>>

\* A second statement reads who holds it, which may have changed meanwhile.
ReadContended(h, t) ==
    /\ call[h][t].at = "contended"
    /\ \E now \in Readings(h) : ~Exhausted(h, now)
    /\ call' = [call EXCEPT ![h][t] = Answer("held", lease)]
    /\ UNCHANGED <<clock, lease, grants, session, role, pass, authority>>

\* The database does not answer, or the generations are used up.
StatementFails(h, t) ==
    /\ Ready(h, t) \/ call[h][t].at = "contended"
    /\ Pause(h)
    /\ call' = [call EXCEPT ![h][t] = NoCall]
    /\ UNCHANGED <<clock, lease, grants, pass, authority>>

\* The answer of TryAcquire is applied under the mutex.
FinishAcquire(h, t) ==
    LET answer == call[h][t] IN
    /\ call' = [call EXCEPT ![h][t] = NoCall]
    /\ \/ /\ answer.at = "acquired"
          /\ Enter(h, answer.lease)
          /\ pass' = IF t = "pass" /\ Entered(h, answer.lease)
                     THEN [pass EXCEPT ![h] = "leading"] ELSE pass
       \/ /\ answer.at = "held"
          /\ ObserveFollower(h, answer.lease)
          /\ UNCHANGED pass
    /\ UNCHANGED <<clock, lease, grants, authority>>

-----------------------------------------------------------------------------
(* Authority and Revalidate, called by the reconcile pass                  *)

ReadLease(h, at) ==
    /\ call[h]["pass"].at = "none"
    /\ pass[h] = IF at = "validate" THEN "leading" ELSE "authorized"
    /\ call' = [call EXCEPT ![h]["pass"] = Answer(at, lease)]
    /\ UNCHANGED <<clock, lease, grants, session, role, pass, authority>>

\* The read fails: the session is paused, and without an authority the pass
\* is over.
ReadFails(h) ==
    /\ call[h]["pass"].at = "none"
    /\ pass[h] \in {"leading", "authorized"}
    /\ Pause(h)
    /\ pass' = IF pass[h] = "leading" THEN [pass EXCEPT ![h] = "idle"] ELSE pass
    /\ UNCHANGED <<clock, lease, grants, call, authority>>

\* manager.Authority: the authority is what the session and the row read
\* earlier agree on now.
Authority(h) ==
    LET l == call[h]["pass"].lease
        synced == Sync(h, session[h], l) IN
    /\ call[h]["pass"].at = "validate"
    /\ call' = [call EXCEPT ![h]["pass"] = NoCall]
    /\ session' = [session EXCEPT ![h] = synced]
    /\ IF synced.status = "active"
       THEN /\ role' = [role EXCEPT ![h] = "leader"]
            /\ authority' = [authority EXCEPT ![h] =
                    [generation |-> synced.generation, validUntil |-> l.expiresAt]]
            /\ pass' = [pass EXCEPT ![h] = "authorized"]
       ELSE /\ role' = [role EXCEPT ![h] = "paused"]
            /\ pass' = [pass EXCEPT ![h] = "idle"]
            /\ UNCHANGED authority
    /\ UNCHANGED <<clock, lease, grants>>

\* manager.Revalidate: a refusal demotes the process; the pass goes on with
\* the authority it has, and every later use of it is refused again.
Revalidate(h) ==
    LET l == call[h]["pass"].lease IN
    /\ call[h]["pass"].at = "revalidate"
    /\ call' = [call EXCEPT ![h]["pass"] = NoCall]
    /\ IF Authorized(h, authority[h], l, Now(h))
       THEN UNCHANGED <<session, role>>
       ELSE ObserveFollower(h, l)
    /\ UNCHANGED <<clock, lease, grants, pass, authority>>

EndPass(h) ==
    /\ pass[h] = "authorized"
    /\ call[h]["pass"].at = "none"
    /\ pass' = [pass EXCEPT ![h] = "idle"]
    /\ authority' = [authority EXCEPT ![h] = NoAuthority]
    /\ UNCHANGED <<clock, lease, grants, session, role, call>>

-----------------------------------------------------------------------------
TickAll == Tick /\ UNCHANGED managerVars

Process(h) ==
    \/ \E t \in Threads :
         \/ AcquireStatement(h, t)
         \/ ContendedStatement(h, t)
         \/ ReadContended(h, t)
         \/ StatementFails(h, t)
         \/ FinishAcquire(h, t)
    \/ \E at \in {"validate", "revalidate"} : ReadLease(h, at)
    \/ ReadFails(h)
    \/ Authority(h)
    \/ Revalidate(h)
    \/ EndPass(h)

Next == TickAll \/ \E h \in Holder : Process(h)

Spec == Init /\ [][Next]_vars

-----------------------------------------------------------------------------
(* Properties                                                              *)

\* The variables hold values of their types.
TypeOK ==
    /\ clock \in Nat
    /\ lease \in Leases
    /\ grants \in Seq(Holder)
    /\ session \in [Holder -> Sessions]
    /\ role \in [Holder -> {"leader", "follower", "paused"}]
    /\ call \in [Holder -> [Threads -> Calls]]
    /\ pass \in [Holder -> {"idle", "leading", "authorized"}]
    /\ authority \in [Holder -> Authorities]

\* A fencing generation belongs to one process: no two processes ever hold
\* an authority, or a session, of the same generation, whatever the order in
\* which acquisitions, renewals, expiries and late answers are applied.
OneHolderPerGeneration ==
    \A h, k \in Holder :
        /\ authority[h].generation = authority[k].generation
           /\ authority[h].generation # 0 => h = k
        /\ session[h].generation = authority[k].generation
           /\ session[h].generation # 0 => h = k

\* The guard against a stale leader that is past its database check: once
\* the lease has moved on, an authority of an older generation has run out on
\* real time too, but for the clock skew, the statement lag, and the part of a
\* second by which the texts of times may let a takeover come early.  Between
\* the check before a Kubernetes write and the write nothing else protects it.
SupersededAuthorityLapses ==
    \A h \in Holder :
        authority[h].generation \notin {0, lease.generation}
            => authority[h].validUntil <= clock + MaxSkew + MaxLag + TextSlack

\* The two goroutines of a process may apply their answers out of order, so
\* a session can fall back to an earlier generation, but only to one after
\* which nobody else has led: an answer older than another process's turn is
\* recognised as expired.
NoSessionAcrossForeignTurn ==
    [][\A h \in Holder : session'[h].generation < session[h].generation =>
          \A g \in session'[h].generation .. session[h].generation :
              grants[g] = h]_session

\* The lease service implements the abstract token service.
Token == INSTANCE FencingToken WITH
    belief <- [h \in Holder |-> authority[h].generation]
TokenSpec == Token!Spec
=============================================================================

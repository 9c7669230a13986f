----------------------- MODULE LeadershipManagerProofs ----------------------
(***************************************************************************)
(* Proofs about leadership: the types, one holder per fencing generation,  *)
(* the bound on how long a superseded authority stays usable, and that the *)
(* lease implements the abstract token service; and about what the leader  *)
(* and the workers that discover Jobs do with the row of one of them, in a *)
(* module that shares no name with the lease's.                            *)
(***************************************************************************)
EXTENDS LeadershipManager, JobReconciliation, SequenceTheorems, TLAPS

-----------------------------------------------------------------------------
(* The inductive invariant                                                 *)

\* Generation g was handed to h.
Granted(h, g) == g \in 1..Len(grants) /\ grants[g] = h

\* The row agrees with the history of acquisitions.
RowInv ==
    /\ Len(grants) = lease.generation
    /\ lease.generation = 0 => lease = NoLease
    /\ lease.generation # 0 => Granted(lease.holder, lease.generation)

\* A row read or returned earlier was the row then.
ReadInv ==
    \A h \in Holder, t \in Threads :
        LET l == call[h][t].lease IN
        /\ l.generation # 0 => Granted(l.holder, l.generation)
        /\ call[h][t].at = "acquired" => Granted(h, l.generation)

\* Sessions and authorities are of generations their process was granted.
GrantInv ==
    \A h \in Holder :
        /\ session[h].generation # 0 => Granted(h, session[h].generation)
        /\ session[h].status = "none" <=> session[h].generation = 0
        /\ authority[h].generation # 0 => Granted(h, authority[h].generation)

\* An expiry until that process h knows for generation g cannot be later than
\* what the lease, or the time of its loss, allows.
Bounded(h, g, until) ==
    /\ until <= Now(h) + TTL
    /\ g = lease.generation => until <= lease.expiresAt + MaxLag
    /\ g < lease.generation => until <= clock + MaxSkew + MaxLag + TextSlack

ExpiryInv ==
    /\ lease.generation # 0 => lease.expiresAt <= Now(lease.holder) + TTL
    /\ \A h \in Holder :
         /\ authority[h].generation # 0 =>
                Bounded(h, authority[h].generation, authority[h].validUntil)
         /\ LET l == call[h]["pass"].lease IN
            l.generation # 0 /\ l.holder = h => Bounded(h, l.generation, l.expiresAt)

IInv == TypeOK /\ RowInv /\ ReadInv /\ GrantInv /\ ExpiryInv

-----------------------------------------------------------------------------
(* Lemmas about the operators                                              *)

\* A time has its second and its fraction.
LEMMA SecondsAndTicks ==
    ASSUME NEW t \in Nat
    PROVE  /\ SecondOf(t) \in Nat /\ t % Second \in 0 .. Second - 1
           /\ t = Second * SecondOf(t) + (t % Second)
  BY TextAssumption DEF SecondOf

LEMMA LongerSeconds ==
    ASSUME NEW p \in Nat, NEW q \in Nat
    PROVE  Second * p \in Nat /\ (p <= q => Second * p <= Second * q)
  BY TextAssumption

\* Among texts of different seconds the order is that of the times.
LEMMA TextOrder ==
    ASSUME NEW s \in Nat, NEW t \in Nat, ~TextAfter(s, t)
    PROVE  TextSlack \in Nat /\ s <= t + TextSlack
  <1>1. Second \in Nat \ {0}
    BY TextAssumption
  <1>2. PICK p \in Nat, a \in 0 .. Second - 1 : p = SecondOf(s) /\ s = Second * p + a
    BY SecondsAndTicks
  <1>3. PICK q \in Nat, b \in 0 .. Second - 1 : q = SecondOf(t) /\ t = Second * q + b
    BY SecondsAndTicks
  <1>4. p <= q
    BY <1>2, <1>3 DEF TextAfter
  <1>5. PICK m \in Nat : m = Second * p
    BY LongerSeconds
  <1>6. PICK n \in Nat : n = Second * q
    BY LongerSeconds
  <1>7. m <= n
    BY <1>4, <1>5, <1>6, LongerSeconds
  <1>8. s = m + a /\ t = n + b
    BY <1>2, <1>3, <1>5, <1>6
  <1>9. QED
    BY ONLY <1>1, <1>7, <1>8, m \in Nat, n \in Nat, a \in 0 .. Second - 1,
       b \in 0 .. Second - 1 DEF TextSlack

LEMMA SlackIsNat == TextSlack \in Nat
  BY TextAssumption DEF TextSlack

\* A statement's clock reading trails the process's clock by at most MaxLag.
LEMMA ReadingBounds ==
    ASSUME NEW h \in Holder, clock \in Nat, NEW now \in Readings(h)
    PROVE  now \in Nat /\ now <= Now(h) /\ now + MaxLag >= Now(h)
BY LeaseAssumption DEF Readings, Now

\* Synchronising a session keeps its generation and never starts one.
LEMMA SyncKeeps ==
    ASSUME NEW h \in Holder, NEW s \in Sessions, NEW l \in Leases
    PROVE  /\ Sync(h, s, l) \in Sessions
           /\ Sync(h, s, l).generation = s.generation
           /\ Sync(h, s, l).status = "none" <=> s.status = "none"
           /\ Sync(h, s, l).status = "active"
                 => l.generation = s.generation /\ l.holder = h
  <1>1. s.status \in {"none", "active", "paused", "lost"}
    BY DEF Sessions
  <1>2. CASE s.status \in {"none", "lost"}
    BY <1>2 DEF Sync
  <1>3. CASE s.status \notin {"none", "lost"}
    BY <1>1, <1>3 DEF Sync, Sessions
  <1>4. QED
    BY <1>2, <1>3

-----------------------------------------------------------------------------
(* The initial states                                                      *)

LEMMA InitInv == Init => IInv
  <1> SUFFICES ASSUME Init PROVE IInv
    OBVIOUS
  <1> USE LeaseAssumption DEF Init, LeaseInit, NoLease, NoSession, NoCall, NoAuthority
  <1>1. TypeOK
    BY DEF TypeOK, Leases, Sessions, Calls, Authorities, Threads
  <1>2. RowInv
    BY DEF RowInv
  <1>3. ReadInv
    BY DEF ReadInv
  <1>4. GrantInv
    BY DEF GrantInv
  <1>5. ExpiryInv
    BY DEF ExpiryInv, Threads
  <1>6. QED
    BY <1>1, <1>2, <1>3, <1>4, <1>5 DEF IInv

-----------------------------------------------------------------------------
(* Time passes: every bound is on the growing clock.                       *)

LEMMA TickInv == IInv /\ TickAll => IInv'
  <1> SUFFICES ASSUME IInv, TickAll PROVE IInv'
    OBVIOUS
  <1> USE DEF IInv, TickAll, Tick, leaseVars, managerVars
  <1>1. TypeOK'
    BY DEF TypeOK
  <1>2. RowInv' /\ ReadInv' /\ GrantInv'
    BY DEF RowInv, ReadInv, GrantInv, Granted
  <1>3. clock \in Nat /\ clock' = clock + 1
    BY DEF TypeOK
  <1>4. ASSUME NEW h \in Holder PROVE Now(h) \in Nat /\ Now(h)' = Now(h) + 1
    BY <1>3, LeaseAssumption DEF Now
  <1>5. ASSUME NEW h \in Holder, NEW g \in Nat, NEW until \in Nat, Bounded(h, g, until)
        PROVE  Bounded(h, g, until)'
    BY <1>3, <1>4, <1>5, LeaseAssumption, SlackIsNat DEF Bounded, TypeOK, Leases
  <1>6. lease.generation # 0 => lease.holder \in Holder
    BY DEF RowInv, Granted, TypeOK
  <1>7. ExpiryInv'
    <2>1. (lease.generation # 0 => lease.expiresAt <= Now(lease.holder) + TTL)'
      BY <1>4, <1>6, LeaseAssumption DEF ExpiryInv, TypeOK, Leases
    <2>2. ASSUME NEW h \in Holder
          PROVE  (authority[h].generation # 0 =>
                    Bounded(h, authority[h].generation, authority[h].validUntil))'
      <3>1. authority[h] \in Authorities
        BY DEF TypeOK
      <3>2. QED
        BY <3>1, <1>5 DEF ExpiryInv, Authorities
    <2>3. ASSUME NEW h \in Holder, call[h]["pass"].lease.generation # 0,
                 call[h]["pass"].lease.holder = h
          PROVE  Bounded(h, call[h]["pass"].lease.generation, call[h]["pass"].lease.expiresAt)'
      <3>1. call[h]["pass"].lease \in Leases
        BY DEF TypeOK, Calls, Threads
      <3>2. QED
        BY <3>1, <2>3, <1>5 DEF ExpiryInv, Leases
    <2>4. QED
      BY <2>1, <2>2, <2>3 DEF ExpiryInv
  <1>8. QED
    BY <1>1, <1>2, <1>7 DEF IInv

-----------------------------------------------------------------------------
(* An acquisition or a renewal                                             *)

\* The statement either renews the current generation for its holder or
\* starts the next one.
LEMMA AcquireCases ==
    ASSUME IInv, NEW h \in Holder, NEW now \in Readings(h), AcquireLeadership(h, now)
    PROVE  /\ lease' \in Leases /\ lease'.holder = h /\ lease'.expiresAt = now + TTL
           /\ grants' \in Seq(Holder)
           /\ \/ /\ lease.holder = h /\ lease.generation # 0
                 /\ lease'.generation = lease.generation
                 /\ grants' = grants
              \/ /\ lease'.generation = lease.generation + 1
                 /\ grants' = Append(grants, h)
                 /\ lease.generation # 0 => lease.expiresAt <= now + TextSlack
  <1> USE LeaseAssumption DEF IInv, TypeOK, Leases
  <1>1. now \in Nat
    BY ReadingBounds
  <1>2. CASE Renews(h, now)
    <2>1. lease.generation # 0
      BY <1>2 DEF Renews, RowInv, NoLease
    <2>2. QED
      BY <1>1, <1>2, <2>1 DEF AcquireLeadership, Renews
  <1>3. CASE ~Renews(h, now)
    <2>1. lease' = [holder |-> h, generation |-> lease.generation + 1,
                    expiresAt |-> now + TTL] /\ grants' = Append(grants, h)
      BY <1>3 DEF AcquireLeadership
    <2>2. lease.generation # 0 => ~TextAfter(lease.expiresAt, now)
      BY <1>1, <1>3 DEF AcquireLeadership, Acquirable, Renews, NoLease
    <2>3. lease.expiresAt \in Nat
      OBVIOUS
    <2>4. lease.generation # 0 => lease.expiresAt <= now + TextSlack
      BY ONLY <1>1, <2>2, <2>3, TextOrder
    <2>5. QED
      BY <1>1, <2>1, <2>4
  <1>4. QED
    BY <1>2, <1>3

\* What was granted stays granted.
LEMMA GrantedStable ==
    ASSUME grants \in Seq(Holder), NEW k \in Holder,
           grants' = grants \/ grants' = Append(grants, k),
           NEW h, NEW g \in Nat, Granted(h, g)
    PROVE  Granted(h, g)'
  BY DEF Granted

LEMMA AcquireInv ==
    ASSUME IInv, NEW h \in Holder, NEW t \in Threads, AcquireStatement(h, t)
    PROVE  IInv'
  <1> USE LeaseAssumption
  <1>1. PICK now \in Readings(h) : AcquireLeadership(h, now)
    BY DEF AcquireStatement
  <1>2. now \in Nat /\ now <= Now(h) /\ now + MaxLag >= Now(h)
    BY ReadingBounds DEF IInv, TypeOK
  <1>3. /\ lease' \in Leases /\ lease'.holder = h /\ lease'.expiresAt = now + TTL
        /\ grants' \in Seq(Holder)
        /\ \/ /\ lease.holder = h /\ lease.generation # 0
              /\ lease'.generation = lease.generation
              /\ grants' = grants
           \/ /\ lease'.generation = lease.generation + 1
              /\ grants' = Append(grants, h)
              /\ lease.generation # 0 => lease.expiresAt <= now + TextSlack
    BY <1>1, AcquireCases
  <1>4. UNCHANGED <<clock, session, role, pass, authority>>
        /\ call' = [call EXCEPT ![h][t] = [at |-> "acquired", lease |-> lease']]
    BY DEF AcquireStatement, Answer
  <1>5. TypeOK'
    BY <1>3, <1>4 DEF IInv, TypeOK, Calls, Threads
  <1>6. RowInv'
    BY <1>3 DEF IInv, TypeOK, RowInv, Granted, Leases
  <1>7. ASSUME NEW k, NEW g \in Nat, Granted(k, g) PROVE Granted(k, g)'
    BY <1>3, <1>7, GrantedStable DEF IInv, TypeOK
  <1>8. lease'.generation # 0 /\ Granted(h, lease.generation)'
    <2>1. lease'.generation # 0
      BY <1>3 DEF Leases, IInv, TypeOK
    <2>2. QED
      BY <2>1, <1>3, <1>6 DEF RowInv
  <1>9. ReadInv'
    <2> SUFFICES ASSUME NEW k \in Holder, NEW u \in Threads
                 PROVE  (/\ call[k][u].lease.generation # 0 =>
                              Granted(call[k][u].lease.holder, call[k][u].lease.generation)
                         /\ call[k][u].at = "acquired" =>
                              Granted(k, call[k][u].lease.generation))'
      BY DEF ReadInv
    <2>1. CASE k = h /\ u = t
      <3>1. call'[k][u] = [at |-> "acquired", lease |-> lease']
        BY <1>4, <2>1 DEF IInv, TypeOK
      <3>2. QED
        BY <3>1, <2>1, <1>3, <1>8 DEF Granted
    <2>2. CASE ~(k = h /\ u = t)
      <3>1. call'[k][u] = call[k][u] /\ call[k][u].lease.generation \in Nat
        BY SMTT(30), <1>4, <2>2 DEF IInv, TypeOK, Calls, Leases
      <3>2. QED
        BY <3>1, <1>7 DEF IInv, ReadInv
    <2>3. QED
      BY <2>1, <2>2
  <1>10. GrantInv'
    <2> SUFFICES ASSUME NEW k \in Holder
                 PROVE  (/\ session[k].generation # 0 => Granted(k, session[k].generation)
                         /\ session[k].status = "none" <=> session[k].generation = 0
                         /\ authority[k].generation # 0 => Granted(k, authority[k].generation))'
      BY DEF GrantInv
    <2>1. session[k].generation \in Nat /\ authority[k].generation \in Nat
      BY DEF IInv, TypeOK, Sessions, Authorities
    <2>2. session' = session /\ authority' = authority
      BY <1>4
    <2>3. QED
      BY <2>1, <2>2, <1>7 DEF IInv, GrantInv
  <1>11. ASSUME NEW k \in Holder, NEW g \in Nat, NEW until \in Nat,
                Granted(k, g), Bounded(k, g, until)
         PROVE  Bounded(k, g, until)'
    <2>1. g <= lease.generation /\ g # 0
      BY <1>11 DEF IInv, RowInv, Granted, TypeOK, Leases
    <2>2. Now(k)' = Now(k) /\ clock' = clock /\ Now(k) \in Nat
      BY <1>4 DEF Now, IInv, TypeOK
    <2>3. Now(h) <= clock + MaxSkew /\ Now(h) \in Nat /\ clock \in Nat
      BY DEF Now, IInv, TypeOK
    <2>4. lease.generation # 0 => Granted(lease.holder, lease.generation)
      BY DEF IInv, RowInv
    <2>5. CASE lease'.generation = lease.generation /\ lease.holder = h
      <3>1. CASE g = lease.generation
        <4>1. k = h
          BY <1>11, <2>1, <2>4, <2>5, <3>1 DEF Granted
        <4>2. QED
          BY <1>2, <1>3, <1>11, <2>2, <2>5, <3>1, <4>1 DEF Bounded
      <3>2. CASE g # lease.generation
        BY <1>3, <1>11, <2>2, <2>5, <3>2 DEF Bounded
      <3>3. QED
        BY <3>1, <3>2
    <2>6. CASE lease'.generation = lease.generation + 1
               /\ (lease.generation # 0 => lease.expiresAt <= now + TextSlack)
      <3>1. g < lease'.generation
        BY <2>1, <2>6 DEF IInv, TypeOK, Leases
      <3>2. until <= clock + MaxSkew + MaxLag + TextSlack
        BY <1>2, <1>11, <2>1, <2>3, <2>6, SlackIsNat DEF Bounded, IInv, TypeOK, Leases
      <3>3. QED
        BY <1>3, <1>11, <2>1, <2>2, <3>1, <3>2 DEF Bounded, Leases
    <2>7. QED
      BY <1>3, <2>5, <2>6
  <1>12. ExpiryInv'
    <2>1. (lease.generation # 0 => lease.expiresAt <= Now(lease.holder) + TTL)'
      BY <1>2, <1>3, <1>4 DEF Now, IInv, TypeOK
    <2>2. ASSUME NEW k \in Holder
          PROVE  (authority[k].generation # 0 =>
                    Bounded(k, authority[k].generation, authority[k].validUntil))'
      <3>1. authority[k] \in Authorities /\ authority'[k] = authority[k]
        BY <1>4 DEF IInv, TypeOK
      <3>2. QED
        BY <3>1, <1>11 DEF IInv, GrantInv, ExpiryInv, Authorities
    <2>3. ASSUME NEW k \in Holder, call'[k]["pass"].lease.generation # 0,
                 call'[k]["pass"].lease.holder = k
          PROVE  Bounded(k, call[k]["pass"].lease.generation, call[k]["pass"].lease.expiresAt)'
      <3>1. CASE k = h /\ t = "pass"
        <4>1. call'[k]["pass"].lease = lease'
          BY <1>4, <3>1 DEF IInv, TypeOK, Threads
        <4>2. Now(k) \in Nat /\ Now(k)' = Now(k)
          BY <1>4 DEF IInv, TypeOK, Now
        <4>3. QED
          BY <1>2, <1>3, <3>1, <4>1, <4>2 DEF Bounded, Leases
      <3>2. CASE ~(k = h /\ t = "pass")
        <4>1. call'[k]["pass"] = call[k]["pass"] /\ call[k]["pass"].lease \in Leases
          BY <1>4, <3>2 DEF IInv, TypeOK, Threads, Calls
        <4>2. Granted(k, call[k]["pass"].lease.generation)
          BY <2>3, <4>1 DEF IInv, ReadInv, Threads
        <4>3. QED
          BY <1>11, <2>3, <4>1, <4>2 DEF IInv, ExpiryInv, Leases
      <3>3. QED
        BY <3>1, <3>2
    <2>4. QED
      BY <2>1, <2>2, <2>3 DEF ExpiryInv
  <1>13. QED
    BY <1>5, <1>6, <1>9, <1>10, <1>12 DEF IInv

-----------------------------------------------------------------------------
(* The steps that leave the row alone                                      *)

\* What such a step of h may do to its own state: record the row, or nothing,
\* as an answer; keep or renew its session; take up or drop an authority.
OwnState(h) ==
    /\ \A t \in Threads :
         \/ call'[h][t] = call[h][t]
         \/ call'[h][t].at # "acquired" /\ call'[h][t].lease \in {lease, NoLease}
    /\ session'[h].generation # 0 => Granted(h, session'[h].generation)
    /\ session'[h].status = "none" <=> session'[h].generation = 0
    /\ \/ authority'[h] \in {authority[h], NoAuthority}
       \/ /\ Granted(h, authority'[h].generation)
          /\ Bounded(h, authority'[h].generation, authority'[h].validUntil)

LEMMA LocalInv ==
    ASSUME IInv, NEW h \in Holder, TypeOK', UNCHANGED <<clock, lease, grants>>, OwnState(h),
           \A k \in Holder \ {h} : /\ call'[k] = call[k] /\ session'[k] = session[k]
                                   /\ authority'[k] = authority[k]
    PROVE  IInv'
  <1> USE LeaseAssumption
  <1>1. RowInv'
    BY DEF IInv, RowInv, Granted
  <1>2. ReadInv'
    <2> SUFFICES ASSUME NEW k \in Holder, NEW t \in Threads
                 PROVE  (/\ call[k][t].lease.generation # 0 =>
                              Granted(call[k][t].lease.holder, call[k][t].lease.generation)
                         /\ call[k][t].at = "acquired" =>
                              Granted(k, call[k][t].lease.generation))'
      BY DEF ReadInv
    <2>1. CASE call'[k][t] = call[k][t]
      BY <2>1 DEF IInv, ReadInv, Granted
    <2>2. CASE call'[k][t] # call[k][t]
      <3>1. call'[k][t].at # "acquired" /\ call'[k][t].lease \in {lease, NoLease}
        BY <2>2 DEF OwnState
      <3>2. QED
        BY <3>1 DEF IInv, RowInv, NoLease, Granted
    <2>3. QED
      BY <2>1, <2>2
  <1>3. GrantInv'
    BY DEF IInv, GrantInv, OwnState, Granted, NoAuthority
  <1>4. ExpiryInv'
    <2>1. (lease.generation # 0 => lease.expiresAt <= Now(lease.holder) + TTL)'
      BY DEF IInv, ExpiryInv, Now
    <2>2. ASSUME NEW k \in Holder
          PROVE  (authority[k].generation # 0 =>
                    Bounded(k, authority[k].generation, authority[k].validUntil))'
      <3>1. CASE authority'[k] = authority[k]
        BY <3>1 DEF IInv, ExpiryInv, Bounded, Now
      <3>2. CASE k = h /\ authority'[k] # authority[k]
        BY <3>2 DEF OwnState, NoAuthority, Bounded, Now
      <3>3. QED
        BY <3>1, <3>2
    <2>3. ASSUME NEW k \in Holder, call'[k]["pass"].lease.generation # 0,
                 call'[k]["pass"].lease.holder = k
          PROVE  Bounded(k, call[k]["pass"].lease.generation, call[k]["pass"].lease.expiresAt)'
      <3>1. CASE call'[k]["pass"] = call[k]["pass"]
        BY <2>3, <3>1 DEF IInv, ExpiryInv, Bounded, Now
      <3>2. CASE call'[k]["pass"] # call[k]["pass"]
        <4>1. call'[k]["pass"].lease = lease
          BY <2>3, <3>2 DEF OwnState, Threads, NoLease
        <4>2. QED
          BY <2>3, <4>1 DEF IInv, TypeOK, Leases, ExpiryInv, Bounded, Now
      <3>3. QED
        BY <3>1, <3>2
    <2>4. QED
      BY <2>1, <2>2, <2>3 DEF ExpiryInv
  <1>5. QED
    BY <1>1, <1>2, <1>3, <1>4 DEF IInv

\* A session that is only synchronised stays one that was granted.
LEMMA SyncedSession ==
    ASSUME IInv, NEW h \in Holder, NEW l \in Leases,
           session' = [session EXCEPT ![h] = Sync(h, @, l)]
    PROVE  /\ session' \in [Holder -> Sessions]
           /\ session'[h].generation # 0 => Granted(h, session'[h].generation)
           /\ session'[h].status = "none" <=> session'[h].generation = 0
           /\ \A k \in Holder \ {h} : session'[k] = session[k]
  <1>1. session \in [Holder -> Sessions]
    BY DEF IInv, TypeOK
  <1>2. session'[h] = Sync(h, session[h], l)
    BY <1>1
  <1>3. QED
    BY <1>1, <1>2, SyncKeeps DEF IInv, GrantInv

\* The pause of a process is such a synchronisation.
LEMMA PausedSession ==
    ASSUME IInv, NEW h \in Holder, Pause(h)
    PROVE  /\ session' \in [Holder -> Sessions]
           /\ session'[h].generation # 0 => Granted(h, session'[h].generation)
           /\ session'[h].status = "none" <=> session'[h].generation = 0
           /\ \A k \in Holder \ {h} : session'[k] = session[k]
  <1> DEFINE l == [holder |-> h, generation |-> session[h].generation, expiresAt |-> 0]
  <1>1. l \in Leases /\ session \in [Holder -> Sessions]
    BY DEF IInv, TypeOK, Sessions, Leases
  <1>2. session' = [session EXCEPT ![h] = Sync(h, @, l)]
    BY DEF Pause, Paused
  <1>3. QED
    BY <1>1, <1>2, SyncedSession

\* The statements that acquire nothing.
LEMMA ContendedInv ==
    ASSUME IInv, NEW h \in Holder, NEW t \in Threads,
           ContendedStatement(h, t) \/ ReadContended(h, t)
    PROVE  IInv'
  <1>1. UNCHANGED <<clock, lease, grants, session, role, pass, authority>>
    BY DEF ContendedStatement, ReadContended
  <1>2. PICK a \in Calls : /\ a.at # "acquired" /\ a.lease \in {lease, NoLease}
                           /\ call' = [call EXCEPT ![h][t] = a]
    BY DEF ContendedStatement, ReadContended, Answer, Calls, IInv, TypeOK, NoLease, Leases
  <1>3. TypeOK'
    BY <1>1, <1>2 DEF IInv, TypeOK
  <1>4. OwnState(h)
    BY <1>1, <1>2 DEF OwnState, IInv, TypeOK, GrantInv
  <1>5. QED
    BY <1>1, <1>2, <1>3, <1>4, LocalInv DEF IInv, TypeOK

LEMMA NoCallIsCall == NoCall \in Calls /\ NoCall.at # "acquired" /\ NoCall.lease = NoLease
  BY DEF NoCall, Calls, NoLease, Leases

LEMMA FailsInv ==
    ASSUME IInv, NEW h \in Holder, NEW t \in Threads, StatementFails(h, t)
    PROVE  IInv'
  <1>1. UNCHANGED <<clock, lease, grants, pass, authority>> /\ Pause(h)
        /\ call' = [call EXCEPT ![h][t] = NoCall]
    BY DEF StatementFails
  <1>2. /\ session' \in [Holder -> Sessions]
        /\ session'[h].generation # 0 => Granted(h, session'[h].generation)
        /\ session'[h].status = "none" <=> session'[h].generation = 0
        /\ \A k \in Holder \ {h} : session'[k] = session[k]
    BY <1>1, PausedSession
  <1>3. TypeOK'
    BY <1>1, <1>2, NoCallIsCall DEF IInv, TypeOK, Pause
  <1>4. OwnState(h)
    BY <1>1, <1>2, NoCallIsCall DEF OwnState, IInv, TypeOK
  <1>5. QED
    BY <1>1, <1>2, <1>3, <1>4, LocalInv DEF IInv, TypeOK

LEMMA ReadFailsInv ==
    ASSUME IInv, NEW h \in Holder, ReadFails(h)
    PROVE  IInv'
  <1>1. UNCHANGED <<clock, lease, grants, call, authority>> /\ Pause(h)
        /\ pass' \in {pass, [pass EXCEPT ![h] = "idle"]}
    BY DEF ReadFails
  <1>2. /\ session' \in [Holder -> Sessions]
        /\ session'[h].generation # 0 => Granted(h, session'[h].generation)
        /\ session'[h].status = "none" <=> session'[h].generation = 0
        /\ \A k \in Holder \ {h} : session'[k] = session[k]
    BY <1>1, PausedSession
  <1>3. TypeOK'
    BY <1>1, <1>2 DEF IInv, TypeOK, Pause
  <1>4. OwnState(h)
    BY <1>1, <1>2 DEF OwnState, IInv, TypeOK
  <1>5. QED
    BY <1>1, <1>2, <1>3, <1>4, LocalInv DEF IInv, TypeOK

\* The answer of an acquisition is a row that was granted to the process.
LEMMA FinishInv ==
    ASSUME IInv, NEW h \in Holder, NEW t \in Threads, FinishAcquire(h, t)
    PROVE  IInv'
  <1> DEFINE l == call[h][t].lease
  <1>1. /\ UNCHANGED <<clock, lease, grants, authority>>
        /\ call' = [call EXCEPT ![h][t] = NoCall]
        /\ pass' \in {pass, [pass EXCEPT ![h] = "leading"]}
        /\ \/ call[h][t].at = "acquired" /\ Enter(h, l)
           \/ ObserveFollower(h, l)
    BY DEF FinishAcquire
  <1>2. l \in Leases
    BY DEF IInv, TypeOK, Calls
  <1>3. call[h][t].at = "acquired" => Granted(h, l.generation)
    BY DEF IInv, ReadInv
  <1>4. \/ session' = [session EXCEPT ![h] = Sync(h, @, l)]
        \/ /\ session' = [session EXCEPT ![h] =
                             [generation |-> l.generation, status |-> "active"]]
           /\ call[h][t].at = "acquired"
    BY <1>1 DEF Enter, ObserveFollower
  <1>5. /\ session' \in [Holder -> Sessions]
        /\ session'[h].generation # 0 => Granted(h, session'[h].generation)
        /\ session'[h].status = "none" <=> session'[h].generation = 0
        /\ \A k \in Holder \ {h} : session'[k] = session[k]
    <2>1. CASE session' = [session EXCEPT ![h] = Sync(h, @, l)]
      BY <1>2, <2>1, SyncedSession
    <2>2. CASE /\ session' = [session EXCEPT ![h] =
                                [generation |-> l.generation, status |-> "active"]]
               /\ call[h][t].at = "acquired"
      <3>1. [generation |-> l.generation, status |-> "active"] \in Sessions
        BY <1>2 DEF Sessions, Leases
      <3>2. session'[h] = [generation |-> l.generation, status |-> "active"]
        BY <2>2 DEF IInv, TypeOK
      <3>3. session' \in [Holder -> Sessions]
        BY <2>2, <3>1 DEF IInv, TypeOK
      <3>4. Granted(h, l.generation) /\ l.generation # 0
        BY <1>2, <1>3, <2>2 DEF Granted
      <3>5. QED
        BY <2>2, <3>2, <3>3, <3>4 DEF IInv, TypeOK
    <2>3. QED
      BY <1>4, <2>1, <2>2
  <1>6. role' \in [Holder -> {"leader", "follower", "paused"}]
    BY <1>1 DEF IInv, TypeOK, Enter, ObserveFollower
  <1>7. TypeOK'
    BY <1>1, <1>5, <1>6, NoCallIsCall DEF IInv, TypeOK
  <1>8. OwnState(h)
    BY <1>1, <1>5, NoCallIsCall DEF OwnState, IInv, TypeOK
  <1>9. QED
    BY <1>1, <1>5, <1>7, <1>8, LocalInv DEF IInv, TypeOK

LEMMA ReadLeaseInv ==
    ASSUME IInv, NEW h \in Holder, NEW at \in {"validate", "revalidate"}, ReadLease(h, at)
    PROVE  IInv'
  <1>1. UNCHANGED <<clock, lease, grants, session, role, pass, authority>>
        /\ call' = [call EXCEPT ![h]["pass"] = [at |-> at, lease |-> lease]]
    BY DEF ReadLease, Answer
  <1>2. TypeOK'
    BY <1>1 DEF IInv, TypeOK, Calls, Threads
  <1>3. OwnState(h)
    BY <1>1 DEF OwnState, IInv, TypeOK, GrantInv, Threads
  <1>4. QED
    BY <1>1, <1>2, <1>3, LocalInv DEF IInv, TypeOK

\* The authority taken is of the session's generation, with the expiry of the
\* row that was read.
LEMMA AuthorityInv ==
    ASSUME IInv, NEW h \in Holder, Authority(h)
    PROVE  IInv'
  <1> DEFINE l == call[h]["pass"].lease
             synced == Sync(h, session[h], l)
  <1>1. /\ UNCHANGED <<clock, lease, grants>>
        /\ call' = [call EXCEPT ![h]["pass"] = NoCall]
        /\ session' = [session EXCEPT ![h] = synced]
        /\ role' \in {[role EXCEPT ![h] = "leader"], [role EXCEPT ![h] = "paused"]}
        /\ pass' \in {[pass EXCEPT ![h] = "authorized"], [pass EXCEPT ![h] = "idle"]}
        /\ \/ authority' = authority
           \/ /\ synced.status = "active"
              /\ authority' = [authority EXCEPT ![h] =
                    [generation |-> synced.generation, validUntil |-> l.expiresAt]]
    BY DEF Authority
  <1>2. l \in Leases /\ session[h] \in Sessions
    BY DEF IInv, TypeOK, Calls, Threads
  <1>3. session' = [session EXCEPT ![h] = Sync(h, @, l)]
    BY <1>1
  <1>4. /\ session' \in [Holder -> Sessions]
        /\ session'[h].generation # 0 => Granted(h, session'[h].generation)
        /\ session'[h].status = "none" <=> session'[h].generation = 0
        /\ \A k \in Holder \ {h} : session'[k] = session[k]
    BY <1>2, <1>3, SyncedSession
  <1>5. /\ synced \in Sessions
        /\ synced.generation = session[h].generation
        /\ synced.status = "none" <=> session[h].status = "none"
        /\ synced.status = "active" => l.generation = session[h].generation /\ l.holder = h
    BY <1>2, SyncKeeps
  <1>6. synced.status = "active" =>
           /\ Granted(h, synced.generation)
           /\ Bounded(h, synced.generation, l.expiresAt)
    <2> SUFFICES ASSUME synced.status = "active"
                 PROVE  Granted(h, synced.generation)
                        /\ Bounded(h, synced.generation, l.expiresAt)
      OBVIOUS
    <2>1. session[h].generation # 0
      BY <1>5 DEF IInv, GrantInv
    <2>2. QED
      BY <1>5, <2>1 DEF IInv, GrantInv, ExpiryInv
  <1>7. authority' \in [Holder -> Authorities]
    <2>1. [generation |-> synced.generation, validUntil |-> l.expiresAt] \in Authorities
      BY <1>2, <1>5 DEF Authorities, Sessions, Leases
    <2>2. QED
      BY <1>1, <2>1 DEF IInv, TypeOK
  <1>8. TypeOK'
    BY <1>1, <1>4, <1>7, NoCallIsCall DEF IInv, TypeOK
  <1>9. \/ authority'[h] = authority[h]
        \/ /\ Granted(h, authority'[h].generation)
           /\ Bounded(h, authority'[h].generation, authority'[h].validUntil)
    BY <1>1, <1>6 DEF IInv, TypeOK
  <1>10. OwnState(h)
    BY <1>1, <1>4, <1>9, NoCallIsCall DEF OwnState, IInv, TypeOK, Threads
  <1>11. QED
    BY <1>1, <1>4, <1>8, <1>10, LocalInv DEF IInv, TypeOK

LEMMA RevalidateInv ==
    ASSUME IInv, NEW h \in Holder, Revalidate(h)
    PROVE  IInv'
  <1> DEFINE l == call[h]["pass"].lease
  <1>1. /\ UNCHANGED <<clock, lease, grants, pass, authority>>
        /\ call' = [call EXCEPT ![h]["pass"] = NoCall]
        /\ UNCHANGED <<session, role>> \/ ObserveFollower(h, l)
    BY DEF Revalidate
  <1>2. l \in Leases
    BY DEF IInv, TypeOK, Calls, Threads
  <1>3. /\ session' \in [Holder -> Sessions]
        /\ session'[h].generation # 0 => Granted(h, session'[h].generation)
        /\ session'[h].status = "none" <=> session'[h].generation = 0
        /\ \A k \in Holder \ {h} : session'[k] = session[k]
    <2>1. CASE session' = session
      BY <2>1 DEF IInv, TypeOK, GrantInv
    <2>2. CASE ObserveFollower(h, l)
      BY <1>2, <2>2, SyncedSession DEF ObserveFollower
    <2>3. QED
      BY <1>1, <2>1, <2>2
  <1>4. TypeOK'
    BY <1>1, <1>3, NoCallIsCall DEF IInv, TypeOK, ObserveFollower
  <1>5. OwnState(h)
    BY <1>1, <1>3, NoCallIsCall DEF OwnState, IInv, TypeOK, Threads
  <1>6. QED
    BY <1>1, <1>3, <1>4, <1>5, LocalInv DEF IInv, TypeOK

LEMMA EndPassInv ==
    ASSUME IInv, NEW h \in Holder, EndPass(h)
    PROVE  IInv'
  <1>1. UNCHANGED <<clock, lease, grants, session, role, call>>
        /\ pass' = [pass EXCEPT ![h] = "idle"]
        /\ authority' = [authority EXCEPT ![h] = NoAuthority]
    BY DEF EndPass
  <1>2. TypeOK'
    BY <1>1 DEF IInv, TypeOK, NoAuthority, Authorities
  <1>3. OwnState(h)
    BY <1>1 DEF OwnState, IInv, TypeOK, GrantInv
  <1>4. QED
    BY <1>1, <1>2, <1>3, LocalInv DEF IInv, TypeOK

-----------------------------------------------------------------------------
(* Every step                                                              *)

LEMMA StutterInv == IInv /\ UNCHANGED vars => IInv'
  <1> SUFFICES ASSUME IInv, UNCHANGED vars PROVE IInv'
    OBVIOUS
  <1> USE DEF IInv, vars
  <1>1. TypeOK'
    BY DEF TypeOK
  <1>2. RowInv' /\ ReadInv' /\ GrantInv'
    BY DEF RowInv, ReadInv, GrantInv, Granted
  <1>3. ExpiryInv'
    BY DEF ExpiryInv, Bounded, Now
  <1>4. QED
    BY <1>1, <1>2, <1>3

LEMMA NextInv == IInv /\ [Next]_vars => IInv'
  <1> SUFFICES ASSUME IInv, [Next]_vars PROVE IInv'
    OBVIOUS
  <1>1. CASE UNCHANGED vars
    BY <1>1, StutterInv
  <1>2. CASE TickAll
    BY <1>2, TickInv
  <1>3. ASSUME NEW h \in Holder, Process(h) PROVE IInv'
    <2>1. ASSUME NEW t \in Threads, AcquireStatement(h, t) PROVE IInv'
      BY <2>1, AcquireInv
    <2>2. ASSUME NEW t \in Threads, ContendedStatement(h, t) \/ ReadContended(h, t)
          PROVE  IInv'
      BY <2>2, ContendedInv
    <2>3. ASSUME NEW t \in Threads, StatementFails(h, t) PROVE IInv'
      BY <2>3, FailsInv
    <2>4. ASSUME NEW t \in Threads, FinishAcquire(h, t) PROVE IInv'
      BY <2>4, FinishInv
    <2>5. ASSUME NEW at \in {"validate", "revalidate"}, ReadLease(h, at) PROVE IInv'
      BY <2>5, ReadLeaseInv
    <2>6. CASE ReadFails(h)
      BY <2>6, ReadFailsInv
    <2>7. CASE Authority(h)
      BY <2>7, AuthorityInv
    <2>8. CASE Revalidate(h)
      BY <2>8, RevalidateInv
    <2>9. CASE EndPass(h)
      BY <2>9, EndPassInv
    <2>10. QED
      BY <1>3, <2>1, <2>2, <2>3, <2>4, <2>5, <2>6, <2>7, <2>8, <2>9 DEF Process
  <1>4. QED
    BY <1>1, <1>2, <1>3 DEF Next

LEMMA SpecInv == Spec => []IInv
  <1>1. QED
    BY InitInv, NextInv, PTL DEF Spec

-----------------------------------------------------------------------------
(* The theorems                                                            *)

\* Every variable keeps its type, whatever the number of processes, the lease
\* duration, the skew and the lag.
THEOREM TypesCorrect == Spec => []TypeOK
  <1>1. IInv => TypeOK
    BY DEF IInv
  <1>2. QED
    BY <1>1, SpecInv, PTL

\* A fencing generation belongs to one process (leadership.go AcquireLeadership
\* and Session.Sync): a generation is handed out once, and sessions and
\* authorities are only ever of generations handed to their process.
THEOREM GenerationHasOneHolder == Spec => []OneHolderPerGeneration
  <1>1. ASSUME IInv PROVE OneHolderPerGeneration
    BY <1>1 DEF IInv, GrantInv, Granted, OneHolderPerGeneration
  <1>2. QED
    BY <1>1, SpecInv, PTL

\* Once the lease has moved on, an authority of an older generation expires
\* within the clock skew and the statement lag: the expiry in the authority is
\* what limits a stale leader after its last database check.
THEOREM StaleAuthorityRunsOut == Spec => []SupersededAuthorityLapses
  <1>1. ASSUME IInv PROVE SupersededAuthorityLapses
    <2> SUFFICES ASSUME NEW h \in Holder,
                        authority[h].generation \notin {0, lease.generation}
                 PROVE  authority[h].validUntil <= clock + MaxSkew + MaxLag + TextSlack
      BY DEF SupersededAuthorityLapses
    <2>1. authority[h].generation < lease.generation
      BY <1>1 DEF IInv, GrantInv, RowInv, Granted, TypeOK, Authorities, Leases
    <2>2. QED
      BY <1>1, <2>1 DEF IInv, ExpiryInv, Bounded
  <1>2. QED
    BY <1>1, SpecInv, PTL

-----------------------------------------------------------------------------
(* A session does not fall back across another process's turn              *)

\* The generations from that of the row l on that went to others than h.
Foreign(h, l) == {g \in l.generation .. Len(grants) : grants[g] # h}

\* How long the row l, which an acquisition of h returned, can seem active:
\* until about the expiry of the lease as long as only h has led; until about
\* now once somebody else has, who waited for its expiry and whose own turn is
\* longer than the lag; and for h no longer than now if h led again after that.
Outlived(h, l) ==
    /\ l.expiresAt <= Now(h) + TTL
    /\ Foreign(h, l) = {} => l.expiresAt <= lease.expiresAt + MaxLag
    /\ Foreign(h, l) # {} =>
         /\ l.expiresAt <= Now(lease.holder) + MaxLag + TextSlack
         /\ l.expiresAt + TTL <= lease.expiresAt + 2 * MaxLag + TextSlack
    /\ \A x \in Foreign(h, l), y \in 1 .. Len(grants) :
         x < y /\ grants[y] = h => l.expiresAt <= Now(h)

TurnInv ==
    \A h \in Holder, t \in Threads :
        call[h][t].at = "acquired" => Outlived(h, call[h][t].lease)

\* While the row and its history stay, the rows returned outlive nothing new.
LEMMA OutlivedStays ==
    ASSUME IInv, UNCHANGED <<lease, grants>>, clock' \in Nat, clock <= clock',
           NEW h \in Holder, NEW l \in Leases, Outlived(h, l),
           l.generation \in 1 .. Len(grants)
    PROVE  Outlived(h, l)'
  <1> USE LeaseAssumption
  <1>1. clock \in Nat /\ l.expiresAt \in Nat /\ lease.expiresAt \in Nat
    BY DEF IInv, TypeOK, Leases
  <1>2. ASSUME NEW k \in Holder PROVE Now(k) \in Nat /\ Now(k)' \in Nat /\ Now(k) <= Now(k)'
    BY <1>1 DEF Now
  <1>3. lease.holder \in Holder
    BY DEF IInv, RowInv, Granted, TypeOK, Leases
  <1>4. Foreign(h, l)' = Foreign(h, l)
    BY DEF Foreign
  <1>5. lease' = lease /\ grants' = grants
    OBVIOUS
  <1>6. (l.expiresAt <= Now(h) + TTL)'
    BY <1>1, <1>2 DEF Outlived
  <1>7. (Foreign(h, l) # {} => l.expiresAt <= Now(lease.holder) + MaxLag + TextSlack)'
    <2>1. PICK k \in Holder : k = lease.holder
      BY <1>3
    <2>2. Foreign(h, l) # {} => l.expiresAt <= Now(k)' + MaxLag + TextSlack
      <3>1. Foreign(h, l) # {} => l.expiresAt <= Now(k) + MaxLag + TextSlack
        BY <2>1 DEF Outlived
      <3>2. Now(k) \in Nat /\ Now(k)' \in Nat /\ Now(k) <= Now(k)'
        BY <1>2
      <3>3. QED
        BY <1>1, <3>1, <3>2, SlackIsNat
    <2>3. Now(lease.holder)' = Now(k)'
      BY <1>5, <2>1 DEF Now
    <2>4. QED
      BY <1>4, <2>2, <2>3
  <1>8. ASSUME NEW x \in Foreign(h, l), NEW y \in 1 .. Len(grants), x < y, grants[y] = h
        PROVE  l.expiresAt <= Now(h)'
    <2>1. l.expiresAt <= Now(h)
      BY <1>8 DEF Outlived
    <2>2. Now(h) \in Nat /\ Now(h)' \in Nat /\ Now(h) <= Now(h)'
      BY <1>2
    <2>3. QED
      BY <1>1, <2>1, <2>2
  <1>9. QED
    BY <1>4, <1>5, <1>6, <1>7, <1>8 DEF Outlived

\* An acquisition by k adds its own turn.
LEMMA ForeignGrows ==
    ASSUME IInv, NEW k \in Holder, grants' = Append(grants, k),
           NEW h \in Holder, NEW l \in Leases, l.generation \in 1 .. Len(grants)
    PROVE  /\ Foreign(h, l) \subseteq 1 .. Len(grants)
           /\ Foreign(h, l)' = Foreign(h, l) \cup (IF k = h THEN {} ELSE {Len(grants) + 1})
  <1>1. grants \in Seq(Holder) /\ Len(grants) \in Nat
    BY DEF IInv, TypeOK
  <1>2. /\ Len(grants') = Len(grants) + 1
        /\ grants'[Len(grants) + 1] = k
        /\ \A g \in 1 .. Len(grants) : grants'[g] = grants[g]
    BY <1>1
  <1>3. QED
    BY <1>1, <1>2 DEF Foreign

\* A renewal or a takeover of k, who reads its clock at most MaxLag late,
\* while an older answer of h waits.
LEMMA OutlivedByAcquisition ==
    ASSUME IInv, 2 * (MaxLag + TextSlack) <= TTL, NEW k \in Holder, NEW now \in Readings(k),
           AcquireLeadership(k, now), clock' = clock,
           NEW h \in Holder, NEW l \in Leases, Outlived(h, l), Granted(h, l.generation)
    PROVE  Outlived(h, l)'
  <1>1. now \in Nat /\ now <= Now(k) /\ now + MaxLag >= Now(k)
    BY ReadingBounds DEF IInv, TypeOK
  <1>2. /\ lease' \in Leases /\ lease'.holder = k /\ lease'.expiresAt = now + TTL
        /\ grants' \in Seq(Holder)
        /\ \/ /\ lease.holder = k /\ lease.generation # 0
              /\ lease'.generation = lease.generation
              /\ grants' = grants
           \/ /\ lease'.generation = lease.generation + 1
              /\ grants' = Append(grants, k)
              /\ lease.generation # 0 => lease.expiresAt <= now + TextSlack
    BY AcquireCases
  <1>3. /\ clock \in Nat /\ l.expiresAt \in Nat /\ lease.expiresAt \in Nat
        /\ l.generation \in 1 .. Len(grants) /\ grants \in Seq(Holder)
        /\ lease.generation = Len(grants) /\ Len(grants) \in Nat
    BY DEF IInv, TypeOK, Leases, Granted, RowInv
  <1>4. ASSUME NEW j \in Holder PROVE Now(j) \in Nat /\ Now(j)' = Now(j)
    BY <1>3, LeaseAssumption DEF Now
  <1>5. lease.generation # 0 /\ lease.holder \in Holder
        /\ grants[lease.generation] = lease.holder
    BY <1>3 DEF IInv, RowInv, Granted, TypeOK, Leases
  <1>6. Now(lease.holder)' = clock' + Skew[lease'.holder]
    BY DEF Now
  <1>7. /\ TTL \in Nat /\ MaxLag \in Nat /\ TextSlack \in Nat /\ now \in Nat
         /\ l.expiresAt \in Nat /\ lease.expiresAt \in Nat
    BY <1>1, <1>3, LeaseAssumption, SlackIsNat
  <1>8. (l.expiresAt <= Now(h) + TTL)'
    BY <1>4 DEF Outlived
  <1>9. CASE lease.holder = k /\ grants' = grants
    <2>1. Foreign(h, l)' = Foreign(h, l)
      BY <1>9 DEF Foreign
    <2>2. Foreign(h, l) = {} => l.expiresAt <= now + TTL + MaxLag
      <3>1. Foreign(h, l) = {} => h = k
        BY <1>3, <1>5, <1>9 DEF Foreign
      <3>2. Foreign(h, l) = {} => Now(h) <= now + MaxLag
        BY <1>1, <3>1
      <3>3. l.expiresAt <= Now(h) + TTL /\ Now(h) \in Nat
        BY <1>4 DEF Outlived
      <3>4. QED
        BY ONLY <1>7, <3>2, <3>3
    <2>3. Foreign(h, l) # {} =>
             /\ l.expiresAt <= Now(k) + MaxLag + TextSlack
             /\ l.expiresAt + TTL <= now + TTL + 2 * MaxLag + TextSlack
      <3>1. Foreign(h, l) # {} => l.expiresAt <= Now(k) + MaxLag + TextSlack
        BY <1>9 DEF Outlived
      <3>2. Now(k) \in Nat
        BY <1>4
      <3>3. now + MaxLag >= Now(k)
        BY <1>1
      <3>4. QED
        BY ONLY <1>7, <3>1, <3>2, <3>3
    <2>4. ASSUME NEW x \in Foreign(h, l), NEW y \in 1 .. Len(grants), x < y, grants[y] = h
          PROVE  l.expiresAt <= Now(h)
      BY <2>4 DEF Outlived
    <2>5. QED
      BY <1>2, <1>4, <1>8, <1>9, <2>1, <2>2, <2>3, <2>4 DEF Outlived
  <1>10. CASE grants' = Append(grants, k) /\ lease.expiresAt <= now + TextSlack
    <2>1. lease.expiresAt <= now + TextSlack /\ 2 * (MaxLag + TextSlack) <= TTL
      BY <1>10
    <2>2. /\ Foreign(h, l) \subseteq 1 .. Len(grants)
          /\ Foreign(h, l)' = Foreign(h, l) \cup (IF k = h THEN {} ELSE {Len(grants) + 1})
      BY <1>3, <1>10, ForeignGrows
    <2>3. /\ Len(grants') = Len(grants) + 1
          /\ \A g \in 1 .. Len(grants) : grants'[g] = grants[g]
      BY <1>3, <1>10
    <2>4. l.expiresAt <= now + MaxLag + TextSlack
      <3>1. CASE Foreign(h, l) = {}
        <4>1. l.expiresAt <= lease.expiresAt + MaxLag
          BY <3>1 DEF Outlived
        <4>2. QED
          BY ONLY <1>7, <2>1, <4>1
      <3>2. CASE Foreign(h, l) # {}
        <4>1. l.expiresAt + TTL <= lease.expiresAt + 2 * MaxLag + TextSlack
          BY <3>2 DEF Outlived
        <4>2. QED
          BY ONLY <1>7, <2>1, <4>1
      <3>3. QED
        BY <3>1, <3>2
    <2>5. l.expiresAt <= now + TTL + MaxLag
      BY ONLY <1>7, <2>1, <2>4
    <2>6. Foreign(h, l) # {} => l.expiresAt <= now
      <3>1. Foreign(h, l) # {} => l.expiresAt + TTL <= lease.expiresAt + 2 * MaxLag + TextSlack
        BY DEF Outlived
      <3>2. QED
        BY ONLY <1>7, <2>1, <3>1
    <2>7. ASSUME NEW x \in Foreign(h, l)', NEW y \in 1 .. Len(grants'), x < y, grants'[y] = h
          PROVE  l.expiresAt <= Now(h)
      <3>1. Foreign(h, l) # {}
        BY <1>3, <2>2, <2>3, <2>7
      <3>2. CASE y = Len(grants) + 1
        <4>1. h = k
          BY <1>3, <1>10, <2>7, <3>2
        <4>2. l.expiresAt <= now /\ now <= Now(h) /\ Now(h) \in Nat
          BY <1>1, <1>4, <2>6, <3>1, <4>1
        <4>3. QED
          BY ONLY <1>7, <4>2
      <3>3. CASE y # Len(grants) + 1
        <4>1. y \in 1 .. Len(grants) /\ grants[y] = h /\ x \in Foreign(h, l)
          BY <1>3, <2>2, <2>3, <2>7, <3>3
        <4>2. QED
          BY <2>7, <4>1 DEF Outlived
      <3>4. QED
        BY <3>2, <3>3
    <2>8. /\ l.expiresAt <= Now(k) + MaxLag + TextSlack
          /\ l.expiresAt + TTL <= now + TTL + 2 * MaxLag + TextSlack
      <3>1. Now(k) \in Nat
        BY <1>4
      <3>2. now <= Now(k)
        BY <1>1
      <3>3. QED
        BY ONLY <1>7, <2>1, <2>4, <3>1, <3>2
    <2>9. QED
      BY <1>2, <1>4, <1>8, <2>5, <2>7, <2>8 DEF Outlived
  <1>11. QED
    BY <1>2, <1>5, <1>9, <1>10

\* A step that leaves the row, and adds no answer of an acquisition.
LEMMA TurnKept ==
    ASSUME IInv, TurnInv, UNCHANGED <<lease, grants>>, clock' \in Nat, clock <= clock',
           \A h \in Holder, t \in Threads :
               call'[h][t] = call[h][t] \/ call'[h][t].at # "acquired"
    PROVE  TurnInv'
  <1> SUFFICES ASSUME NEW h \in Holder, NEW t \in Threads, call'[h][t].at = "acquired",
                      NEW l, l = call'[h][t].lease
               PROVE  Outlived(h, l)'
    BY DEF TurnInv
  <1>1. call'[h][t] = call[h][t]
    OBVIOUS
  <1>2. l \in Leases /\ Granted(h, l.generation) /\ Outlived(h, l)
    BY <1>1 DEF IInv, TypeOK, Calls, ReadInv, TurnInv
  <1>3. QED
    BY <1>2, OutlivedStays DEF Granted

LEMMA TurnStep ==
    ASSUME IInv, TurnInv, 2 * (MaxLag + TextSlack) <= TTL, [Next]_vars
    PROVE  TurnInv'
  <1>1. clock \in Nat /\ call \in [Holder -> [Threads -> Calls]]
    BY DEF IInv, TypeOK
  <1>2. CASE UNCHANGED vars
    BY <1>1, <1>2, TurnKept DEF vars
  <1>3. CASE TickAll
    BY <1>1, <1>3, TurnKept DEF TickAll, Tick, leaseVars, managerVars
  <1>4. ASSUME NEW k \in Holder, NEW u \in Threads, AcquireStatement(k, u)
        PROVE  TurnInv'
    <2>1. PICK now \in Readings(k) : AcquireLeadership(k, now)
      BY <1>4 DEF AcquireStatement
    <2>2. clock' = clock /\ call' = [call EXCEPT ![k][u] = Answer("acquired", lease')]
      BY <1>4 DEF AcquireStatement
    <2> SUFFICES ASSUME NEW h \in Holder, NEW t \in Threads, call'[h][t].at = "acquired",
                        NEW l, l = call'[h][t].lease
                 PROVE  Outlived(h, l)'
      BY DEF TurnInv
    <2>3. CASE h = k /\ t = u
      <3>1. l = lease' /\ lease' \in Leases /\ lease'.expiresAt = now + TTL
            /\ lease'.holder = k
        BY <1>1, <2>1, <2>2, <2>3, AcquireCases DEF Answer
      <3>2. IInv'
        BY <1>4, AcquireInv
      <3>3. /\ Len(grants') = l.generation /\ grants'[l.generation] = h
            /\ l.generation \in Nat
        BY <2>1, <2>3, <3>1, <3>2, AcquireCases DEF IInv, RowInv, Granted, Leases
      <3>4. Foreign(h, l)' = {}
        BY <3>3 DEF Foreign
      <3>5. now \in Nat /\ now <= Now(h) /\ Now(h)' = Now(h) /\ Now(h) \in Nat
        <4>1. now \in Nat /\ now <= Now(h)
          BY <1>1, <2>3, ReadingBounds
        <4>2. Now(h)' = Now(h) /\ Now(h) \in Nat
          <5>1. Skew[h] \in Nat /\ clock' = clock
            BY <2>2, LeaseAssumption
          <5>2. QED
            BY <1>1, <5>1 DEF Now
        <4>3. QED
          BY <4>1, <4>2
      <3>6. QED
        BY <3>1, <3>4, <3>5, LeaseAssumption DEF Outlived
    <2>4. CASE ~(h = k /\ t = u)
      <3>1. call'[h][t] = call[h][t]
        BY <1>1, <2>2, <2>4
      <3>2. l \in Leases /\ Granted(h, l.generation) /\ Outlived(h, l)
        BY <3>1 DEF IInv, TypeOK, Calls, ReadInv, TurnInv
      <3>3. QED
        BY <2>1, <2>2, <3>2, OutlivedByAcquisition
    <2>5. QED
      BY <2>3, <2>4
  <1>5. ASSUME NEW k \in Holder, Process(k),
               \A u \in Threads : ~AcquireStatement(k, u)
        PROVE  TurnInv'
    <2>1. /\ UNCHANGED <<clock, lease, grants>>
          /\ \/ call' = call
             \/ \E u \in Threads, a \in {NoCall, Answer("contended", NoLease),
                      Answer("held", lease), Answer("validate", lease),
                      Answer("revalidate", lease)} : call' = [call EXCEPT ![k][u] = a]
      BY <1>5 DEF Process, ContendedStatement, ReadContended, StatementFails, FinishAcquire,
                  ReadLease, ReadFails, Authority, Revalidate, EndPass, Threads
    <2>2. ASSUME NEW h \in Holder, NEW t \in Threads
          PROVE  call'[h][t] = call[h][t] \/ call'[h][t].at # "acquired"
      BY <1>1, <2>1 DEF NoCall, Answer
    <2>3. QED
      BY <1>1, <2>1, <2>2, TurnKept
  <1>6. QED
    BY <1>2, <1>3, <1>4, <1>5 DEF Next

\* Only an answer of an acquisition that is still active gives a process
\* another session.
LEMMA SessionChanges ==
    ASSUME IInv, Next, NEW h \in Holder, session'[h].generation # session[h].generation
    PROVE  \E t \in Threads :
              /\ call[h][t].at = "acquired"
              /\ session'[h].generation = call[h][t].lease.generation
              /\ Active(call[h][t].lease, Now(h))
  <1>1. session \in [Holder -> Sessions] /\ call \in [Holder -> [Threads -> Calls]]
    BY DEF IInv, TypeOK
  <1>2. ASSUME NEW k \in Holder, NEW l \in Leases, session' = [session EXCEPT ![k] = Sync(k, @, l)]
        PROVE  FALSE
    <2>1. session'[h] = IF h = k THEN Sync(k, session[k], l) ELSE session[h]
      BY <1>1, <1>2
    <2>2. QED
      BY <1>1, <2>1, SyncKeeps
  <1>3. ASSUME NEW k \in Holder, NEW t \in Threads PROVE call[k][t].lease \in Leases
    BY <1>1 DEF Calls
  <1>4. ASSUME NEW k \in Holder, Pause(k) PROVE FALSE
    <2>1. [holder |-> k, generation |-> session[k].generation, expiresAt |-> 0] \in Leases
      BY <1>1 DEF Sessions, Leases
    <2>2. QED
      BY <1>2, <1>4, <2>1 DEF Pause, Paused
  <1>5. ~TickAll
    BY DEF TickAll, managerVars
  <1>6. PICK k \in Holder : Process(k)
    BY <1>5 DEF Next
  <1>7. ASSUME NEW t \in Threads, FinishAcquire(k, t)
        PROVE  /\ call[h][t].at = "acquired"
               /\ session'[h].generation = call[h][t].lease.generation
               /\ Active(call[h][t].lease, Now(h))
    <2>1. ~ObserveFollower(k, call[k][t].lease)
      BY <1>2, <1>3 DEF ObserveFollower
    <2>2. call[k][t].at = "acquired" /\ Enter(k, call[k][t].lease)
      BY <1>7, <2>1 DEF FinishAcquire
    <2>3. /\ Active(call[k][t].lease, Now(k))
          /\ session' = [session EXCEPT ![k] =
                 [generation |-> call[k][t].lease.generation, status |-> "active"]]
      BY <1>2, <1>3, <2>2 DEF Enter
    <2>4. k = h
      BY <1>1, <2>3
    <2>5. QED
      BY <1>1, <2>2, <2>3, <2>4
  <1>8. ~ReadFails(k) /\ ~EndPass(k) /\ \A t \in Threads : ~StatementFails(k, t)
    BY <1>4 DEF ReadFails, EndPass, StatementFails
  <1>9. ~Authority(k)
    <2>1. session' = [session EXCEPT ![k] = Sync(k, session[k], call[k]["pass"].lease)]
             => session' = [session EXCEPT ![k] = Sync(k, @, call[k]["pass"].lease)]
      OBVIOUS
    <2>2. QED
      BY <1>2, <1>3, <2>1 DEF Authority, Threads
  <1>10. ~Revalidate(k)
    BY <1>2, <1>3 DEF Revalidate, ObserveFollower, Threads
  <1>11. /\ \A t \in Threads : ~AcquireStatement(k, t) /\ ~ContendedStatement(k, t)
                              /\ ~ReadContended(k, t)
         /\ \A at \in {"validate", "revalidate"} : ~ReadLease(k, at)
    BY DEF AcquireStatement, ContendedStatement, ReadContended, ReadLease
  <1>12. QED
    BY <1>6, <1>7, <1>8, <1>9, <1>10, <1>11 DEF Process

\* The answers of the two goroutines of a process may be applied out of order
\* (manager.TryAcquire: the mutex is taken after the statement), but a session
\* falls back only to a generation after which nobody else has led: one from
\* before another process's turn has expired by then.  That the lag of a
\* statement is at most half the duration of the lease is what it takes; no
\* timeout in the code says so, and with a longer lag it is false.
THEOREM TurnsAreNotCrossed ==
    ASSUME 2 * (MaxLag + TextSlack) <= TTL
    PROVE  Spec => NoSessionAcrossForeignTurn
  <1>1. Init => TurnInv
    BY DEF Init, TurnInv, NoCall
  <1>2. IInv /\ TurnInv /\ [Next]_vars => TurnInv'
    BY TurnStep
  <1>3. ASSUME IInv, TurnInv, [Next]_vars, NEW h \in Holder,
               session'[h].generation < session[h].generation,
               NEW g \in session'[h].generation .. session[h].generation
        PROVE  grants[g] = h
    <2>1. session[h].generation \in Nat
      BY <1>3 DEF IInv, TypeOK, Sessions
    <2>2. IInv'
      BY <1>3, NextInv
    <2>3. session'[h].generation \in Nat /\ session'[h].generation # session[h].generation
      BY <1>3, <2>1, <2>2 DEF IInv, TypeOK, Sessions
    <2>4. Next
      BY <1>3, <2>3 DEF vars
    <2>5. PICK t \in Threads :
             /\ call[h][t].at = "acquired"
             /\ session'[h].generation = call[h][t].lease.generation
             /\ Active(call[h][t].lease, Now(h))
      BY <1>3, <2>3, <2>4, SessionChanges
    <2>6. PICK l \in Leases : l = call[h][t].lease
      BY <1>3 DEF IInv, TypeOK, Calls
    <2>7. Outlived(h, l) /\ Now(h) < l.expiresAt /\ l.expiresAt \in Nat
      BY <1>3, <2>5, <2>6 DEF TurnInv, Active, Leases
    <2>8. Granted(h, session[h].generation)
      BY <1>3, <2>1, <2>3 DEF IInv, GrantInv
    <2>9. Now(h) \in Nat /\ Len(grants) \in Nat
      BY <1>3, LeaseAssumption DEF IInv, TypeOK, Now
    <2>10. ASSUME grants[g] # h PROVE FALSE
      <3>1. g # session[h].generation
        BY <2>8, <2>10 DEF Granted
      <3>2. g < session[h].generation /\ g \in Foreign(h, l)
        BY <1>3, <2>1, <2>3, <2>5, <2>6, <2>8, <2>9, <2>10, <3>1 DEF Granted, Foreign
      <3>3. l.expiresAt <= Now(h)
        BY <2>7, <2>8, <3>2 DEF Outlived, Granted
      <3>4. QED
        BY <2>7, <2>9, <3>3
    <2>11. QED
      BY <2>10
  <1>4. IInv /\ TurnInv /\ [Next]_vars
          => [\A h \in Holder : session'[h].generation < session[h].generation =>
                 \A g \in session'[h].generation .. session[h].generation :
                     grants[g] = h]_session
    BY <1>3
  <1>5. QED
    BY <1>1, <1>2, <1>4, SpecInv, PTL DEF Spec, NoSessionAcrossForeignTurn

-----------------------------------------------------------------------------
(* The lease implements the abstract token service                         *)

tokenVars == <<grants, [h \in Holder |-> authority[h].generation]>>

\* Only Authority and EndPass change the authority of a process; both adopt a
\* token of its own.
LEMMA AdoptStep ==
    ASSUME IInv, IInv', NEW h \in Holder, Authority(h) \/ EndPass(h)
    PROVE  Token!Next \/ UNCHANGED tokenVars
  <1> DEFINE belief == [k \in Holder |-> authority[k].generation]
             g == authority'[h].generation
  <1>1. grants' = grants
    BY DEF Authority, EndPass
  <1>2. \A k \in Holder \ {h} : authority'[k] = authority[k]
    BY DEF Authority, EndPass, IInv, TypeOK
  <1>3. belief' = [belief EXCEPT ![h] = g]
    BY <1>2
  <1>4. authority'[h] \in Authorities
    BY DEF IInv, TypeOK
  <1>5. g # 0 => g \in 1..Len(grants) /\ grants[g] = h
    BY <1>1 DEF IInv, GrantInv, Granted
  <1>6. g \in 0..Len(grants)
    BY <1>4, <1>5 DEF Authorities, IInv, TypeOK
  <1>7. PICK n \in 0..Len(grants) : n = g
    BY <1>6
  <1>8. Token!Adopt(h, n)
    BY <1>1, <1>3, <1>5, <1>7 DEF Token!Adopt
  <1>9. QED
    BY <1>8 DEF Token!Next

LEMMA TokenStep ==
    ASSUME IInv, IInv', [Next]_vars
    PROVE  [Token!Next]_(Token!vars)
  <1>1. CASE UNCHANGED <<grants, authority>>
    BY <1>1 DEF Token!vars
  <1>2. ASSUME NEW h \in Holder, NEW t \in Threads, AcquireStatement(h, t)
        PROVE  [Token!Next]_(Token!vars)
    <2>1. grants' = grants \/ grants' = Append(grants, h)
      BY <1>2 DEF AcquireStatement, AcquireLeadership
    <2>2. authority' = authority
      BY <1>2 DEF AcquireStatement
    <2>3. CASE grants' = Append(grants, h)
      BY <2>2, <2>3 DEF Token!Next, Token!Grant
    <2>4. QED
      BY <1>1, <2>1, <2>2, <2>3
  <1>3. ASSUME NEW h \in Holder, Authority(h) \/ EndPass(h)
        PROVE  [Token!Next]_(Token!vars)
    BY <1>3, AdoptStep DEF tokenVars, Token!vars
  <1>4. ASSUME NEW h \in Holder, Process(h)
        PROVE  [Token!Next]_(Token!vars)
    <2>1. ASSUME NEW t \in Threads,
                 \/ ContendedStatement(h, t) \/ ReadContended(h, t)
                 \/ StatementFails(h, t) \/ FinishAcquire(h, t)
          PROVE  UNCHANGED <<grants, authority>>
      BY <2>1 DEF ContendedStatement, ReadContended, StatementFails, FinishAcquire
    <2>2. ASSUME \/ \E at \in {"validate", "revalidate"} : ReadLease(h, at)
                 \/ ReadFails(h) \/ Revalidate(h)
          PROVE  UNCHANGED <<grants, authority>>
      BY <2>2 DEF ReadLease, ReadFails, Revalidate
    <2>3. QED
      BY <1>1, <1>2, <1>3, <1>4, <2>1, <2>2 DEF Process
  <1>5. CASE TickAll \/ UNCHANGED vars
    BY <1>1, <1>5 DEF TickAll, Tick, leaseVars, managerVars, vars
  <1>6. QED
    BY <1>4, <1>5 DEF Next

\* The leadership manager implements the token service: every step of the row,
\* the sessions and the authorities hands out the next token, or makes one
\* process take up or drop a token that was handed to it, or changes nothing
\* the service shows.
THEOREM LeaseImplementsTokens == Spec => TokenSpec
  <1>1. Init => Token!Init
    BY DEF Init, LeaseInit, NoAuthority, Token!Init
  <1>2. IInv /\ IInv' /\ [Next]_vars => [Token!Next]_(Token!vars)
    BY TokenStep
  <1>3. QED
    BY <1>1, <1>2, SpecInv, PTL DEF Spec, TokenSpec, Token!Spec

--------------------------------------------------------------------------------
(* The Job and its object *)

(* Kubernetes gives a UID and a version together.                          *)
Paired(x) == x.uid = 0 <=> x.version = 0
Whole(o) == o \in Objects /\ (o # Absent => o.uid # 0 /\ o.version # 0)

(* What a worker read has the UID that the row has, or was read before it   *)
(* had one.                                                                 *)
Reading(q, uid) ==
  /\ q \in Workers /\ Whole(q.seen) /\ Paired(q.row) /\ q.row.uid \in {0, uid}
  /\ q.at = "noting" => q.seen # Absent
  /\ q.at = "recording" => q.row.uid = 0

ReconciliationInv ==
  /\ ReconciliationTypeOK /\ Paired(row) /\ Whole(object)
  /\ \A w \in Worker : Whole(cache[w]) /\ Reading(worker[w], row.uid)

RowGoesOn == row' \in Rows /\ Paired(row') /\ (row.uid # 0 => row'.uid = row.uid)

LEMMA RowsAre ==
  /\ Intent \in Rows /\ Paired(Intent) /\ Intent.uid = 0
  /\ Absent \in Objects /\ Whole(Absent)
  /\ \A r \in Rows : /\ Read(r) \in Rows /\ Read(r).uid = r.uid /\ Read(r).version = r.version
                     /\ Read(r).desired = r.desired /\ Read(r).observed = r.observed
BY DEF Intent, Rows, Paired, Absent, Objects, Whole, Read, States

LEMMA IdleReads == \A uid : Reading(Idle, uid) /\ Reading([Idle EXCEPT !.at = "discovered"], uid)
BY RowsAre DEF Reading, Idle, Workers, Phases

(* An observation of the Job as it was read writes to the row it was read  *)
(* from, or to none.                                                       *)
LEMMA Observing ==
  ASSUME row \in Rows, Paired(row), NEW read \in Rows, Paired(read), read.uid \in {0, row.uid},
         NEW new \in Rows, Paired(new), new.uid # read.uid => read.uid = 0,
         SetObserved(read, new)
  PROVE  RowGoesOn
<1>1. CASE row.version # read.version
  BY <1>1 DEF SetObserved, RowGoesOn
<1>2. CASE row.version = read.version
  <2>1. row.uid = read.uid
    BY <1>2 DEF Paired
  <2>2. row' = [new EXCEPT !.waiting = FALSE, !.desired = row.desired, !.archived = row.archived,
                           !.uid = IF new.uid = 0 THEN row.uid ELSE new.uid]
    BY <1>2 DEF SetObserved
  <2>3. row' \in Rows /\ row'.version = new.version
        /\ row'.uid = IF new.uid = 0 THEN row.uid ELSE new.uid
    BY <2>2 DEF Rows
  <2>4. QED BY <2>1, <2>3 DEF RowGoesOn, Paired
<1>3. QED BY <1>1, <1>2

LEMMA RowChanged ==
  ASSUME row \in Rows, Paired(row),
         \/ row' = row
         \/ \E s \in {"MISSING", "OUT_OF_SCOPE"} : row' = [row EXCEPT !.sync = s]
         \/ row' = [row EXCEPT !.sync = "ERROR", !.waiting = TRUE]
         \/ \E b \in BOOLEAN : row' = [row EXCEPT !.waiting = b]
         \/ row' = [row EXCEPT !.archived = TRUE]
         \/ \E d \in Targets :
              row' = [row EXCEPT !.desired = d, !.sync = "PENDING", !.waiting = FALSE]
  PROVE  RowGoesOn
BY DEF Rows, RowGoesOn, Paired, Targets

LEMMA TerminatedIs ==
  ASSUME NEW r \in Rows
  PROVE  Terminated(r) \in Rows /\ Terminated(r).uid = r.uid /\ Terminated(r).version = r.version
BY DEF Terminated, Rows, States

LEMMA NotedIs ==
  ASSUME NEW r \in Rows, Paired(r), NEW o \in Objects, Whole(o), o # Absent
  PROVE  /\ Noted(r, o) \in Rows /\ Paired(Noted(r, o))
         /\ Noted(r, o).uid # r.uid => r.uid = 0
<1>1. o.uid \in Nat \ {0} /\ o.version \in Nat \ {0}
  BY DEF Whole, Objects
<1>2. \A observed \in States :
        SynchronizationStatus(r.desired, observed) \in {"SYNCED", "PENDING"}
  BY DEF SynchronizationStatus
<1>3. ObservationOf(o) \in States
  BY DEF ObservationOf, States
<1>4. CASE r.uid \notin {0, o.uid}
  <2>1. Noted(r, o) = [r EXCEPT !.version = o.version, !.mode = "CONFLICTED", !.sync = "CONFLICTED"]
    BY <1>4 DEF Noted
  <2>2. QED BY <1>1, <1>4, <2>1 DEF Rows, Paired
<1>5. CASE r.uid \in {0, o.uid}
  <2> DEFINE observed == ObservationOf(o)
  <2> DEFINE status == SynchronizationStatus(r.desired, ObservationOf(o))
  <2>1. Noted(r, o) = [r EXCEPT !.observed = observed, !.uid = o.uid, !.version = o.version,
                                !.mode = "MANAGED", !.sync = status]
    BY <1>5 DEF Noted
  <2>2. observed \in States /\ status \in {"SYNCED", "PENDING"}
    BY <1>2, <1>3
  <2> HIDE DEF observed, status
  <2>3. QED BY <1>1, <1>5, <2>1, <2>2 DEF Rows, Paired
<1>6. QED BY <1>4, <1>5

(* A step of one worker, which may write to the row and to the object.     *)
LEMMA WorkersRead ==
  ASSUME ReconciliationInv, RowGoesOn, NEW W \in SUBSET Worker,
         \A w \in Worker \ W : worker'[w] = worker[w],
         \A w \in W : Reading(worker'[w], row'.uid)
  PROVE  \A w \in Worker : Reading(worker'[w], row'.uid)
<1> SUFFICES ASSUME NEW w \in Worker \ W
             PROVE  Reading(worker[w], row'.uid)
  OBVIOUS
<1>1. Reading(worker[w], row.uid)
  BY DEF ReconciliationInv
<1>2. QED BY <1>1 DEF RowGoesOn, Reading

LEMMA RowsGoOn ==
  ASSUME ReconciliationInv, ReconciliationNext
  PROVE  RowGoesOn
<1>1. row \in Rows /\ Paired(row) /\ object \in Objects
      /\ \A w \in Worker : Reading(worker[w], row.uid)
  BY DEF ReconciliationInv, ReconciliationTypeOK
<1>2. CASE row' = row
  BY <1>1, <1>2, RowChanged
<1>3. ASSUME NEW w \in Worker, Note(w)
      PROVE  RowGoesOn
  <2> DEFINE r == worker[w].row
  <2> DEFINE o == worker[w].seen
  <2>1. r \in Rows /\ Paired(r) /\ r.uid \in {0, row.uid} /\ Whole(o) /\ o \in Objects
        /\ o # Absent /\ SetObserved(r, Noted(r, o))
    BY <1>1, <1>3 DEF Note, Reading, Workers, Whole
  <2> HIDE DEF r, o
  <2>2. QED BY <1>1, <2>1, NotedIs, Observing
<1>4. ASSUME NEW w \in Worker, SetObserved(worker[w].row, Terminated(worker[w].row))
      PROVE  RowGoesOn
  <2> DEFINE r == worker[w].row
  <2>1. r \in Rows /\ Paired(r) /\ r.uid \in {0, row.uid}
    BY <1>1 DEF Reading, Workers
  <2>2. Terminated(r) \in Rows /\ Paired(Terminated(r)) /\ Terminated(r).uid = r.uid
    BY <2>1, TerminatedIs DEF Paired
  <2>3. QED BY <1>1, <1>4, <2>1, <2>2, Observing
<1>5. ASSUME NEW w \in Worker, NoteAbsence(w)
      PROVE  RowGoesOn
  <2>1. \/ SetObserved(worker[w].row, Terminated(worker[w].row))
        \/ row' = row
        \/ row' = [row EXCEPT !.sync = "MISSING"]
    BY <1>5 DEF NoteAbsence, MarkMissing
  <2>2. QED BY <1>1, <1>2, <1>4, <2>1, RowChanged
<1>6. ASSUME NEW w \in Worker, RecordCreated(w)
      PROVE  RowGoesOn
  <2> DEFINE r == worker[w].row
  <2> DEFINE o == worker[w].seen
  <2> DEFINE new == [r EXCEPT !.observed = "PAUSED", !.uid = o.uid, !.version = o.version,
                              !.sync = "PENDING"]
  <2>1. r \in Rows /\ Paired(r) /\ r.uid = 0 /\ Whole(o) /\ o \in Objects
        /\ SetObserved(r, new)
    BY <1>1, <1>6 DEF RecordCreated, Reading, Workers, Whole
  <2>2. o.uid = 0 <=> o.version = 0
    BY <2>1 DEF Whole, Absent
  <2>3. new \in Rows /\ Paired(new)
    BY <2>1, <2>2 DEF Rows, Paired, States, Objects
  <2> HIDE DEF r, o, new
  <2>4. QED BY <1>1, <2>1, <2>3, Observing
<1>7. ASSUME NEW w \in Worker, AdmissionFails(w) \/ RecordReconcileError(worker[w].row)
      PROVE  RowGoesOn
  <2>1. \/ row' = row
        \/ row' = [row EXCEPT !.sync = "ERROR", !.waiting = TRUE]
        \/ \E b \in BOOLEAN : row' = [row EXCEPT !.waiting = b]
    BY <1>7 DEF AdmissionFails, RecordReconcileError
  <2>2. QED BY <1>1, <2>1, RowChanged
<1>8. ASSUME NEW w \in Worker, Discover(w)
      PROVE  RowGoesOn
  <2>1. CASE MarkOutOfScope(w)
    <3>1. row' = row \/ row' = [row EXCEPT !.sync = "OUT_OF_SCOPE"]
      BY <2>1 DEF MarkOutOfScope
    <3>2. QED BY <1>1, <3>1, RowChanged
  <2>2. QED BY <1>2, <1>3, <1>5, <1>8, <2>1 DEF Discover, ListJobs
<1>9. ASSUME NEW w \in Worker, Lead(w)
      PROVE  RowGoesOn
  <2>1. \/ row' = row
        \/ RecordReconcileError(worker[w].row)
        \/ SetObserved(worker[w].row, Terminated(worker[w].row))
        \/ AdmissionFails(w)
        \/ RecordCreated(w)
    BY <1>9 DEF Lead, BeginPass, Suspend, DeleteJob, Create, Resume, LeadershipLost
  <2>2. QED BY <1>2, <1>4, <1>6, <1>7, <2>1
<1>10. ASSUME NEW w \in Worker, RequestFails(w)
       PROVE  RowGoesOn
  <2>1. AdmissionFails(w) \/ RecordReconcileError(worker[w].row)
    BY <1>10 DEF RequestFails
  <2>2. QED BY <1>7, <2>1
<1>11. ASSUME NEW target \in Targets, Command(target)
       PROVE  RowGoesOn
  <2>1. row' = [row EXCEPT !.desired = target, !.sync = "PENDING", !.waiting = FALSE]
    BY <1>11 DEF Command
  <2>2. QED BY <1>1, <2>1, RowChanged
<1>12. CASE Archive
  <2>1. row' = [row EXCEPT !.archived = TRUE]
    BY <1>12 DEF Archive
  <2>2. QED BY <1>1, <2>1, RowChanged
<1>13. CASE RetryIsDue
  <2>1. \E b \in BOOLEAN : row' = [row EXCEPT !.waiting = b]
    BY <1>13 DEF RetryIsDue
  <2>2. QED BY <1>1, <2>1, RowChanged
<1>14. QED
  BY <1>2, <1>8, <1>9, <1>10, <1>11, <1>12, <1>13
  DEF ReconciliationNext, InformerSync, AnswerLost, CreationLost, Crash, RollOut, Restart, ChangeScope, ChangeLeader,
      Meddle, Finish

LEMMA ClusterKept ==
  ASSUME ReconciliationAssumption, ReconciliationInv, ReconciliationNext
  PROVE  /\ Whole(object') /\ versions' \in Nat /\ ledger' \in Ledgers
         /\ cache' \in [Worker -> Objects] /\ \A w \in Worker : Whole(cache'[w])
         /\ leader' \in Worker /\ scope' \in [Worker -> BOOLEAN] /\ configured' \in BOOLEAN
         /\ left' \in 0..MaxEvents
<1>1. /\ Whole(object) /\ object \in Objects /\ versions \in Nat /\ ledger \in Ledgers
      /\ cache \in [Worker -> Objects] /\ \A w \in Worker : Whole(cache[w])
      /\ leader \in Worker /\ scope \in [Worker -> BOOLEAN] /\ configured \in BOOLEAN
      /\ left \in 0..MaxEvents /\ MaxEvents \in Nat
  BY DEF ReconciliationInv, ReconciliationTypeOK, ReconciliationAssumption
<1>2. \/ UNCHANGED <<object, versions>>
      \/ object' = Absent /\ UNCHANGED versions
      \/ Patched(TRUE) \/ Patched(FALSE) \/ Finish
      \/ \E state \in {"suspended", "started"} :
           /\ object' = [uid |-> versions + 1, version |-> versions + 1, state |-> state]
           /\ versions' = versions + 1
  BY DEF ReconciliationNext, Discover, MarkOutOfScope, ListJobs, Note, NoteAbsence, Lead, BeginPass, Suspend,
         DeleteJob, Create, RecordCreated, Resume, LeadershipLost, RequestFails, AnswerLost,
         CreationLost, Crash, RollOut, Restart, Command, Archive, ChangeScope, ChangeLeader,
         Meddle, InformerSync, RetryIsDue, cluster
<1>3. Whole(object') /\ versions' \in Nat
  <2>1. CASE UNCHANGED <<object, versions>> \/ (object' = Absent /\ UNCHANGED versions)
    BY <1>1, <2>1, RowsAre
  <2>2. CASE \E state \in {"suspended", "started", "finished"} :
               /\ object.state # "absent" /\ versions' = versions + 1
               /\ object' = [object EXCEPT !.state = state, !.version = versions + 1]
    <3>1. object.uid # 0
      BY <1>1, <2>2 DEF Whole, Absent
    <3>2. PICK state \in {"suspended", "started", "finished"} :
            object' = [object EXCEPT !.state = state, !.version = versions + 1]
      BY <2>2
    <3>3. versions + 1 \in Nat \ {0} /\ versions' = versions + 1
      BY <1>1, <2>2
    <3>4. object' \in Objects /\ object'.uid = object.uid /\ object'.version = versions + 1
      BY <1>1, <3>2, <3>3 DEF Objects
    <3>5. QED BY <3>1, <3>3, <3>4 DEF Whole
  <2>3. CASE \E state \in {"suspended", "started"} :
               /\ object' = [uid |-> versions + 1, version |-> versions + 1, state |-> state]
               /\ versions' = versions + 1
    BY <1>1, <2>3 DEF Whole, Objects
  <2>4. QED BY <1>2, <2>1, <2>2, <2>3 DEF Patched, Finish
<1>4. \/ cache' = cache
      \/ \E w \in Worker : cache' = [cache EXCEPT ![w] = object]
  BY DEF ReconciliationNext, Discover, MarkOutOfScope, ListJobs, Note, NoteAbsence, Lead, BeginPass, Suspend,
         DeleteJob, Create, RecordCreated, Resume, LeadershipLost, RequestFails, AnswerLost,
         CreationLost, Crash, RollOut, Restart, Command, Archive, ChangeScope, ChangeLeader,
         Meddle, InformerSync, RetryIsDue, Finish
<1>5. cache' \in [Worker -> Objects] /\ \A w \in Worker : Whole(cache'[w])
  BY <1>1, <1>4
<1>6. ledger' \in Ledgers
  BY <1>1
  DEF ReconciliationNext, Discover, MarkOutOfScope, ListJobs, Note, NoteAbsence, Lead, BeginPass, Suspend,
      DeleteJob, Create, RecordCreated, Resume, LeadershipLost, RequestFails, AnswerLost,
      CreationLost, Crash, RollOut, Restart, Command, Archive, ChangeScope, ChangeLeader,
      Meddle, InformerSync, RetryIsDue, Finish, cluster, Ledgers
<1>7. leader' \in Worker /\ scope' \in [Worker -> BOOLEAN] /\ configured' \in BOOLEAN
  BY ZenonT(60), <1>1
  DEF ReconciliationNext, Discover, MarkOutOfScope, ListJobs, Note, NoteAbsence, Lead, BeginPass, Suspend,
      DeleteJob, Create, RecordCreated, Resume, LeadershipLost, RequestFails, AnswerLost,
      CreationLost, Crash, RollOut, Restart, Command, Archive, ChangeScope, ChangeLeader,
      Meddle, InformerSync, RetryIsDue, Finish, control
<1>8. left' = left \/ Event
  BY DEF ReconciliationNext, Discover, MarkOutOfScope, ListJobs, Note, NoteAbsence, Lead, BeginPass, Suspend,
         DeleteJob, Create, RecordCreated, Resume, LeadershipLost, RequestFails, AnswerLost,
         CreationLost, Crash, RollOut, Restart, Command, Archive, ChangeScope, ChangeLeader,
         Meddle, InformerSync, RetryIsDue, Finish
<1>9. left' \in 0..MaxEvents
  BY <1>1, <1>8 DEF Event
<1>10. QED BY <1>3, <1>5, <1>6, <1>7, <1>9

(* What a worker does next, with what it has read.                         *)
LEMMA ReadersGoOn ==
  ASSUME ReconciliationInv, ReconciliationAssumption, ReconciliationNext
  PROVE  worker' \in [Worker -> Workers] /\ \A w \in Worker : Reading(worker'[w], row'.uid)
<1>1. worker \in [Worker -> Workers] /\ row \in Rows /\ Paired(row) /\ RowGoesOn
      /\ \A w \in Worker : Reading(worker[w], row.uid) /\ Whole(cache[w])
  BY RowsGoOn DEF ReconciliationInv, ReconciliationTypeOK
<1>2. CASE worker' = worker
  <2>1. {} \in SUBSET Worker
    OBVIOUS
  <2>2. QED BY <1>1, <1>2, <2>1, WorkersRead
<1>3. ASSUME NEW w \in Worker, NEW q, worker' = [worker EXCEPT ![w] = q], Reading(q, row'.uid)
      PROVE  worker' \in [Worker -> Workers] /\ \A u \in Worker : Reading(worker'[u], row'.uid)
  <2>1. q \in Workers
    BY <1>3 DEF Reading
  <2>2. worker' \in [Worker -> Workers] /\ worker'[w] = q
        /\ \A u \in Worker \ {w} : worker'[u] = worker[u]
    BY <1>1, <1>3, <2>1
  <2>3. {w} \in SUBSET Worker /\ \A u \in {w} : Reading(worker'[u], row'.uid)
    BY <1>3, <2>2
  <2>4. QED BY <1>1, <2>2, <2>3, WorkersRead
<1> DEFINE Goes(w) == \E q : worker' = [worker EXCEPT ![w] = q] /\ Reading(q, row'.uid)
<1>4. ASSUME NEW w \in Worker, Rest(w) \/ Discovered(w)
      PROVE  Goes(w)
  BY <1>4, IdleReads DEF Rest, Discovered
<1>5. ASSUME NEW w \in Worker, NEW phase \in Phases \ {"noting", "recording"},
             NEW r \in {row, row'}, Go(w, phase, r)
      PROVE  Goes(w)
  <2> DEFINE q == [worker[w] EXCEPT !.at = phase, !.row = Read(r)]
  <2>1. worker' = [worker EXCEPT ![w] = q]
    BY <1>1, <1>5 DEF Go
  <2>2. r \in Rows /\ Paired(r) /\ r.uid \in {0, row'.uid}
    BY <1>1 DEF RowGoesOn
  <2>3. Read(r) \in Rows /\ Paired(Read(r)) /\ Read(r).uid \in {0, row'.uid}
    BY <2>2, RowsAre DEF Paired
  <2>4. Reading(worker[w], row.uid) /\ worker[w] \in Workers
    BY <1>1
  <2>5. q \in Workers /\ q.seen = worker[w].seen /\ q.row = Read(r) /\ q.at = phase
    BY <2>3, <2>4 DEF Workers
  <2> HIDE DEF q
  <2>6. Reading(q, row'.uid)
    BY <2>3, <2>4, <2>5 DEF Reading
  <2>7. QED BY <2>1, <2>6
<1>6. ASSUME NEW w \in Worker, ListJobs(w)
      PROVE  Goes(w)
  <2>1. CASE cache[w] # Absent
    <3> DEFINE q == [at |-> "noting", seen |-> cache[w], row |-> Read(row)]
    <3>1. worker' = [worker EXCEPT ![w] = q] /\ row' = row
      BY <1>6, <2>1 DEF ListJobs
    <3>2. cache[w] \in Objects /\ Whole(cache[w])
      BY <1>1 DEF Whole
    <3>3. Read(row) \in Rows /\ Paired(Read(row)) /\ Read(row).uid = row.uid
      BY <1>1, RowsAre DEF Paired
    <3>4. Reading(q, row'.uid)
      BY <2>1, <3>1, <3>2, <3>3 DEF Reading, Workers, Phases
    <3> HIDE DEF q
    <3>5. QED BY <3>1, <3>4
  <2>2. CASE cache[w] = Absent
    <3>1. Go(w, "missing", row) \/ Discovered(w)
      BY <1>6, <2>2 DEF ListJobs
    <3>2. "missing" \in Phases \ {"noting", "recording"}
      BY DEF Phases
    <3>3. QED BY <1>4, <1>5, <3>1, <3>2
  <2>3. QED BY <2>1, <2>2
<1>7. ASSUME NEW w \in Worker, Discover(w)
      PROVE  Goes(w)
  <2>1. ListJobs(w) \/ Discovered(w) \/ Go(w, "missing", row')
    BY <1>7 DEF Discover, MarkOutOfScope, Note, NoteAbsence
  <2>2. "missing" \in Phases \ {"noting", "recording"}
    BY DEF Phases
  <2>3. QED BY <1>4, <1>5, <1>6, <2>1, <2>2
<1>8. ASSUME NEW w \in Worker, Create(w)
      PROVE  Goes(w)
  <2>1. Reading(worker[w], row.uid) /\ worker[w] \in Workers /\ worker[w].row.uid = 0
    BY <1>1, <1>8 DEF Create
  <2>2. CASE worker' = [worker EXCEPT ![w].at = "recording"]
    <3> DEFINE q == [worker[w] EXCEPT !.at = "recording"]
    <3>1. worker' = [worker EXCEPT ![w] = q]
      BY <1>1, <2>2
    <3>2. q \in Workers /\ q.seen = worker[w].seen /\ q.row = worker[w].row /\ q.at = "recording"
      BY <2>1 DEF Workers, Phases
    <3> HIDE DEF q
    <3>3. Reading(q, row'.uid)
      BY <2>1, <3>2 DEF Reading
    <3>4. QED BY <3>1, <3>3
  <2>3. CASE worker' = [worker EXCEPT ![w].at = "recording", ![w].seen = object']
    <3> DEFINE q == [worker[w] EXCEPT !.at = "recording", !.seen = object']
    <3>1. worker' = [worker EXCEPT ![w] = q]
      BY <1>1, <2>3
    <3>2. Whole(object') /\ object' \in Objects
      BY ClusterKept DEF Whole
    <3>3. q \in Workers /\ q.seen = object' /\ q.row = worker[w].row /\ q.at = "recording"
      BY <2>1, <3>2 DEF Workers, Phases
    <3> HIDE DEF q
    <3>4. Reading(q, row'.uid)
      BY <2>1, <3>2, <3>3 DEF Reading
    <3>5. QED BY <3>1, <3>4
  <2>4. QED BY <1>4, <1>8, <2>2, <2>3 DEF Create, AdmissionFails
<1>9. ASSUME NEW w \in Worker, RecordCreated(w)
      PROVE  Goes(w)
  <2> DEFINE q == [worker[w] EXCEPT !.at = "resuming"]
  <2>1. worker' = [worker EXCEPT ![w] = q] /\ Reading(worker[w], row.uid) /\ worker[w] \in Workers
        /\ worker[w].at = "recording"
    BY <1>1, <1>9 DEF RecordCreated
  <2>2. q \in Workers /\ q.seen = worker[w].seen /\ q.row = worker[w].row /\ q.at = "resuming"
    BY <2>1 DEF Workers, Phases
  <2> HIDE DEF q
  <2>3. Reading(q, row'.uid)
    BY <2>1, <2>2 DEF Reading
  <2>4. QED BY <2>1, <2>3
<1>10. ASSUME NEW w \in Worker, Lead(w)
       PROVE  Goes(w)
  <2>1. \/ Rest(w) \/ Go(w, "commanding", row) \/ Go(w, "admitting", row)
        \/ Create(w) \/ RecordCreated(w)
    BY <1>10 DEF Lead, BeginPass, Suspend, DeleteJob, Resume, LeadershipLost, AdmissionFails
  <2>2. {"commanding", "admitting"} \subseteq Phases \ {"noting", "recording"}
    BY DEF Phases
  <2>3. QED BY <1>4, <1>5, <1>8, <1>9, <2>1, <2>2
<1>11. ASSUME NEW w \in Worker,
              RequestFails(w) \/ AnswerLost(w) \/ CreationLost(w) \/ Crash(w) \/ RollOut(w)
       PROVE  Goes(w)
  <2>1. Rest(w)
    BY <1>11 DEF RequestFails, AnswerLost, CreationLost, Crash, RollOut, Restart, Rest,
                 AdmissionFails
  <2>2. QED BY <1>4, <2>1
<1>12. (\E w \in Worker : Goes(w)) \/ worker' = worker
  BY <1>7, <1>10, <1>11 DEF ReconciliationNext, InformerSync, Command, Archive, ChangeScope, ChangeLeader, Meddle,
                            Finish, RetryIsDue
<1>13. QED BY <1>2, <1>3, <1>12

LEMMA ReconciliationInvariant ==
  ASSUME ReconciliationAssumption
  PROVE  ReconciliationSpec => []ReconciliationInv
<1>1. ReconciliationInit => ReconciliationInv
  <2> SUFFICES ASSUME ReconciliationInit
               PROVE  ReconciliationInv
    OBVIOUS
  <2>1. leader \in Worker
    BY DEF ReconciliationInit, ReconciliationAssumption
  <2>2. Idle \in Workers /\ \A w \in Worker : Reading(worker[w], row.uid)
    BY IdleReads DEF ReconciliationInit, Reading
  <2>3. ReconciliationTypeOK
    BY <2>1, <2>2, RowsAre DEF ReconciliationInit, ReconciliationTypeOK, Ledgers, ReconciliationAssumption
  <2>4. QED BY <2>2, <2>3, RowsAre DEF ReconciliationInit, ReconciliationInv
<1>2. ReconciliationInv /\ [ReconciliationNext]_jobVars => ReconciliationInv'
  <2>1. ASSUME ReconciliationInv, ReconciliationNext
        PROVE  ReconciliationInv'
    <3>1. RowGoesOn
      BY <2>1, RowsGoOn
    <3>2. worker' \in [Worker -> Workers] /\ \A w \in Worker : Reading(worker'[w], row'.uid)
      BY <2>1, ReadersGoOn
    <3>3. /\ Whole(object') /\ versions' \in Nat /\ ledger' \in Ledgers
          /\ cache' \in [Worker -> Objects] /\ \A w \in Worker : Whole(cache'[w])
          /\ leader' \in Worker /\ scope' \in [Worker -> BOOLEAN] /\ configured' \in BOOLEAN
          /\ left' \in 0..MaxEvents
      BY <2>1, ClusterKept
    <3>4. ReconciliationTypeOK'
      BY <3>1, <3>2, <3>3 DEF ReconciliationTypeOK, RowGoesOn, Whole
    <3>5. QED BY <3>1, <3>2, <3>3, <3>4 DEF ReconciliationInv, RowGoesOn
  <2>2. ReconciliationInv /\ UNCHANGED jobVars => ReconciliationInv'
    BY DEF jobVars, ReconciliationInv, ReconciliationTypeOK
  <2>3. QED BY <2>1, <2>2
<1>3. QED BY <1>1, <1>2, PTL DEF ReconciliationSpec

(* Types of the Job, of its object and of what workers have read.          *)
THEOREM ReconciliationTypesCorrect ==
  ASSUME ReconciliationAssumption
  PROVE  ReconciliationSpec => []ReconciliationTypeOK
<1>1. ReconciliationInv => ReconciliationTypeOK
  BY DEF ReconciliationInv
<1>2. QED BY <1>1, ReconciliationInvariant, PTL

(* An object once recorded as the Job's is its object for ever: no late    *)
(* observation and no late result of a creation replaces it (SetObserved). *)
THEOREM AssociationsAreForever ==
  ASSUME ReconciliationAssumption
  PROVE  ReconciliationSpec => AssociationIsForever
<1>1. ReconciliationInv /\ [ReconciliationNext]_jobVars => [row.uid # 0 => row'.uid = row.uid]_row
  BY RowsGoOn DEF RowGoesOn, jobVars
<1>2. QED BY <1>1, ReconciliationInvariant, PTL DEF ReconciliationSpec, AssociationIsForever
=============================================================================

--------------------------- MODULE CredentialsProofs ---------------------------
(***************************************************************************)
(* Proofs about Credentials, for any number of accounts and of requests,    *)
(* and any times: each credential is replaced once, and a use that is       *)
(* recorded is of a credential that was alive.  A request that waits has    *)
(* read a credential that still exists, and of which only what the          *)
(* statements compare can have changed since.                               *)
(***************************************************************************)
EXTENDS Credentials, FiniteSetTheorems, TLAPS

-----------------------------------------------------------------------------
(* The inductive invariant                                                 *)

Rotating == {r \in Request : request[r].op = "rotating"}

\* Credentials are numbered; each one took an event, as did each rotation that
\* is still to add one.
CountInv ==
    /\ IsFiniteSet(Ids) /\ Ids = 1..Cardinality(Ids)
    /\ Cardinality(Ids) + Cardinality(Rotating) + left <= MaxEvents

\* A request is about a credential there is; one that will record a use has
\* seen that it had not expired.
Knows(q, table) ==
    q.op # "idle" =>
      /\ q.id \in DOMAIN table
      /\ q.at > 0
      /\ q.op = "touching" => q.at < table[q.id].expires

RequestInv == \A r \in Request : Knows(request[r], credential)

\* Whom a credential replaces is another one there is, which was rotated; who
\* was rotated is replaced by exactly one.
ReplaceInv ==
    \A i \in Ids :
      /\ credential[i].replaces \in Ids \cup {Null}
      /\ credential[i].rotated = Null => \A j \in Ids : credential[j].replaces # i
      /\ credential[i].rotated # Null =>
           \E j \in Ids : \A k \in Ids : credential[k].replaces = i <=> k = j

IInv == TypeOK /\ CountInv /\ RequestInv /\ ReplaceInv

-----------------------------------------------------------------------------
(* Steps                                                                   *)

USE DEF Ids

\* Credentials are never removed, and expire when they did.
GoesOn ==
    /\ Ids \subseteq Ids'
    /\ \A i \in Ids : credential'[i].expires = credential[i].expires

LEMMA IdleIs == Idle \in Requests /\ Idle.op = "idle" /\ \A table : Knows(Idle, table)
  BY DEF Idle, Requests, Knows

LEMMA RotatingIs ==
    IsFiniteSet(Rotating) /\ Cardinality(Rotating) \in Nat
  BY CredentialAssumption, FS_Subset, FS_CardinalityType DEF Rotating

LEMMA NewIs ==
    ASSUME CountInv
    PROVE  /\ New \in Nat \ {0} /\ New \notin Ids /\ New = Cardinality(Ids) + 1
           /\ Ids \cup {New} = 1..New /\ IsFiniteSet(1..New) /\ Cardinality(1..New) = New
           /\ \A i \in Ids : i # Null
<1>1. Cardinality(Ids) \in Nat /\ Ids = 1..Cardinality(Ids)
  BY FS_CardinalityType DEF CountInv
<1>2. New = Cardinality(Ids) + 1
  BY DEF New
<1> HIDE DEF Ids
<1>3. New \in Nat \ {0} /\ New \notin Ids /\ Ids \cup {New} = 1..New
  BY <1>1, <1>2
<1>4. IsFiniteSet(1..New) /\ Cardinality(1..New) = New
  BY <1>3, FS_Interval
<1>5. QED
  BY <1>1, <1>2, <1>3, <1>4 DEF Null

\* What a request knows, it knows while the table goes on.
LEMMA KnowsStays ==
    ASSUME GoesOn, NEW q, Knows(q, credential)
    PROVE  Knows(q, credential')
  BY DEF GoesOn, Knows

LEMMA RequestStep ==
    ASSUME TypeOK, RequestInv, GoesOn, NEW r \in Request, NEW q,
           Knows(q, credential'), request' = [request EXCEPT ![r] = q]
    PROVE  RequestInv'
<1>1. ASSUME NEW s \in Request, s # r PROVE Knows(request'[s], credential')
  <2>1. request'[s] = request[s] /\ Knows(request[s], credential)
    BY <1>1 DEF TypeOK, RequestInv
  <2>2. Knows(request[s], credential')
    BY <2>1, KnowsStays
  <2>3. QED
    BY <2>1, <2>2
<1>2. request'[r] = q
  BY DEF TypeOK
<1>3. QED
  BY <1>1, <1>2 DEF RequestInv

LEMMA RequestsStay ==
    ASSUME RequestInv, GoesOn, UNCHANGED request
    PROVE  RequestInv'
<1>1. \A s \in Request : Knows(request[s], credential')
  BY KnowsStays DEF RequestInv
<1>2. QED
  BY <1>1 DEF RequestInv

LEMMA SameGoesOn ==
    ASSUME UNCHANGED credential
    PROVE  GoesOn
  BY DEF GoesOn

\* No credential is added and none is rotated.
LEMMA SameReplace ==
    ASSUME ReplaceInv, Ids' = Ids,
           \A i \in Ids : /\ credential'[i].replaces = credential[i].replaces
                          /\ credential'[i].rotated = credential[i].rotated
    PROVE  ReplaceInv'
  BY DEF ReplaceInv, Null

\* A request begins or ends: whether it rotates is all that counts.
LEMMA RotatingStep ==
    ASSUME TypeOK, NEW r \in Request, NEW q, request' = [request EXCEPT ![r] = q]
    PROVE  /\ q.op = "rotating" => Rotating' = Rotating \cup {r}
           /\ q.op # "rotating" => Rotating' = Rotating \ {r}
<1>1. request'[r] = q /\ \A s \in Request : s # r => request'[s] = request[s]
  BY DEF TypeOK
<1>2. \A s \in Request : s # r => (s \in Rotating' <=> s \in Rotating)
  BY <1>1 DEF Rotating
<1>3. r \in Rotating' <=> q.op = "rotating"
  BY <1>1 DEF Rotating
<1>4. Rotating \subseteq Request /\ Rotating' \subseteq Request
  BY DEF Rotating
<1>5. QED
  BY <1>2, <1>3, <1>4

\* A request begins: it takes an event.
LEMMA ReadsKeeps ==
    ASSUME IInv, NEW r \in Request, NEW q \in Requests, Knows(q, credential),
           Reads(r, q)
    PROVE  IInv'
<1>1. /\ request' = [request EXCEPT ![r] = q] /\ left \in Nat /\ left > 0 /\ left' = left - 1
      /\ UNCHANGED <<credential, enabled, now>>
  BY DEF Reads, Event, IInv, TypeOK
<1>2. TypeOK'
  BY <1>1, CredentialAssumption DEF IInv, TypeOK
<1>3. GoesOn /\ Knows(q, credential')
  BY <1>1, SameGoesOn, KnowsStays
<1>4. RequestInv'
  BY <1>1, <1>3, RequestStep DEF IInv
<1>5. ReplaceInv'
  BY <1>1 DEF IInv, ReplaceInv
<1>6. Rotating' = Rotating \cup {r} \/ Rotating' = Rotating \ {r}
  BY <1>1, RotatingStep DEF IInv
<1>7. /\ Cardinality(Rotating) \in Nat /\ Cardinality(Rotating') \in Nat
      /\ Cardinality(Rotating') <= Cardinality(Rotating) + 1
  <2>1. IsFiniteSet(Rotating) /\ Cardinality(Rotating) \in Nat
    BY RotatingIs
  <2> DEFINE n == Cardinality(Rotating)
  <2>2. Cardinality(Rotating \cup {r}) \in {n, n + 1}
    BY <2>1, FS_AddElement
  <2>3. Cardinality(Rotating \ {r}) \in {n, n - 1}
    BY <2>1, FS_RemoveElement
  <2>4. IsFiniteSet(Rotating')
    BY <1>6, <2>1, FS_AddElement, FS_RemoveElement
  <2>5. Cardinality(Rotating') \in {n, n + 1, n - 1}
    BY <1>6, <2>2, <2>3
  <2>6. Cardinality(Rotating') \in Nat
    BY <2>4, FS_CardinalityType
  <2> HIDE DEF n
  <2>7. n \in Nat /\ Cardinality(Rotating') <= n + 1
    BY <2>1, <2>5, <2>6 DEF n
  <2>8. QED
    BY <2>6, <2>7 DEF n
<1>8. CountInv'
  <2>1. Ids' = Ids
    BY <1>1
  <2>2. /\ IsFiniteSet(Ids) /\ Ids = 1..Cardinality(Ids) /\ Cardinality(Ids) \in Nat
        /\ Cardinality(Ids) + Cardinality(Rotating) + left <= MaxEvents
    BY FS_CardinalityType DEF IInv, CountInv
  <2>3. Cardinality(Ids) + Cardinality(Rotating') + left' <= MaxEvents
    BY <1>1, <1>7, <2>2, CredentialAssumption
  <2>4. QED
    BY <2>1, <2>2, <2>3 DEF CountInv
<1>9. QED
  BY <1>2, <1>4, <1>5, <1>8 DEF IInv

\* A request ends, and no credential was added.
LEMMA EndKeeps ==
    ASSUME IInv, NEW r \in Request, Done(r), Ids' = Ids,
           \A i \in Ids : /\ credential'[i] \in Stored
                          /\ credential'[i].expires = credential[i].expires
                          /\ credential'[i].replaces = credential[i].replaces
                          /\ credential'[i].rotated = credential[i].rotated
    PROVE  IInv'
<1>1. request' = [request EXCEPT ![r] = Idle] /\ UNCHANGED <<enabled, now, left>>
  BY DEF Done
<1>2. TypeOK'
  BY <1>1, IdleIs DEF IInv, TypeOK
<1>3. GoesOn
  BY DEF GoesOn
<1>4. RequestInv'
  BY <1>1, <1>3, IdleIs, RequestStep DEF IInv
<1>5. ReplaceInv'
  BY SameReplace DEF IInv
<1>6. Rotating' = Rotating \ {r}
  BY <1>1, IdleIs, RotatingStep DEF IInv
<1>7. /\ Cardinality(Rotating) \in Nat /\ Cardinality(Rotating') \in Nat
      /\ Cardinality(Rotating') <= Cardinality(Rotating)
  <2>1. IsFiniteSet(Rotating) /\ Cardinality(Rotating) \in Nat
    BY RotatingIs
  <2>2. IsFiniteSet(Rotating') /\ Cardinality(Rotating') <= Cardinality(Rotating)
    BY <1>6, <2>1, FS_Subset
  <2>3. QED
    BY <2>1, <2>2, FS_CardinalityType
<1>8. CountInv'
  <2>1. /\ IsFiniteSet(Ids) /\ Ids = 1..Cardinality(Ids) /\ Cardinality(Ids) \in Nat
        /\ Cardinality(Ids) + Cardinality(Rotating) + left <= MaxEvents
    BY FS_CardinalityType DEF IInv, CountInv
  <2>2. Cardinality(Ids) + Cardinality(Rotating') + left' <= MaxEvents
    <3>1. left \in Nat /\ left' = left
      BY <1>1 DEF IInv, TypeOK
    <3> HIDE DEF Ids
    <3>2. QED
      BY <1>7, <2>1, <3>1, CredentialAssumption
  <2>3. QED
    BY <2>1, <2>2 DEF CountInv
<1>9. QED
  BY <1>2, <1>4, <1>5, <1>8 DEF IInv

\* A credential is added, which replaces none or one that is rotated by that.
LEMMA AddKeeps ==
    ASSUME IInv, NEW c \in Stored, NEW id \in Ids \cup {Null},
           c.replaces = id, c.rotated = Null,
           DOMAIN credential' = Ids \cup {New}, credential'[New] = c,
           \A i \in Ids : /\ credential'[i] \in Stored
                          /\ credential'[i].expires = credential[i].expires
                          /\ credential'[i].replaces = credential[i].replaces
                          /\ i # id => credential'[i].rotated = credential[i].rotated
                          /\ i = id => /\ credential[i].rotated = Null
                                       /\ credential'[i].rotated # Null,
           UNCHANGED <<enabled, now>>, request' \in [Request -> Requests],
           left' \in 0..MaxEvents,
           Cardinality(Ids) + 1 + Cardinality(Rotating') + left' <= MaxEvents,
           RequestInv'
    PROVE  IInv'
<1>1. /\ New \in Nat \ {0} /\ New \notin Ids /\ Ids' = 1..New /\ Ids' = Ids \cup {New}
      /\ New = Cardinality(Ids) + 1 /\ IsFiniteSet(Ids') /\ Cardinality(Ids') = New
      /\ \A i \in Ids : i # Null
  BY NewIs DEF IInv
<1>2. CountInv'
  BY <1>1 DEF CountInv
<1>3. IsFiniteSet(Rotating') /\ Cardinality(Rotating') \in Nat
  <2>1. Rotating' \in SUBSET Request
    BY DEF Rotating
  <2>2. QED
    BY <2>1, CredentialAssumption, FS_Subset, FS_CardinalityType
<1>4. TypeOK'
  <2>1. New <= MaxEvents
    BY <1>1, <1>3, CredentialAssumption
  <2>2. Ids' \subseteq 1..MaxEvents
    BY <1>1, <2>1, CredentialAssumption
  <2>3. \A i \in Ids' : credential'[i] \in Stored
    BY <1>1
  <2>4. QED
    BY <2>2, <2>3 DEF IInv, TypeOK
<1>5. ReplaceInv'
  <2>1. ASSUME NEW i \in Ids'
        PROVE  credential'[i].replaces \in Ids' \cup {Null}
    BY <1>1, <2>1 DEF IInv, ReplaceInv
  <2>2. ASSUME NEW i \in Ids', i # New, i # id
        PROVE  /\ credential'[i].rotated = Null => \A j \in Ids' : credential'[j].replaces # i
               /\ credential'[i].rotated # Null =>
                    \E j \in Ids' : \A k \in Ids' : credential'[k].replaces = i <=> k = j
    <3>1. i \in Ids /\ credential'[i].rotated = credential[i].rotated
      BY <1>1, <2>2
    <3>2. CASE credential[i].rotated = Null
      BY <1>1, <2>2, <3>1, <3>2 DEF IInv, ReplaceInv
    <3>3. CASE credential[i].rotated # Null
      <4>1. PICK j \in Ids : \A k \in Ids : credential[k].replaces = i <=> k = j
        BY <3>1, <3>3 DEF IInv, ReplaceInv
      <4>2. \A k \in Ids' : credential'[k].replaces = i <=> k = j
        BY <1>1, <2>2, <4>1
      <4>3. QED
        BY <1>1, <3>1, <3>3, <4>1, <4>2
    <3>4. QED
      BY <3>2, <3>3
  <2>3. ASSUME id # Null
        PROVE  /\ credential'[id].rotated # Null
               /\ \A k \in Ids' : credential'[k].replaces = id <=> k = New
    <3>1. id \in Ids
      BY <2>3
    <3>2. \A j \in Ids : credential[j].replaces # id
      BY <3>1 DEF IInv, ReplaceInv
    <3>3. QED
      BY <1>1, <3>1, <3>2
  <2>4. /\ credential'[New].rotated = Null
        /\ \A j \in Ids' : credential'[j].replaces # New
    <3>1. \A j \in Ids : credential[j].replaces # New
      BY <1>1 DEF IInv, ReplaceInv, Null
    <3>2. QED
      BY <1>1, <3>1 DEF Null
  <2>5. QED
    BY <1>1, <2>1, <2>2, <2>3, <2>4 DEF ReplaceInv
<1>6. QED
  BY <1>2, <1>4, <1>5 DEF IInv

LEMMA IssuedIs ==
    ASSUME NEW a \in Account, NEW id \in Nat, NEW t \in Nat
    PROVE  /\ Issued(a, id, t) \in Stored /\ Issued(a, id, t).replaces = id
           /\ Issued(a, id, t).rotated = Null
  BY DEF Issued, Stored, Null

-----------------------------------------------------------------------------
(* Operations                                                              *)

LEMMA IssueKeeps ==
    ASSUME IInv, NEW a \in Account, Issue(a)
    PROVE  IInv'
<1>1. PICK lifetime \in Lifetimes : credential' = With(Issued(a, Null, now + lifetime))
  BY DEF Issue
<1>2. now \in Nat /\ lifetime \in Nat /\ now + lifetime \in Nat /\ Null \in Nat
  BY CredentialAssumption DEF IInv, TypeOK, Null
<1> DEFINE c == Issued(a, Null, now + lifetime)
<1>3. c \in Stored /\ c.replaces = Null /\ c.rotated = Null
  BY <1>2, IssuedIs
<1> HIDE DEF c
<1>4. /\ left > 0 /\ left' = left - 1 /\ left' \in 0..MaxEvents
      /\ UNCHANGED <<enabled, request, now>>
  BY CredentialAssumption DEF Issue, Event, IInv, TypeOK
<1>5. New \notin Ids /\ \A i \in Ids : i # Null
  BY NewIs DEF IInv
<1>6. /\ DOMAIN credential' = Ids \cup {New} /\ credential'[New] = c
      /\ \A i \in Ids : credential'[i] = credential[i]
  BY <1>1, <1>5 DEF With, c
<1>7. GoesOn
  BY <1>6 DEF GoesOn
<1>8. RequestInv'
  BY <1>4, <1>7, RequestsStay DEF IInv
<1>9. Cardinality(Ids) + 1 + Cardinality(Rotating') + left' <= MaxEvents
  <2>1. Rotating' = Rotating
    BY <1>4 DEF Rotating
  <2>2. Cardinality(Rotating) \in Nat /\ Cardinality(Ids) \in Nat /\ left \in Nat
        /\ Cardinality(Ids) + Cardinality(Rotating) + left <= MaxEvents
    BY RotatingIs, FS_CardinalityType DEF IInv, CountInv, TypeOK
  <2> HIDE DEF Ids
  <2>3. QED
    BY <1>4, <2>1, <2>2, CredentialAssumption
<1>10. \A i \in Ids : credential[i] \in Stored
  BY DEF IInv, TypeOK
<1>11. request' \in [Request -> Requests]
  BY <1>4 DEF IInv, TypeOK
<1>12. QED
  BY <1>3, <1>4, <1>5, <1>6, <1>8, <1>9, <1>10, <1>11, AddKeeps

LEMMA BeginRotateKeeps ==
    ASSUME IInv, NEW r \in Request, NEW id \in Ids, BeginRotate(r, id)
    PROVE  IInv'
<1>1. PICK overlap \in Overlaps, lifetime \in Lifetimes :
        Reads(r, [op |-> "rotating", id |-> id, at |-> now,
                  overlap |-> Earlier(now + overlap, credential[id].expires),
                  expires |-> now + lifetime])
  BY DEF BeginRotate
<1> DEFINE q == [op |-> "rotating", id |-> id, at |-> now,
                 overlap |-> Earlier(now + overlap, credential[id].expires),
                 expires |-> now + lifetime]
<1>2. /\ now \in Nat /\ now > 0 /\ now + overlap \in Nat /\ now + lifetime \in Nat
      /\ id \in Nat /\ credential[id].expires \in Nat
  BY CredentialAssumption DEF IInv, TypeOK, Stored
<1>3. Earlier(now + overlap, credential[id].expires) \in Nat
  BY <1>2 DEF Earlier
<1>4. q \in Requests /\ q.op = "rotating" /\ q.id = id /\ q.at = now
  BY <1>2, <1>3 DEF Requests
<1> HIDE DEF q
<1>5. Knows(q, credential)
  BY <1>2, <1>4 DEF Knows
<1>6. QED
  BY <1>1, <1>4, <1>5, ReadsKeeps DEF q

LEMMA BeginRevokeKeeps ==
    ASSUME IInv, NEW r \in Request, NEW id \in Ids, BeginRevoke(r, id)
    PROVE  IInv'
<1> DEFINE q == [Idle EXCEPT !.op = "revoking", !.id = id, !.at = now]
<1>1. now \in Nat /\ now > 0 /\ id \in Nat
  BY DEF IInv, TypeOK
<1>2. q \in Requests /\ q.op = "revoking" /\ q.id = id /\ q.at = now
  BY <1>1 DEF Requests, Idle
<1>3. Reads(r, q)
  BY DEF BeginRevoke
<1> HIDE DEF q
<1>4. Knows(q, credential)
  BY <1>1, <1>2 DEF Knows
<1>5. QED
  BY <1>2, <1>3, <1>4, ReadsKeeps

LEMMA AuthenticateKeeps ==
    ASSUME IInv, NEW r \in Request, NEW id \in Ids, Authenticate(r, id)
    PROVE  IInv'
<1> DEFINE q == [Idle EXCEPT !.op = "touching", !.id = id, !.at = now]
<1>1. now \in Nat /\ now > 0 /\ id \in Nat
  BY DEF IInv, TypeOK
<1>2. q \in Requests /\ q.op = "touching" /\ q.id = id /\ q.at = now
  BY <1>1 DEF Requests, Idle
<1>3. Reads(r, q) /\ now < credential[id].expires
  BY DEF Authenticate, ValidAt
<1> HIDE DEF q
<1>4. Knows(q, credential)
  BY <1>1, <1>2, <1>3 DEF Knows
<1>5. QED
  BY <1>2, <1>3, <1>4, ReadsKeeps

LEMMA RotateNativeCredentialKeeps ==
    ASSUME IInv, NEW r \in Request, RotateNativeCredential(r)
    PROVE  IInv'
<1> DEFINE q == request[r]
           old == credential[q.id]
           c == Issued(old.account, q.id, q.expires)
<1>1. /\ q.op = "rotating" /\ q \in Requests /\ q.id \in Ids /\ q.at > 0
      /\ old \in Stored /\ Done(r)
  BY DEF RotateNativeCredential, IInv, TypeOK, RequestInv, Knows
<1>2. CASE old.revoked = Null /\ old.rotated = Null
  <2>1. credential' = [With(c) EXCEPT ![q.id].rotated = q.at, ![q.id].overlap = q.overlap]
    BY <1>2 DEF RotateNativeCredential
  <2>2. old.account \in Account /\ q.id \in Nat /\ q.expires \in Nat
    BY <1>1 DEF Stored, Requests
  <2>3. /\ c \in Stored /\ c.replaces = q.id /\ c.rotated = Null
    BY <2>2, IssuedIs
  <2> HIDE DEF c
  <2>4. New \notin Ids /\ \A i \in Ids : i # Null
    BY NewIs DEF IInv
  <2>5. /\ DOMAIN With(c) = Ids \cup {New} /\ With(c)[New] = c
        /\ \A i \in Ids : With(c)[i] = credential[i]
    BY <2>4 DEF With
  <2>6. DOMAIN credential' = Ids \cup {New}
    BY <2>1, <2>5
  <2>7. /\ credential'[New] = c
        /\ \A i \in Ids : i # q.id => credential'[i] = credential[i]
    BY <1>1, <2>1, <2>4, <2>5
  <2>8. credential'[q.id] = [old EXCEPT !.rotated = q.at, !.overlap = q.overlap]
    BY <1>1, <2>1, <2>5
  <2>9. /\ credential'[q.id] \in Stored
        /\ credential'[q.id].expires = old.expires
        /\ credential'[q.id].replaces = old.replaces
        /\ credential'[q.id].rotated = q.at
    BY <1>1, <2>8 DEF Stored, Requests
  <2>10. \A i \in Ids : credential[i] \in Stored
    BY DEF IInv, TypeOK
  <2>11. GoesOn
    BY <2>6, <2>7, <2>9 DEF GoesOn
  <2>12. request' = [request EXCEPT ![r] = Idle] /\ UNCHANGED <<enabled, now, left>>
    BY <1>1 DEF Done
  <2>13. RequestInv'
    BY <2>11, <2>12, IdleIs, RequestStep DEF IInv
  <2>14. Cardinality(Ids) + 1 + Cardinality(Rotating') + left' <= MaxEvents
    <3>1. Rotating' = Rotating \ {r} /\ r \in Rotating
      BY <1>1, <2>12, IdleIs, RotatingStep DEF IInv, Rotating
    <3>2. IsFiniteSet(Rotating) /\ Cardinality(Rotating) \in Nat
      BY RotatingIs
    <3>3. Cardinality(Rotating') = Cardinality(Rotating) - 1
      BY <3>1, <3>2, FS_RemoveElement
    <3>4. /\ Cardinality(Ids) \in Nat /\ left \in Nat
          /\ Cardinality(Ids) + Cardinality(Rotating) + left <= MaxEvents
      BY FS_CardinalityType DEF IInv, CountInv, TypeOK
    <3> HIDE DEF Ids
    <3>5. QED
      BY <2>12, <3>2, <3>3, <3>4, CredentialAssumption
  <2>15. request' \in [Request -> Requests] /\ left' \in 0..MaxEvents
    BY <2>12, IdleIs DEF IInv, TypeOK
  <2>16. \A i \in Ids : /\ credential'[i] \in Stored
                        /\ credential'[i].expires = credential[i].expires
                        /\ credential'[i].replaces = credential[i].replaces
                        /\ i # q.id => credential'[i].rotated = credential[i].rotated
                        /\ i = q.id => /\ credential[i].rotated = Null
                                       /\ credential'[i].rotated # Null
    BY <1>1, <1>2, <2>7, <2>9, <2>10 DEF Null
  <2>17. QED
    BY <1>1, <2>3, <2>6, <2>7, <2>12, <2>13, <2>14, <2>15, <2>16, AddKeeps
<1>3. CASE ~(old.revoked = Null /\ old.rotated = Null)
  <2>1. credential' = credential
    BY <1>3 DEF RotateNativeCredential
  <2>2. QED
    BY <1>1, <2>1, EndKeeps DEF IInv, TypeOK
<1>4. QED
  BY <1>2, <1>3

LEMMA RevokeNativeCredentialKeeps ==
    ASSUME IInv, NEW r \in Request, RevokeNativeCredential(r)
    PROVE  IInv'
<1> DEFINE q == request[r]
           old == credential[q.id]
<1>1. /\ q \in Requests /\ q.id \in Ids /\ old \in Stored /\ Done(r)
      /\ credential' = [credential EXCEPT ![q.id].revoked = IF @ = Null THEN q.at ELSE @]
  BY DEF RevokeNativeCredential, IInv, TypeOK, RequestInv, Knows
<1>2. /\ Ids' = Ids
      /\ \A i \in Ids : i # q.id => credential'[i] = credential[i]
      /\ credential'[q.id] = [old EXCEPT !.revoked = IF @ = Null THEN q.at ELSE @]
  BY <1>1
<1>3. /\ credential'[q.id] \in Stored
      /\ credential'[q.id].expires = old.expires
      /\ credential'[q.id].replaces = old.replaces
      /\ credential'[q.id].rotated = old.rotated
  BY <1>1, <1>2 DEF Stored, Requests
<1>4. \A i \in Ids : credential[i] \in Stored
  BY DEF IInv, TypeOK
<1>5. QED
  BY <1>1, <1>2, <1>3, <1>4, EndKeeps

LEMMA TouchNativeCredentialKeeps ==
    ASSUME IInv, NEW r \in Request, TouchNativeCredential(r)
    PROVE  IInv'
<1> DEFINE q == request[r]
           old == credential[q.id]
<1>1. q \in Requests /\ q.id \in Ids /\ old \in Stored /\ Done(r)
  BY DEF TouchNativeCredential, IInv, TypeOK, RequestInv, Knows
<1>2. \A i \in Ids : credential[i] \in Stored
  BY DEF IInv, TypeOK
<1>3. CASE credential' = credential
  BY <1>1, <1>2, <1>3, EndKeeps
<1>4. CASE credential' = [credential EXCEPT ![q.id].used = q.at]
  <2>1. /\ Ids' = Ids
        /\ \A i \in Ids : i # q.id => credential'[i] = credential[i]
        /\ credential'[q.id] = [old EXCEPT !.used = q.at]
    BY <1>1, <1>4
  <2>2. /\ credential'[q.id] \in Stored
        /\ credential'[q.id].expires = old.expires
        /\ credential'[q.id].replaces = old.replaces
        /\ credential'[q.id].rotated = old.rotated
    BY <1>1, <2>1 DEF Stored, Requests
  <2>3. QED
    BY <1>1, <1>2, <2>1, <2>2, EndKeeps
<1>5. QED
  BY <1>3, <1>4 DEF TouchNativeCredential

\* Accounts and the clock are nothing that a credential depends on.
LEMMA OthersKeep ==
    ASSUME IInv, UNCHANGED <<credential, request>>, enabled' \subseteq Account,
           now' \in 1..MaxTime, left' \in 0..MaxEvents, left' <= left
    PROVE  IInv'
<1>1. TypeOK' /\ ReplaceInv'
  BY DEF IInv, TypeOK, ReplaceInv
<1>2. RequestInv'
  BY SameGoesOn, RequestsStay DEF IInv
<1>3. CountInv'
  <2>1. Ids' = Ids /\ Rotating' = Rotating
    BY DEF Rotating
  <2>2. /\ Cardinality(Rotating) \in Nat /\ Cardinality(Ids) \in Nat /\ left \in Nat
        /\ Cardinality(Ids) + Cardinality(Rotating) + left <= MaxEvents
    BY RotatingIs, FS_CardinalityType DEF IInv, CountInv, TypeOK
  <2>3. Cardinality(Ids) + Cardinality(Rotating) + left' <= MaxEvents
    <3> HIDE DEF Ids
    <3>1. QED
      BY <2>2, CredentialAssumption
  <2>4. QED
    BY <2>1, <2>3 DEF IInv, CountInv
<1>4. QED
  BY <1>1, <1>2, <1>3 DEF IInv

LEMMA SetEnabledKeeps ==
    ASSUME IInv, NEW a \in Account, SetEnabled(a)
    PROVE  IInv'
<1>1. /\ enabled' \subseteq Account /\ left' \in 0..MaxEvents /\ left' <= left
      /\ UNCHANGED <<credential, request, now>>
  BY CredentialAssumption DEF SetEnabled, Event, IInv, TypeOK
<1>2. QED
  BY <1>1, OthersKeep DEF IInv, TypeOK

LEMMA TickKeeps ==
    ASSUME IInv, Tick
    PROVE  IInv'
<1>1. /\ now' \in 1..MaxTime /\ left' <= left
      /\ UNCHANGED <<credential, enabled, request, left>>
  BY CredentialAssumption DEF Tick, IInv, TypeOK
<1>2. QED
  BY <1>1, OthersKeep DEF IInv, TypeOK

LEMMA InitHolds == Init => IInv
<1> SUFFICES ASSUME Init PROVE IInv
  OBVIOUS
<1>1. Ids = {} /\ IsFiniteSet(Ids) /\ Cardinality(Ids) = 0
  BY FS_EmptySet DEF Init
<1>2. /\ enabled = Account /\ request \in [Request -> Requests]
      /\ \A r \in Request : request[r] = Idle
      /\ now = 1 /\ left = MaxEvents
  BY IdleIs DEF Init
<1>3. TypeOK
  BY <1>1, <1>2, CredentialAssumption DEF TypeOK
<1>4. Rotating = {}
  BY <1>2, IdleIs DEF Rotating
<1>5. Cardinality(Rotating) = 0
  BY <1>4, FS_EmptySet
<1>6. CountInv
  BY <1>1, <1>2, <1>5, CredentialAssumption DEF CountInv
<1>7. RequestInv /\ ReplaceInv
  BY <1>1, <1>2, IdleIs DEF RequestInv, ReplaceInv
<1>8. QED
  BY <1>3, <1>6, <1>7 DEF IInv

LEMMA NextKeeps == IInv /\ [Next]_vars => IInv'
<1> SUFFICES ASSUME IInv, [Next]_vars PROVE IInv'
  OBVIOUS
<1>1. ASSUME NEW r \in Request, NEW id \in Ids,
             BeginRotate(r, id) \/ BeginRevoke(r, id) \/ Authenticate(r, id)
      PROVE  IInv'
  BY <1>1, BeginRotateKeeps, BeginRevokeKeeps, AuthenticateKeeps
<1>2. ASSUME NEW r \in Request,
             \/ RotateNativeCredential(r) \/ RevokeNativeCredential(r)
             \/ TouchNativeCredential(r)
      PROVE  IInv'
  BY <1>2, RotateNativeCredentialKeeps, RevokeNativeCredentialKeeps,
     TouchNativeCredentialKeeps
<1>3. CASE UNCHANGED vars
  BY <1>3, OthersKeep DEF vars, IInv, TypeOK
<1>4. QED
  BY <1>1, <1>2, <1>3, IssueKeeps, SetEnabledKeeps, TickKeeps DEF Next

LEMMA IInvHolds == Spec => []IInv
  BY InitHolds, NextKeeps, PTL DEF Spec

-----------------------------------------------------------------------------
(* The theorems                                                            *)

\* Credentials, accounts and requests keep their types, and there are never
\* more credentials than were asked for.
THEOREM TypesCorrect == Spec => []TypeOK
<1>1. IInv => TypeOK
  BY DEF IInv
<1>2. QED
  BY <1>1, IInvHolds, PTL

\* RotateNativeCredential compares what it rotates: whatever rotations and
\* revocations of a credential overlap, one credential at most replaces it.
THEOREM ReplacedOnce == Spec => []OneReplacement
<1>1. ASSUME IInv, NEW i \in Ids
      PROVE  Cardinality({j \in Ids : credential[j].replaces = i})
               = IF credential[i].rotated = Null THEN 0 ELSE 1
  <2> DEFINE S == {j \in Ids : credential[j].replaces = i}
  <2>1. CASE credential[i].rotated = Null
    <3>1. S = {}
      BY <1>1, <2>1 DEF IInv, ReplaceInv
    <3>2. QED
      BY <2>1, <3>1, FS_EmptySet
  <2>2. CASE credential[i].rotated # Null
    <3>1. PICK j \in Ids : \A k \in Ids : credential[k].replaces = i <=> k = j
      BY <1>1, <2>2 DEF IInv, ReplaceInv
    <3>2. S = {j}
      BY <3>1
    <3>3. QED
      BY <2>2, <3>2, FS_Singleton
  <2>3. QED
    BY <2>1, <2>2
<1>2. IInv => OneReplacement
  BY <1>1 DEF OneReplacement
<1>3. QED
  BY <1>2, IInvHolds, PTL

\* Only TouchNativeCredential records a use.
LEMMA UseIsLive ==
    ASSUME IInv, [Next]_vars, NEW i \in Ids, credential'[i].used # credential[i].used
    PROVE  LET c == credential[i]
               at == credential'[i].used
           IN /\ c.revoked = Null /\ at < c.expires
              /\ (c.rotated # Null => SecondOf(at) <= SecondOf(c.overlap))
<1>1. PICK r \in Request : TouchNativeCredential(r)
  <2>1. ASSUME NEW a \in Account, Issue(a) PROVE credential'[i] = credential[i]
    <3>1. New \notin Ids
      BY NewIs DEF IInv
    <3>2. QED
      BY <2>1, <3>1 DEF Issue, With
  <2>2. ASSUME NEW r \in Request, RotateNativeCredential(r)
        PROVE  credential'[i].used = credential[i].used
    <3> DEFINE c == Issued(credential[request[r].id].account, request[r].id,
                           request[r].expires)
    <3>1. New \notin Ids /\ request[r].id \in Ids
      BY <2>2, NewIs DEF IInv, RequestInv, Knows, RotateNativeCredential
    <3>2. \/ credential' = credential
          \/ credential' = [With(c) EXCEPT ![request[r].id].rotated = request[r].at,
                                           ![request[r].id].overlap = request[r].overlap]
      BY <2>2 DEF RotateNativeCredential
    <3> HIDE DEF c
    <3>3. With(c)[i] = credential[i] /\ i \in DOMAIN With(c)
      BY <3>1 DEF With
    <3>4. credential[i] \in Stored
      BY DEF IInv, TypeOK
    <3>5. QED
      BY <3>2, <3>3, <3>4 DEF Stored
  <2>3. ASSUME NEW r \in Request, RevokeNativeCredential(r)
        PROVE  credential'[i].used = credential[i].used
    <3>1. credential[i] \in Stored
      BY DEF IInv, TypeOK
    <3>2. QED
      BY <2>3, <3>1 DEF RevokeNativeCredential, Stored
  <2>4. QED
    BY <2>1, <2>2, <2>3 DEF Next, vars, SetEnabled, BeginRotate, BeginRevoke, Authenticate,
       Reads, Tick
<1> DEFINE q == request[r]
<1>2. q.id \in Ids /\ q.at < credential[q.id].expires
  BY <1>1 DEF IInv, RequestInv, Knows, TouchNativeCredential
<1>3. /\ Touches(credential[q.id], q.at)
      /\ credential' = [credential EXCEPT ![q.id].used = q.at]
  BY <1>1 DEF TouchNativeCredential
<1>4. i = q.id /\ credential'[i].used = q.at
  <2>1. credential[i] \in Stored
    BY DEF IInv, TypeOK
  <2>2. QED
    BY <1>2, <1>3, <2>1 DEF Stored
<1>5. credential[i].rotated # Null => SecondOf(q.at) <= SecondOf(credential[i].overlap)
  <2>1. credential[i].overlap \in Nat /\ q.at \in Nat
    BY DEF IInv, TypeOK, Stored, Requests
  <2>2. SecondOf(credential[i].overlap) \in Int /\ SecondOf(q.at) \in Int
    BY <2>1, TextAssumption DEF SecondOf
  <2>3. QED
    BY <1>3, <1>4, <2>2 DEF Touches, TextAfter
<1>6. QED
  BY <1>2, <1>3, <1>4, <1>5 DEF Touches

\* TouchNativeCredential compares revocation, expiry and overlap once more: a
\* use that is recorded is of a credential that was alive when it was verified,
\* whatever was rotated or revoked while the request was on its way.
THEOREM UsesAreOfTheLive == Spec => UseIsOfTheLive
<1>1. IInv /\ [Next]_vars =>
        [\A i \in Ids :
           credential'[i].used # credential[i].used =>
             LET c == credential[i]
                 at == credential'[i].used
             IN /\ c.revoked = Null /\ at < c.expires
                /\ (c.rotated # Null => SecondOf(at) <= SecondOf(c.overlap))]_vars
  BY UseIsLive
<1>2. QED
  BY <1>1, IInvHolds, PTL DEF Spec, UseIsOfTheLive
=============================================================================

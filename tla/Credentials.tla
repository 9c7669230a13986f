------------------------------ MODULE Credentials ------------------------------
(***************************************************************************)
(* The native credentials of service accounts: issued, rotated with an      *)
(* overlap, revoked, and used (domain/serviceaccountcredential,             *)
(* application/service_accounts.go, persistence/service_accounts.go).       *)
(*                                                                         *)
(* A request reads a credential and its replica's clock, decides, and then  *)
(* writes by one conditional statement or transaction: the read and the     *)
(* write are two steps.  What a statement compares is the texts of times    *)
(* (TextTime).  Replicas have one clock.  Permissions and who may manage    *)
(* what are left to authorization.                                         *)
(***************************************************************************)
EXTENDS TextTime, Integers, FiniteSets

CONSTANTS
    Account,      \* service accounts
    Request,      \* requests that are served at a time
    MaxEvents,    \* bound: requests and changes of accounts
    MaxTime,      \* bound: ticks
    Lifetimes,    \* lifetimes that are asked for
    Overlaps,     \* overlaps that are asked for
    WriteInterval \* Policy.LastUsedWriteInterval

ASSUME CredentialAssumption ==
    /\ IsFiniteSet(Account) /\ IsFiniteSet(Request)
    /\ MaxEvents \in Nat /\ {MaxTime, WriteInterval} \subseteq Nat \ {0}
    /\ Lifetimes \subseteq Nat \ {0} /\ Overlaps \subseteq Nat \ {0}

VARIABLES
    credential,   \* table native_credential_metadata, in the order of creation
    enabled,      \* accounts whose principal is not disabled
    request,      \* what the requests under way have read and decided
    now,
    left          \* events that may still happen

vars == <<credential, enabled, request, now, left>>

Null == 0

\* The credential another one replaced is not stored: it is history.
Stored == [account : Account, replaces : Nat, expires : Nat, used : Nat,
           rotated : Nat, overlap : Nat, revoked : Nat]
Issued(a, replaces, expires) ==
    [account |-> a, replaces |-> replaces, expires |-> expires, used |-> Null,
     rotated |-> Null, overlap |-> Null, revoked |-> Null]

Requests == [op : {"idle", "rotating", "revoking", "touching"}, id : Nat, at : Nat,
             overlap : Nat, expires : Nat]
Idle == [op |-> "idle", id |-> 0, at |-> 0, overlap |-> 0, expires |-> 0]

Ids == DOMAIN credential

Init ==
    /\ credential = [i \in {} |-> 0]
    /\ enabled = Account
    /\ request = [r \in Request |-> Idle]
    /\ now = 1
    /\ left = MaxEvents

Event == left > 0 /\ left' = left - 1

-----------------------------------------------------------------------------
(* Time                                                                    *)

\* ValidateAt
ValidAt(c, t) ==
    /\ c.revoked = Null
    /\ t < c.expires
    /\ (c.rotated # Null => t < c.overlap)

\* ShouldRecordLastUsed
ShouldRecordLastUsed(c, t) == c.used = Null \/ t >= c.used + WriteInterval

Earlier(s, t) == IF s < t THEN s ELSE t

-----------------------------------------------------------------------------
(* Operations                                                              *)

New == Cardinality(Ids) + 1

With(c) == [i \in Ids \cup {New} |-> IF i = New THEN c ELSE credential[i]]

\* Issue
Issue(a) ==
    /\ Event
    /\ a \in enabled
    /\ \E lifetime \in Lifetimes : credential' = With(Issued(a, Null, now + lifetime))
    /\ UNCHANGED <<enabled, request, now>>

Reads(r, what) ==
    /\ Event
    /\ request[r].op = "idle"
    /\ credential[what.id].account \in enabled
    /\ request' = [request EXCEPT ![r] = what]
    /\ UNCHANGED <<credential, enabled, now>>
Done(r) == request' = [request EXCEPT ![r] = Idle] /\ UNCHANGED <<enabled, now, left>>

\* Rotate: the times of the rotation are those of its decision.
BeginRotate(r, id) ==
    /\ ValidAt(credential[id], now)
    /\ \E overlap \in Overlaps, lifetime \in Lifetimes :
         Reads(r, [op |-> "rotating", id |-> id, at |-> now,
                   overlap |-> Earlier(now + overlap, credential[id].expires),
                   expires |-> now + lifetime])

\* Mutant: a credential that was rotated meanwhile is rotated again.
RotateAgain(r) ==
    /\ request[r].op = "rotating"
    /\ LET q == request[r]
           c == credential[q.id]
       IN credential' =
            IF c.revoked = Null
            THEN [With(Issued(c.account, q.id, q.expires)) EXCEPT
                    ![q.id].rotated = q.at, ![q.id].overlap = q.overlap]
            ELSE credential
    /\ Done(r)

\* RotateNativeCredential: a credential that was revoked or rotated meanwhile
\* is a conflict.
RotateNativeCredential(r) ==
    /\ request[r].op = "rotating"
    /\ LET q == request[r]
           c == credential[q.id]
       IN credential' =
            IF c.revoked = Null /\ c.rotated = Null
            THEN [With(Issued(c.account, q.id, q.expires)) EXCEPT
                    ![q.id].rotated = q.at, ![q.id].overlap = q.overlap]
            ELSE credential
    /\ Done(r)

\* RevokeForAccount
BeginRevoke(r, id) == Reads(r, [Idle EXCEPT !.op = "revoking", !.id = id, !.at = now])

RevokeNativeCredential(r) ==
    /\ request[r].op = "revoking"
    /\ LET q == request[r] IN
       credential' = [credential EXCEPT ![q.id].revoked = IF @ = Null THEN q.at ELSE @]
    /\ Done(r)

\* Authenticate: the credential is verified as it was read.  What remains is
\* to record the use, if the last one was long ago.
Authenticate(r, id) ==
    /\ ValidAt(credential[id], now)
    /\ ShouldRecordLastUsed(credential[id], now)
    /\ Reads(r, [Idle EXCEPT !.op = "touching", !.id = id, !.at = now])

\* Mutant: only revocation and expiry are looked at again.
TouchesRotated(c, at) == c.revoked = Null /\ TextAfter(c.expires, at)

\* The condition of TouchNativeCredential.
Touches(c, at) ==
    /\ c.revoked = Null
    /\ TextAfter(c.expires, at)
    /\ c.rotated = Null \/ TextAfter(c.overlap, at)

\* A use that cannot be recorded is refused.
TouchNativeCredential(r) ==
    /\ request[r].op = "touching"
    /\ LET q == request[r] IN
       credential' = IF Touches(credential[q.id], q.at)
                     THEN [credential EXCEPT ![q.id].used = q.at] ELSE credential
    /\ Done(r)

\* UpdatePrincipal
SetEnabled(a) ==
    /\ Event
    /\ enabled' \in {enabled \cup {a}, enabled \ {a}}
    /\ enabled' # enabled
    /\ UNCHANGED <<credential, request, now>>

Tick ==
    /\ now < MaxTime
    /\ now' = now + 1
    /\ UNCHANGED <<credential, enabled, request, left>>

Next ==
    \/ \E a \in Account : Issue(a) \/ SetEnabled(a)
    \/ \E r \in Request :
         \/ \E id \in Ids : BeginRotate(r, id) \/ BeginRevoke(r, id) \/ Authenticate(r, id)
         \/ RotateNativeCredential(r) \/ RevokeNativeCredential(r) \/ TouchNativeCredential(r)
    \/ Tick

Spec == Init /\ [][Next]_vars
-----------------------------------------------------------------------------
(* Properties                                                              *)

\* Types of the variables.
TypeOK ==
    /\ Ids \subseteq 1..MaxEvents /\ \A i \in Ids : credential[i] \in Stored
    /\ enabled \subseteq Account
    /\ request \in [Request -> Requests]
    /\ now \in 1..MaxTime /\ left \in 0..MaxEvents

\* A credential is replaced at most once, and exactly if it was rotated,
\* whatever rotations and revocations overlap: what was issued to one client
\* never becomes two credentials that outlive every overlap.
OneReplacement ==
    \A i \in Ids :
      Cardinality({j \in Ids : credential[j].replaces = i})
        = IF credential[i].rotated = Null THEN 0 ELSE 1

\* A use that is recorded is of a credential that was not revoked before, had
\* not expired when the request was verified, and whose overlap, if it was
\* rotated while the request was on its way, had not ended before the second
\* of the request: texts of times tell no more than seconds apart.
UseIsOfTheLive ==
    [][\A i \in Ids :
         credential'[i].used # credential[i].used =>
           LET c == credential[i]
               at == credential'[i].used
           IN /\ c.revoked = Null /\ at < c.expires
              /\ (c.rotated # Null => SecondOf(at) <= SecondOf(c.overlap))]_vars
=============================================================================

------------------------------ MODULE OwnerLogin ------------------------------
(***************************************************************************)
(* How an installation gets its first owner, and how owners log in: setup   *)
(* (persistence/setup.go, application/setup.go), the settings of identity   *)
(* providers (persistence/identity_providers.go and the service of the     *)
(* same name), and local passwords (local_accounts.go in both).            *)
(*                                                                         *)
(* A request is what a replica of the API does for a client.  What it read *)
(* or computed before its transaction, or by an earlier statement of it, is *)
(* kept with the request; the statement that writes is a step of its own.   *)
(* Transactions are READ COMMITTED: only ClaimSetup and the changes of      *)
(* owners lock the installation.                                           *)
(*                                                                         *)
(* Who is an owner changes as in AccessControl, in one step here.  Roles    *)
(* that come by a team and the synchronization of teams are its subject;   *)
(* refreshed sessions are that of BrowserSessions.                          *)
(***************************************************************************)
EXTENDS Naturals, FiniteSets

CONSTANTS
    Human,        \* people a principal of kind HUMAN may stand for
    Provider,     \* identity providers
    Fingerprint,  \* inputs of setup that differ in more than the password
    Request,      \* requests that are served at a time
    MaxEvents     \* bound: requests that are begun and changes of owners

ASSUME LoginAssumption ==
    /\ IsFiniteSet(Human) /\ IsFiniteSet(Request)
    /\ MaxEvents \in Nat

VARIABLES
    human,        \* principals, with their role, account and identities
    provider,     \* table identity_providers
    completion,   \* table local_setup_completions
    session,      \* local browser sessions that are not revoked
    request,      \* what the requests under way have read
    proven,       \* history: configurations whose discovery once succeeded
    claimed,      \* history: claims of setup that were answered with success
    passwords,    \* passwords used so far
    secrets,      \* history: the passwords that were set, and how
    left          \* events that may still happen

vars == <<human, provider, completion, session, request, proven, claimed, passwords, secrets,
          left>>

None == "none"

\* A principal that has an id, whether it is enabled, how it is an owner, its
\* password (0: no local account) and the providers its identities are of.
Humans == [known : BOOLEAN, enabled : BOOLEAN, owner : {"no", "direct", "team"},
           password : Nat, identity : SUBSET Provider]
Nobody == [known |-> FALSE, enabled |-> FALSE, owner |-> "no", password |-> 0, identity |-> {}]

\* Version 0: the provider was not created.  The configuration is named by the
\* version it was written with.
Providers == [version : Nat, enabled : BOOLEAN, test : {"NOT_TESTED", "PASSED", "FAILED"},
              tested : Nat, configuration : Nat]
Missing == [version |-> 0, enabled |-> FALSE, test |-> "NOT_TESTED", tested |-> 0,
            configuration |-> 0]

Operations == {"idle", "testing", "tested", "updating", "enabling", "disabling", "claiming",
               "changing", "changed", "resetting", "login"}
Requests == [op : Operations, provider : Provider \cup {None}, version : Nat, passed : BOOLEAN,
             human : Human \cup {None}, password : Nat, fingerprint : Fingerprint \cup {None}]
Idle == [op |-> "idle", provider |-> None, version |-> 0, passed |-> FALSE,
         human |-> None, password |-> 0, fingerprint |-> None]

\* Whose password it is, and the one that had been verified for the change; by
\* setup and by a reset, where none is verified, the password itself.
Secrets == [human : Human, password : Nat, verified : Nat]

\* Nothing was set up.
Fresh ==
    /\ human = [h \in Human |-> Nobody]
    /\ provider = [p \in Provider |-> Missing]
    /\ completion = {}
    /\ claimed = {}
    /\ proven = {}
    /\ passwords = 0
    /\ secrets = {}

\* Every provider was created, tested and enabled, and those who are known by
\* one are owners; the local owner of setup may still be one.
Established ==
    \E founder, stranger \in Human, still \in BOOLEAN, of \in [Human -> Provider],
       f \in Fingerprint :
      /\ human = [h \in Human |->
                    IF h = founder
                    THEN [known |-> TRUE, enabled |-> still, owner |-> "direct",
                          password |-> 1, identity |-> {}]
                    ELSE IF h = stranger THEN Nobody
                    ELSE [known |-> TRUE, enabled |-> TRUE, owner |-> "direct",
                          password |-> 0, identity |-> {of[h]}]]
      /\ provider = [p \in Provider |->
                       [version |-> 3, enabled |-> TRUE, test |-> "PASSED", tested |-> 3,
                        configuration |-> 1]]
      /\ completion = {[fingerprint |-> f, owner |-> founder]}
      /\ claimed = {[fingerprint |-> f, owner |-> founder]}
      /\ proven = Provider \X {1}
      /\ passwords = 1
      /\ secrets = {[human |-> founder, password |-> 1, verified |-> 1]}

Init ==
    /\ Fresh \/ Established
    /\ session = {}
    /\ request = [r \in Request |-> Idle]
    /\ left = MaxEvents

Event == left > 0 /\ left' = left - 1

Begin(r, what) ==
    /\ Event
    /\ request[r].op = "idle"
    /\ request' = [request EXCEPT ![r] = what]
Done(r) == request' = [request EXCEPT ![r] = Idle] /\ UNCHANGED left

\* A new password, numbered in the order in which they are set.
Set(h, verified) ==
    /\ passwords' = passwords + 1
    /\ secrets' = secrets \cup
         {[human |-> h, password |-> passwords + 1, verified |-> verified]}

Local == <<session, passwords, secrets>>
Setup == <<completion, claimed>>

-----------------------------------------------------------------------------
(* Owners and logins                                                       *)

\* IsInstallationOwner
IsInstallationOwner(h) == human[h].enabled /\ human[h].owner = "direct"

\* hasAlternativeOwnerLogin
HasAlternativeOwnerLogin(p) ==
    \E h \in Human :
      /\ IsInstallationOwner(h)
      /\ \/ human[h].password # 0
         \/ \E q \in human[h].identity \ {p} : provider[q].enabled

\* HasVerifiedInstallationOwner
HasVerifiedInstallationOwner ==
    \E h \in Human :
      IsInstallationOwner(h) /\ (human[h].password # 0 \/ human[h].identity # {})

\* CanEnable
CanEnable(p) == provider[p].test = "PASSED" /\ provider[p].tested = provider[p].version

\* What EnabledLoginMethods lists.
Offered(p) == provider[p].enabled /\ CanEnable(p)

Owners(humans) == {h \in Human : humans[h].enabled /\ humans[h].owner # "no"}

\* UpdatePrincipal, CreateRoleBinding, DeleteRoleBinding and the like, by an
\* owner.  The last owner remains, with or without a way to log in.
ChangeOwner(h) ==
    /\ Event
    /\ human[h].known
    /\ \E o \in Human : IsInstallationOwner(o)
    /\ \E enabled \in BOOLEAN, owner \in {"no", "direct", "team"} :
         human' = [human EXCEPT ![h].enabled = enabled, ![h].owner = owner]
    /\ human' # human
    /\ Owners(human') # {}
    /\ UNCHANGED <<provider, completion, session, request, proven, claimed, passwords, secrets>>

\* ResolveOIDCPrincipal: the first login with a provider makes a principal.
Provision(h, p) ==
    /\ Event
    /\ ~human[h].known /\ provider[p].enabled
    /\ human' = [human EXCEPT ![h].known = TRUE, ![h].enabled = TRUE, ![h].identity = {p}]
    /\ UNCHANGED <<provider, completion, session, request, proven, claimed, passwords, secrets>>

-----------------------------------------------------------------------------
(* Identity providers                                                      *)

AnOwnerAsks == \E h \in Human : IsInstallationOwner(h)

CreateIdentityProvider(p) ==
    /\ Event
    /\ AnOwnerAsks /\ provider[p].version = 0
    /\ provider' = [provider EXCEPT ![p] = [Missing EXCEPT !.version = 1, !.configuration = 1]]
    /\ UNCHANGED <<human, completion, session, request, proven, claimed, passwords, secrets>>

Of(op, p) == [Idle EXCEPT !.op = op, !.provider = p, !.version = provider[p].version]

\* Test reads the provider, asks it without a transaction, and records what it
\* was answered.
BeginTest(r, p) ==
    /\ AnOwnerAsks /\ provider[p].version > 0
    /\ Begin(r, Of("testing", p))
    /\ UNCHANGED <<human, provider, Setup, Local, proven>>

\* The configuration that is asked is the one of the version that was read.
Preflight(r) ==
    /\ request[r].op = "testing"
    /\ \E passed \in BOOLEAN :
         /\ request' = [request EXCEPT ![r].op = "tested", ![r].passed = passed]
         /\ LET p == request[r].provider IN
            proven' = IF passed /\ request[r].version = provider[p].version
                      THEN proven \cup {<<p, provider[p].configuration>>} ELSE proven
    /\ UNCHANGED <<human, provider, Setup, Local, left>>

Unchanged(r) == provider[request[r].provider].version = request[r].version

\* Mutant: the version is not compared.
RecordWhateverWasTested(r) ==
    /\ request[r].op = "tested"
    /\ LET p == request[r].provider IN
       provider' = [provider EXCEPT
         ![p].test = IF request[r].passed THEN "PASSED" ELSE "FAILED",
         ![p].tested = provider[p].version + 1, ![p].version = @ + 1]
    /\ Done(r)
    /\ UNCHANGED <<human, Setup, Local, proven>>

RecordIdentityProviderTest(r) ==
    /\ request[r].op = "tested"
    /\ LET p == request[r].provider IN
       provider' = IF Unchanged(r)
         THEN [provider EXCEPT
                 ![p].test = IF request[r].passed THEN "PASSED" ELSE "FAILED",
                 ![p].tested = provider[p].version + 1, ![p].version = @ + 1]
         ELSE provider
    /\ Done(r)
    /\ UNCHANGED <<human, Setup, Local, proven>>

\* UpdateIdentityProvider first reads whether the version it expects is enabled.
BeginUpdate(r, p) ==
    /\ AnOwnerAsks /\ provider[p].version > 0
    /\ provider[p].enabled => HasAlternativeOwnerLogin(p)
    /\ Begin(r, Of("updating", p))
    /\ UNCHANGED <<human, provider, Setup, Local, proven>>

UpdateIdentityProvider(r) ==
    /\ request[r].op = "updating"
    /\ LET p == request[r].provider IN
       provider' = IF Unchanged(r)
         THEN [provider EXCEPT ![p] = [Missing EXCEPT !.version = provider[p].version + 1,
                                                      !.configuration = provider[p].version + 1]]
         ELSE provider
    /\ Done(r)
    /\ UNCHANGED <<human, Setup, Local, proven>>

\* setEnabled reads the provider; SetIdentityProviderEnabled looks for another
\* login before it disables.
BeginEnable(r, p) ==
    /\ AnOwnerAsks /\ ~provider[p].enabled /\ CanEnable(p)
    /\ Begin(r, Of("enabling", p))
    /\ UNCHANGED <<human, provider, Setup, Local, proven>>

BeginDisable(r, p) ==
    /\ AnOwnerAsks /\ provider[p].enabled /\ HasAlternativeOwnerLogin(p)
    /\ Begin(r, Of("disabling", p))
    /\ UNCHANGED <<human, provider, Setup, Local, proven>>

SetIdentityProviderEnabled(r) ==
    /\ request[r].op \in {"enabling", "disabling"}
    /\ LET p == request[r].provider
           enable == request[r].op = "enabling"
       IN provider' = IF Unchanged(r) /\ (enable => CanEnable(p))
            THEN [provider EXCEPT
                    ![p].enabled = enable,
                    ![p].tested = IF provider[p].test = "PASSED" THEN provider[p].version + 1 ELSE @,
                    ![p].version = @ + 1]
            ELSE provider
    /\ Done(r)
    /\ UNCHANGED <<human, Setup, Local, proven>>

-----------------------------------------------------------------------------
(* Setup                                                                   *)

\* Claim: the installation is ready and has no owner.
BeginClaim(r, f) ==
    /\ ~HasVerifiedInstallationOwner
    /\ Begin(r, [Idle EXCEPT !.op = "claiming", !.fingerprint = f])
    /\ UNCHANGED <<human, provider, Setup, Local, proven>>

Answer(claim) == claimed' = claimed \cup {claim}

\* Mutant: whoever comes late is answered with the claim that won.
Replayable(r) == completion
\* The claim of the same input that won already.
Replays(r) == {c \in completion : c.fingerprint = request[r].fingerprint}

\* ClaimSetup, with the installation locked: a claim that comes late is
\* answered as a replay or refused; the first one makes a principal with a
\* local account and the role of owner.  Only one can be recorded as complete.
ClaimSetup(r) ==
    /\ request[r].op = "claiming"
    /\ IF HasVerifiedInstallationOwner
       THEN /\ \/ \E c \in Replays(r) :
                    Answer([fingerprint |-> request[r].fingerprint, owner |-> c.owner])
               \/ Replays(r) = {} /\ UNCHANGED claimed
            /\ UNCHANGED <<human, completion, passwords, secrets>>
       ELSE IF completion # {} THEN UNCHANGED <<human, Setup, passwords, secrets>>
       ELSE \E h \in {x \in Human : ~human[x].known} :
              /\ human' = [human EXCEPT
                   ![h] = [known |-> TRUE, enabled |-> TRUE, owner |-> "direct",
                           password |-> passwords + 1, identity |-> {}]]
              /\ Set(h, passwords + 1)
              /\ completion' = {[fingerprint |-> request[r].fingerprint, owner |-> h]}
              /\ Answer([fingerprint |-> request[r].fingerprint, owner |-> h])
    /\ Done(r)
    /\ UNCHANGED <<provider, session, proven>>

-----------------------------------------------------------------------------
(* Local passwords                                                         *)

About(op, h) == [Idle EXCEPT !.op = op, !.human = h, !.password = human[h].password]

\* Login: the password was the account's when it was verified.
BeginLogin(r, h) ==
    /\ human[h].enabled /\ human[h].password # 0
    /\ Begin(r, About("login", h))
    /\ UNCHANGED <<human, provider, Setup, Local, proven>>

\* ChangePassword, in a local session: the current password is verified, and
\* the new one hashed, before the transaction.
BeginChange(r, h) ==
    /\ \E s \in session : s.human = h
    /\ human[h].enabled
    /\ Begin(r, About("changing", h))
    /\ UNCHANGED <<human, provider, Setup, Local, proven>>

NewPassword(h, verified) ==
    /\ human' = [human EXCEPT ![h].password = passwords + 1]
    /\ Set(h, verified)
    /\ session' = {s \in session : s.human # h}

\* Mutant: the update does not compare the hash.
ChangeAnyPassword(r) ==
    /\ request[r].op = "changing"
    /\ NewPassword(request[r].human, request[r].password)
    /\ request' = [request EXCEPT ![r].op = "changed"]
    /\ UNCHANGED <<provider, Setup, proven, left>>

ChangeLocalPassword(r) ==
    /\ request[r].op = "changing"
    /\ IF human[request[r].human].password = request[r].password
       THEN /\ NewPassword(request[r].human, request[r].password)
            /\ request' = [request EXCEPT ![r].op = "changed"]
       ELSE request' = [request EXCEPT ![r] = Idle] /\ UNCHANGED <<human, Local>>
    /\ UNCHANGED <<provider, Setup, proven, left>>

\* ResetPassword, by an owner.
BeginReset(r, h) ==
    /\ AnOwnerAsks /\ human[h].password # 0
    /\ Begin(r, About("resetting", h))
    /\ UNCHANGED <<human, provider, Setup, Local, proven>>

ResetLocalPassword(r) ==
    /\ request[r].op = "resetting"
    /\ IF human[request[r].human].enabled
       THEN NewPassword(request[r].human, passwords + 1) ELSE UNCHANGED <<human, Local>>
    /\ Done(r)
    /\ UNCHANGED <<provider, Setup, proven>>

\* CreateBrowserSession, after a login or after a change: it asks whether the
\* principal is enabled, and nothing about the password.
CreateBrowserSession(r) ==
    /\ request[r].op \in {"login", "changed"}
    /\ LET h == request[r].human IN
       session' = IF human[h].enabled
                  THEN session \cup {[human |-> h, password |-> request[r].password]}
                  ELSE session
    /\ Done(r)
    /\ UNCHANGED <<human, provider, Setup, passwords, secrets, proven>>

\* The replica stops, or the client gives up before a transaction.
Abandoned(r) ==
    /\ request[r].op # "idle"
    /\ Done(r)
    /\ UNCHANGED <<human, provider, Setup, Local, proven>>

-----------------------------------------------------------------------------
Settings(r) ==
    \/ \E p \in Provider :
         BeginTest(r, p) \/ BeginUpdate(r, p) \/ BeginEnable(r, p) \/ BeginDisable(r, p)
    \/ Preflight(r) \/ RecordIdentityProviderTest(r)
    \/ UpdateIdentityProvider(r) \/ SetIdentityProviderEnabled(r)

Accounts(r) ==
    \/ \E f \in Fingerprint : BeginClaim(r, f)
    \/ ClaimSetup(r)
    \/ \E h \in Human : BeginLogin(r, h) \/ BeginChange(r, h) \/ BeginReset(r, h)
    \/ ChangeLocalPassword(r) \/ ResetLocalPassword(r) \/ CreateBrowserSession(r)

Next ==
    \/ \E r \in Request : Settings(r) \/ Accounts(r) \/ Abandoned(r)
    \/ \E h \in Human : ChangeOwner(h)
    \/ \E h \in Human, p \in Provider : Provision(h, p)
    \/ \E p \in Provider : CreateIdentityProvider(p)

Spec == Init /\ [][Next]_vars
-----------------------------------------------------------------------------
(* Properties                                                              *)

Claims == [fingerprint : Fingerprint, owner : Human]

\* Types of the variables.
TypeOK ==
    /\ human \in [Human -> Humans] /\ provider \in [Provider -> Providers]
    /\ completion \subseteq Claims /\ claimed \subseteq Claims
    /\ session \subseteq [human : Human, password : Nat]
    /\ request \in [Request -> Requests]
    /\ proven \subseteq Provider \X Nat
    /\ passwords \in Nat /\ secrets \subseteq Secrets
    /\ left \in 0..MaxEvents

\* A provider that is offered for login has the configuration whose discovery
\* succeeded, whatever was updated while it was tested or enabled.
OfferedIsProven ==
    \A p \in Provider : Offered(p) => <<p, provider[p].configuration>> \in proven

\* ADR 0009: "concurrent claims have exactly one winner": all claims that were
\* ever answered with success, replays included, are of one input and name
\* one owner, also when owners are disabled or lose their role later.
SetupHasOneWinner == \A c, d \in claimed : c = d

\* Between the verification of a password and the change that it was verified
\* for, no other password of the account is set, by a change or by a reset: a
\* change that is answered with success undoes neither.
ChangesUndoNothing ==
    \A c, d \in secrets :
      c.human = d.human => ~(c.verified < d.password /\ d.password < c.password)
=============================================================================

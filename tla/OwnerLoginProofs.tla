--------------------------- MODULE OwnerLoginProofs ---------------------------
(***************************************************************************)
(* Proofs about OwnerLogin, for any number of people, providers and         *)
(* requests.  Requests read, and write later under no lock but that of the  *)
(* installation.  What makes this right is that versions and passwords only *)
(* go on: a request knows no more than the present, and one that read the   *)
(* present version or password read what is stored now.                     *)
(***************************************************************************)
EXTENDS OwnerLogin, TLAPS

-----------------------------------------------------------------------------
(* The inductive invariant                                                 *)

\* Whose provider and whose account a request is about.
AboutProvider == {"testing", "tested", "updating", "enabling", "disabling"}
AboutHuman == {"changing", "changed", "resetting", "login"}

\* A request read no later version and no later password than the present
\* ones.  If it asked the present version of a provider with success then the
\* configuration is proven.
Sound(q, providers, humans, seen) ==
    /\ q.op \in AboutProvider =>
         q.provider \in Provider /\ q.version <= providers[q.provider].version
    /\ q.op \in AboutHuman =>
         q.human \in Human /\ q.password <= humans[q.human].password
    /\ q.op = "claiming" => q.fingerprint \in Fingerprint
    /\ q.op = "tested" /\ q.passed /\ q.version = providers[q.provider].version =>
         <<q.provider, providers[q.provider].configuration>> \in seen

RequestInv == \A r \in Request : Sound(request[r], provider, human, proven)

\* A configuration that counts as tested is proven, also while it is not
\* offered: disabling a provider carries the result to the next version.
ProviderInv ==
    \A p \in Provider :
      provider[p].test = "PASSED" => <<p, provider[p].configuration>> \in proven

PasswordInv == \A h \in Human : human[h].password <= passwords

\* No password of an account was set after its present one.
SecretInv == \A c \in secrets : c.password <= human[c.human].password

\* The one completion is what every claim was answered with.
ClaimInv == claimed = completion /\ \A c, d \in completion : c = d

IInv ==
    /\ TypeOK /\ RequestInv /\ ProviderInv /\ PasswordInv /\ ClaimInv
    /\ SecretInv /\ ChangesUndoNothing

-----------------------------------------------------------------------------
(* Steps                                                                   *)

\* Versions go on, and the configuration of a version is that of its writing.
ProvidersGoOn ==
    \A p \in Provider :
      /\ provider[p].version <= provider'[p].version
      /\ provider[p].version = provider'[p].version =>
           provider[p].configuration = provider'[p].configuration
\* Passwords are numbered in the order in which they were set.
PasswordsGoOn == \A h \in Human : human[h].password <= human'[h].password

GoesOn == ProvidersGoOn /\ PasswordsGoOn /\ proven \subseteq proven'

LEMMA IdleIs ==
    /\ Idle \in Requests /\ Idle.op = "idle"
    /\ \A providers, humans, seen : Sound(Idle, providers, humans, seen)
  BY DEF Idle, Requests, Operations, Sound, AboutProvider, AboutHuman

LEMMA NothingChanges ==
    ASSUME TypeOK, UNCHANGED <<provider, human, proven>>
    PROVE  GoesOn
  BY DEF TypeOK, Providers, Humans, GoesOn, ProvidersGoOn, PasswordsGoOn

\* What a request knows stays sound when the tables go on.
LEMMA SoundStays ==
    ASSUME TypeOK, TypeOK', GoesOn,
           NEW q \in Requests, Sound(q, provider, human, proven)
    PROVE  Sound(q, provider', human', proven')
<1>1. ASSUME q.op \in AboutProvider
      PROVE  /\ q.provider \in Provider /\ q.version \in Nat
             /\ provider[q.provider].version \in Nat /\ provider'[q.provider].version \in Nat
             /\ q.version <= provider[q.provider].version
             /\ provider[q.provider].version <= provider'[q.provider].version
  BY <1>1 DEF Sound, TypeOK, Providers, Requests, GoesOn, ProvidersGoOn
<1>2. ASSUME q.op \in AboutHuman
      PROVE  /\ q.human \in Human /\ q.password \in Nat
             /\ human[q.human].password \in Nat /\ human'[q.human].password \in Nat
             /\ q.password <= human[q.human].password
             /\ human[q.human].password <= human'[q.human].password
  BY <1>2 DEF Sound, TypeOK, Humans, Requests, GoesOn, PasswordsGoOn
<1>3. q.op \in AboutProvider =>
        q.provider \in Provider /\ q.version <= provider'[q.provider].version
  BY <1>1
<1>4. q.op \in AboutHuman => q.human \in Human /\ q.password <= human'[q.human].password
  BY <1>2
<1>5. q.op = "claiming" => q.fingerprint \in Fingerprint
  BY DEF Sound
<1>6. ASSUME q.op = "tested", q.passed, q.version = provider'[q.provider].version
      PROVE  <<q.provider, provider'[q.provider].configuration>> \in proven'
  <2>1. q.provider \in Provider /\ q.version = provider[q.provider].version
    BY <1>1, <1>6 DEF AboutProvider
  <2>2. provider[q.provider].configuration = provider'[q.provider].configuration
    BY <1>6, <2>1 DEF GoesOn, ProvidersGoOn
  <2>3. <<q.provider, provider[q.provider].configuration>> \in proven
    BY <1>6, <2>1 DEF Sound
  <2>4. QED
    BY <2>2, <2>3 DEF GoesOn
<1>7. QED
  BY <1>3, <1>4, <1>5, <1>6 DEF Sound

\* A step that gives one request a new state.
LEMMA RequestStep ==
    ASSUME TypeOK, TypeOK', RequestInv, GoesOn,
           NEW r \in Request, NEW q, Sound(q, provider', human', proven'),
           request' = [request EXCEPT ![r] = q]
    PROVE  RequestInv'
<1>1. ASSUME NEW s \in Request, s # r PROVE Sound(request'[s], provider', human', proven')
  <2>1. request'[s] = request[s] /\ request[s] \in Requests
    BY <1>1 DEF TypeOK
  <2>2. Sound(request[s], provider', human', proven')
    BY <2>1, SoundStays DEF RequestInv
  <2>3. QED
    BY <2>1, <2>2
<1>2. request'[r] = q
  BY DEF TypeOK
<1>3. QED
  BY <1>1, <1>2 DEF RequestInv

\* Requests that are where they were, or became idle, know nothing new.
LEMMA RequestsStay ==
    ASSUME TypeOK, TypeOK', RequestInv, GoesOn, UNCHANGED request
    PROVE  RequestInv'
<1>1. \A s \in Request : Sound(request[s], provider', human', proven')
  BY SoundStays DEF RequestInv, TypeOK
<1>2. QED
  BY <1>1 DEF RequestInv

LEMMA RequestEnds ==
    ASSUME TypeOK, TypeOK', RequestInv, GoesOn, NEW r \in Request, Done(r)
    PROVE  RequestInv'
  BY RequestStep, IdleIs DEF Done

LEMMA SecretsStay ==
    ASSUME TypeOK, TypeOK', SecretInv, ChangesUndoNothing, GoesOn, UNCHANGED secrets
    PROVE  SecretInv' /\ ChangesUndoNothing'
<1>1. ASSUME NEW c \in secrets PROVE c.password <= human'[c.human].password
  <2>1. /\ c.human \in Human /\ c.password \in Nat
        /\ human[c.human].password \in Nat /\ human'[c.human].password \in Nat
    BY DEF TypeOK, Secrets, Humans
  <2>2. /\ c.password <= human[c.human].password
        /\ human[c.human].password <= human'[c.human].password
    BY <2>1 DEF SecretInv, GoesOn, PasswordsGoOn
  <2>3. QED
    BY <2>1, <2>2
<1>2. QED
  BY <1>1 DEF SecretInv, ChangesUndoNothing

\* A request is begun with what was just read.
LEMMA BeginKeeps ==
    ASSUME IInv, NEW r \in Request, NEW q \in Requests, Begin(r, q),
           Sound(q, provider, human, proven),
           UNCHANGED <<human, provider, completion, session, proven, claimed, passwords, secrets>>
    PROVE  IInv'
<1>1. request' = [request EXCEPT ![r] = q] /\ left > 0 /\ left' = left - 1
  BY DEF Begin, Event
<1>2. TypeOK'
  <2>1. request' \in [Request -> Requests]
    BY <1>1 DEF IInv, TypeOK
  <2>2. left' \in 0..MaxEvents
    BY <1>1, LoginAssumption DEF IInv, TypeOK
  <2>3. QED
    BY <2>1, <2>2 DEF IInv, TypeOK
<1>3. GoesOn
  BY NothingChanges DEF IInv
<1>4. Sound(q, provider', human', proven')
  OBVIOUS
<1>5. RequestInv'
  BY <1>1, <1>2, <1>3, <1>4, RequestStep DEF IInv
<1>6. SecretInv' /\ ChangesUndoNothing'
  BY <1>2, <1>3, SecretsStay DEF IInv
<1>7. QED
  BY <1>2, <1>5, <1>6 DEF IInv, ProviderInv, PasswordInv, ClaimInv

\* A request ends, and people or passwords are not touched.
LEMMA EndKeeps ==
    ASSUME IInv, NEW r \in Request, Done(r), ProvidersGoOn, proven = proven',
           provider' \in [Provider -> Providers], ProviderInv',
           session' \subseteq [human : Human, password : Nat],
           UNCHANGED <<human, completion, claimed, passwords, secrets>>
    PROVE  IInv'
<1>1. TypeOK'
  BY IdleIs DEF IInv, TypeOK, Done
<1>2. GoesOn
  BY DEF IInv, TypeOK, Humans, GoesOn, PasswordsGoOn
<1>3. RequestInv'
  BY <1>1, <1>2, RequestEnds DEF IInv
<1>4. SecretInv' /\ ChangesUndoNothing'
  BY <1>1, <1>2, SecretsStay DEF IInv
<1>5. QED
  BY <1>1, <1>3, <1>4 DEF IInv, PasswordInv, ClaimInv

-----------------------------------------------------------------------------
(* Identity providers                                                      *)

LEMMA OfIs ==
    ASSUME TypeOK, NEW p \in Provider, NEW op \in AboutProvider \ {"tested"}
    PROVE  /\ Of(op, p) \in Requests /\ Of(op, p).op = op
           /\ Sound(Of(op, p), provider, human, proven)
<1> DEFINE q == Of(op, p)
<1>1. /\ provider[p].version \in Nat
      /\ op \in Operations /\ op \notin {"tested", "changed", "claiming"} /\ op \notin AboutHuman
  BY DEF TypeOK, Providers, AboutProvider, AboutHuman, Operations
<1>2. /\ q.op = op /\ q.provider = p /\ q.version = provider[p].version
      /\ q.passed = FALSE
  BY DEF Of, Idle
<1>3. q \in Requests
  BY <1>1 DEF Requests, Of, Idle
<1>4. Sound(q, provider, human, proven)
  BY <1>1, <1>2 DEF Sound
<1>5. QED
  BY <1>2, <1>3, <1>4

LEMMA BeginSettingsKeeps ==
    ASSUME IInv, NEW r \in Request, NEW p \in Provider,
           BeginTest(r, p) \/ BeginUpdate(r, p) \/ BeginEnable(r, p) \/ BeginDisable(r, p)
    PROVE  IInv'
<1>1. PICK op \in AboutProvider \ {"tested"} :
        /\ Begin(r, Of(op, p))
        /\ UNCHANGED <<human, provider, completion, session, proven, claimed, passwords, secrets>>
  BY DEF BeginTest, BeginUpdate, BeginEnable, BeginDisable, AboutProvider, Setup, Local
<1>2. Of(op, p) \in Requests
      /\ Sound(Of(op, p), provider, human, proven)
  BY OfIs DEF IInv, AboutProvider
<1>3. QED
  BY <1>1, <1>2, BeginKeeps

LEMMA PreflightKeeps ==
    ASSUME IInv, NEW r \in Request, Preflight(r)
    PROVE  IInv'
<1> DEFINE q == request[r]
           p == q.provider
<1>1. PICK passed \in BOOLEAN :
        /\ request' = [request EXCEPT ![r].op = "tested", ![r].passed = passed]
        /\ proven' = IF passed /\ q.version = provider[p].version
                     THEN proven \cup {<<p, provider[p].configuration>>} ELSE proven
  BY DEF Preflight
<1>2. /\ UNCHANGED <<human, provider, completion, session, claimed, passwords, secrets, left>>
      /\ q.op = "testing" /\ q \in Requests /\ p \in Provider
      /\ Sound(q, provider, human, proven)
  BY DEF Preflight, Setup, Local, IInv, TypeOK, RequestInv, Sound, AboutProvider
<1> DEFINE n == [q EXCEPT !.op = "tested", !.passed = passed]
<1>3. request' = [request EXCEPT ![r] = n]
  BY <1>1, <1>2 DEF IInv, TypeOK, Requests
<1>4. /\ n \in Requests /\ n.op = "tested" /\ n.passed = passed
      /\ n.provider = p /\ n.version = q.version
  BY <1>2 DEF Requests, Operations
<1> HIDE DEF n
<1>5. proven \subseteq proven' /\ proven' \subseteq Provider \X Nat
  BY <1>1, <1>2 DEF IInv, TypeOK, Providers
<1>6. TypeOK'
  BY <1>2, <1>3, <1>4, <1>5 DEF IInv, TypeOK
<1>7. GoesOn
  BY <1>2, <1>5 DEF IInv, TypeOK, Providers, Humans, GoesOn, ProvidersGoOn, PasswordsGoOn
<1>8. Sound(n, provider', human', proven')
  BY <1>1, <1>2, <1>4 DEF Sound, AboutProvider, AboutHuman
<1>9. RequestInv'
  BY <1>3, <1>6, <1>7, <1>8, RequestStep DEF IInv
<1>10. SecretInv' /\ ChangesUndoNothing'
  BY <1>2, <1>6, <1>7, SecretsStay DEF IInv
<1>11. ProviderInv' /\ PasswordInv' /\ ClaimInv'
  BY <1>2, <1>5 DEF IInv, ProviderInv, PasswordInv, ClaimInv
<1>12. QED
  BY <1>6, <1>9, <1>10, <1>11 DEF IInv

\* The provider of a request gets a new version, whose result is "PASSED" only
\* if that of its configuration is proven.
LEMMA ProviderStep ==
    ASSUME IInv, NEW p \in Provider, NEW n \in Providers,
           n.version > provider[p].version,
           n.test = "PASSED" => <<p, n.configuration>> \in proven,
           provider' = [provider EXCEPT ![p] = n], proven' = proven
    PROVE  /\ ProvidersGoOn /\ ProviderInv'
           /\ provider' \in [Provider -> Providers]
<1>1. provider'[p] = n /\ \A x \in Provider : x # p => provider'[x] = provider[x]
  BY DEF IInv, TypeOK
<1>2. provider' \in [Provider -> Providers]
  BY DEF IInv, TypeOK
<1>3. ProvidersGoOn
  BY <1>1 DEF IInv, TypeOK, Providers, ProvidersGoOn
<1>4. ProviderInv'
  BY <1>1 DEF IInv, ProviderInv
<1>5. QED
  BY <1>2, <1>3, <1>4

LEMMA RecordIdentityProviderTestKeeps ==
    ASSUME IInv, NEW r \in Request, RecordIdentityProviderTest(r)
    PROVE  IInv'
<1> DEFINE q == request[r]
           p == q.provider
           n == [provider[p] EXCEPT
                   !.test = IF q.passed THEN "PASSED" ELSE "FAILED",
                   !.tested = provider[p].version + 1, !.version = @ + 1]
<1>1. /\ q.op = "tested" /\ p \in Provider /\ q.passed \in BOOLEAN
      /\ provider[p] \in Providers /\ provider[p].version \in Nat
      /\ Sound(q, provider, human, proven)
  BY DEF RecordIdentityProviderTest, IInv, TypeOK, RequestInv, Sound, AboutProvider,
         Requests, Providers
<1>2. Done(r) /\ UNCHANGED <<human, completion, session, claimed, passwords, secrets, proven>>
  BY DEF RecordIdentityProviderTest, Setup, Local
<1>3. CASE ~Unchanged(r)
  <2>1. provider' = provider
    BY <1>3 DEF RecordIdentityProviderTest
  <2>2. QED
    BY <1>2, <2>1, EndKeeps, NothingChanges DEF IInv, TypeOK, ProviderInv, GoesOn
<1>4. CASE Unchanged(r)
  <2>1. provider' = [provider EXCEPT ![p] = n]
    BY <1>1, <1>4 DEF RecordIdentityProviderTest, IInv, TypeOK, Providers
  <2>2. /\ n.version = provider[p].version + 1
        /\ n.configuration = provider[p].configuration
        /\ n.test = IF q.passed THEN "PASSED" ELSE "FAILED"
    BY <1>1 DEF Providers
  <2>3. n \in Providers
    <3>1. (IF q.passed THEN "PASSED" ELSE "FAILED") \in {"NOT_TESTED", "PASSED", "FAILED"}
      OBVIOUS
    <3>2. provider[p].version + 1 \in Nat
      BY <1>1
    <3>3. QED
      BY <1>1, <3>1, <3>2 DEF Providers
  <2> HIDE DEF n
  <2>4. n.version > provider[p].version
    BY <1>1, <2>2
  <2>5. n.test = "PASSED" => <<p, n.configuration>> \in proven
    BY <1>1, <1>4, <2>2 DEF Sound, Unchanged
  <2>6. ProvidersGoOn /\ ProviderInv' /\ provider' \in [Provider -> Providers]
    BY <1>1, <1>2, <2>1, <2>2, <2>4, <2>5, <2>3, ProviderStep
  <2>7. QED
    BY <1>2, <2>6, EndKeeps DEF IInv, TypeOK
<1>5. QED
  BY <1>3, <1>4

LEMMA UpdateIdentityProviderKeeps ==
    ASSUME IInv, NEW r \in Request, UpdateIdentityProvider(r)
    PROVE  IInv'
<1> DEFINE q == request[r]
           p == q.provider
           n == [Missing EXCEPT !.version = provider[p].version + 1,
                                !.configuration = provider[p].version + 1]
<1>1. /\ q.op = "updating" /\ p \in Provider
      /\ provider[p] \in Providers /\ provider[p].version \in Nat
  BY DEF UpdateIdentityProvider, IInv, TypeOK, RequestInv, Sound, AboutProvider, Providers
<1>2. Done(r) /\ UNCHANGED <<human, completion, session, claimed, passwords, secrets, proven>>
  BY DEF UpdateIdentityProvider, Setup, Local
<1>3. CASE ~Unchanged(r)
  <2>1. provider' = provider
    BY <1>3 DEF UpdateIdentityProvider
  <2>2. QED
    BY <1>2, <2>1, EndKeeps, NothingChanges DEF IInv, TypeOK, ProviderInv, GoesOn
<1>4. CASE Unchanged(r)
  <2>1. provider' = [provider EXCEPT ![p] = n]
    BY <1>4 DEF UpdateIdentityProvider
  <2>2. /\ n.version = provider[p].version + 1 /\ n.test = "NOT_TESTED"
    BY DEF Missing
  <2>3. n \in Providers
    <3>1. provider[p].version + 1 \in Nat
      BY <1>1
    <3>2. QED
      BY <3>1 DEF Providers, Missing
  <2> HIDE DEF n
  <2>4. n.version > provider[p].version
    BY <1>1, <2>2
  <2>5. ProvidersGoOn /\ ProviderInv' /\ provider' \in [Provider -> Providers]
    BY <1>1, <1>2, <2>1, <2>2, <2>4, <2>3, ProviderStep
  <2>6. QED
    BY <1>2, <2>5, EndKeeps DEF IInv, TypeOK
<1>5. QED
  BY <1>3, <1>4

LEMMA SetIdentityProviderEnabledKeeps ==
    ASSUME IInv, NEW r \in Request, SetIdentityProviderEnabled(r)
    PROVE  IInv'
<1> DEFINE q == request[r]
           p == q.provider
           enable == q.op = "enabling"
           n == [provider[p] EXCEPT
                   !.enabled = enable,
                   !.tested = IF provider[p].test = "PASSED" THEN provider[p].version + 1 ELSE @,
                   !.version = @ + 1]
<1>1. /\ p \in Provider
      /\ provider[p] \in Providers /\ provider[p].version \in Nat
  BY DEF SetIdentityProviderEnabled, IInv, TypeOK, RequestInv, Sound, AboutProvider, Providers
<1>2. Done(r) /\ UNCHANGED <<human, completion, session, claimed, passwords, secrets, proven>>
  BY DEF SetIdentityProviderEnabled, Setup, Local
<1>3. CASE provider' = provider
  BY <1>2, <1>3, EndKeeps, NothingChanges DEF IInv, TypeOK, ProviderInv, GoesOn
<1>4. CASE provider' # provider
  <2>1. provider' = [provider EXCEPT ![p] = n]
    BY <1>1, <1>4 DEF SetIdentityProviderEnabled, IInv, TypeOK, Providers
  <2>2. /\ n.version = provider[p].version + 1
        /\ n.test = provider[p].test /\ n.configuration = provider[p].configuration
    BY <1>1 DEF Providers
  <2>3. n \in Providers
    <3>1. /\ (IF provider[p].test = "PASSED" THEN provider[p].version + 1
              ELSE provider[p].tested) \in Nat
          /\ provider[p].version + 1 \in Nat /\ enable \in BOOLEAN
      BY <1>1 DEF Providers
    <3> HIDE DEF enable
    <3>2. QED
      BY <1>1, <3>1 DEF Providers
  <2> HIDE DEF n
  <2>4. n.version > provider[p].version
    BY <1>1, <2>2
  <2>5. n.test = "PASSED" => <<p, n.configuration>> \in proven
    BY <1>1, <2>2 DEF IInv, ProviderInv
  <2>6. ProvidersGoOn /\ ProviderInv' /\ provider' \in [Provider -> Providers]
    BY <1>1, <1>2, <2>1, <2>2, <2>4, <2>5, <2>3, ProviderStep
  <2>7. QED
    BY <1>2, <2>6, EndKeeps DEF IInv, TypeOK
<1>5. QED
  BY <1>3, <1>4

\* A step in which no request takes part.
LEMMA AloneKeeps ==
    ASSUME IInv, Event, GoesOn, proven' = proven,
           human' \in [Human -> Humans], provider' \in [Provider -> Providers],
           ProviderInv', PasswordInv',
           UNCHANGED <<completion, session, request, claimed, passwords, secrets>>
    PROVE  IInv'
<1>1. left' \in 0..MaxEvents
  BY LoginAssumption DEF IInv, TypeOK, Event
<1>2. TypeOK'
  BY <1>1 DEF IInv, TypeOK
<1>3. RequestInv'
  BY <1>2, RequestsStay DEF IInv
<1>4. SecretInv' /\ ChangesUndoNothing'
  BY <1>2, SecretsStay DEF IInv
<1>5. QED
  BY <1>2, <1>3, <1>4 DEF IInv, ClaimInv

LEMMA CreateIdentityProviderKeeps ==
    ASSUME IInv, NEW p \in Provider, CreateIdentityProvider(p)
    PROVE  IInv'
<1> DEFINE n == [Missing EXCEPT !.version = 1, !.configuration = 1]
<1>1. /\ Event /\ provider[p].version = 0
      /\ provider' = [provider EXCEPT ![p] = n]
      /\ UNCHANGED <<human, completion, session, request, proven, claimed, passwords, secrets>>
  BY DEF CreateIdentityProvider
<1>2. n \in Providers /\ n.version = 1 /\ n.test = "NOT_TESTED"
  BY DEF Providers, Missing
<1> HIDE DEF n
<1>3. n.version > provider[p].version
  BY <1>1, <1>2
<1>4. ProvidersGoOn /\ ProviderInv' /\ provider' \in [Provider -> Providers]
  BY <1>1, <1>2, <1>3, ProviderStep
<1>5. GoesOn
  BY <1>1, <1>4 DEF IInv, TypeOK, Humans, GoesOn, PasswordsGoOn
<1>6. QED
  BY <1>1, <1>4, <1>5, AloneKeeps DEF IInv, TypeOK, PasswordInv

-----------------------------------------------------------------------------
(* Owners and setup                                                        *)

LEMMA PeopleKeep ==
    ASSUME IInv, Event, human' \in [Human -> Humans],
           \A h \in Human : human'[h].password = human[h].password,
           UNCHANGED <<provider, completion, session, request, proven, claimed, passwords, secrets>>
    PROVE  IInv'
<1>1. GoesOn
  BY DEF IInv, TypeOK, Providers, Humans, GoesOn, ProvidersGoOn, PasswordsGoOn
<1>2. ProviderInv' /\ PasswordInv'
  BY DEF IInv, ProviderInv, PasswordInv
<1>3. QED
  BY <1>1, <1>2, AloneKeeps DEF IInv, TypeOK

LEMMA ChangeOwnerKeeps ==
    ASSUME IInv, NEW h \in Human, ChangeOwner(h)
    PROVE  IInv'
<1>1. PICK enabled \in BOOLEAN, owner \in {"no", "direct", "team"} :
        human' = [human EXCEPT ![h].enabled = enabled, ![h].owner = owner]
  BY DEF ChangeOwner
<1>2. human' \in [Human -> Humans] /\ \A x \in Human : human'[x].password = human[x].password
  BY <1>1 DEF IInv, TypeOK, Humans
<1>3. QED
  BY <1>2, PeopleKeep DEF ChangeOwner

LEMMA ProvisionKeeps ==
    ASSUME IInv, NEW h \in Human, NEW p \in Provider, Provision(h, p)
    PROVE  IInv'
<1>1. human' = [human EXCEPT ![h].known = TRUE, ![h].enabled = TRUE, ![h].identity = {p}]
  BY DEF Provision
<1>2. human' \in [Human -> Humans] /\ \A x \in Human : human'[x].password = human[x].password
  BY ZenonT(60), <1>1 DEF IInv, TypeOK, Humans
<1>3. QED
  BY <1>2, PeopleKeep DEF Provision

LEMMA BeginClaimKeeps ==
    ASSUME IInv, NEW r \in Request, NEW f \in Fingerprint, BeginClaim(r, f)
    PROVE  IInv'
<1> DEFINE q == [Idle EXCEPT !.op = "claiming", !.fingerprint = f]
<1>1. /\ Begin(r, q)
      /\ UNCHANGED <<human, provider, completion, session, proven, claimed, passwords, secrets>>
  BY DEF BeginClaim, Setup, Local
<1>2. q \in Requests /\ q.op = "claiming" /\ q.fingerprint = f
  BY DEF Idle, Requests, Operations
<1> HIDE DEF q
<1>3. Sound(q, provider, human, proven)
  BY <1>2 DEF Sound, AboutProvider, AboutHuman
<1>4. QED
  BY <1>1, <1>2, <1>3, BeginKeeps

\* A password that is set after all others, and for a change after one that is
\* still the present password: nothing was set in between.
LEMMA SetKeeps ==
    ASSUME IInv, TypeOK', GoesOn, NEW h \in Human, NEW verified \in Nat, Set(h, verified),
           verified = human[h].password \/ verified = passwords + 1,
           human'[h].password = passwords + 1
    PROVE  SecretInv' /\ ChangesUndoNothing'
<1> DEFINE n == [human |-> h, password |-> passwords + 1, verified |-> verified]
<1>1. /\ secrets' = secrets \cup {n} /\ passwords \in Nat
      /\ human[h].password \in Nat /\ human[h].password <= passwords
  BY DEF Set, IInv, TypeOK, Humans, PasswordInv
<1>2. n.human = h /\ n.password = passwords + 1 /\ n.verified = verified
  OBVIOUS
<1> HIDE DEF n
<1>3. ASSUME NEW c \in secrets
      PROVE  /\ c.human \in Human /\ c.password \in Nat /\ c.verified \in Nat
             /\ human[c.human].password \in Nat /\ human'[c.human].password \in Nat
             /\ c.password <= human[c.human].password
             /\ human[c.human].password <= human'[c.human].password
             /\ human[c.human].password <= passwords
  BY DEF IInv, TypeOK, Secrets, Humans, SecretInv, PasswordInv, GoesOn, PasswordsGoOn
<1>4. SecretInv'
  <2>1. \A c \in secrets : c.password <= human'[c.human].password
    BY <1>3
  <2>2. n.password <= human'[n.human].password
    BY <1>1, <1>2
  <2>3. QED
    BY <1>1, <2>1, <2>2 DEF SecretInv
<1>5. ASSUME NEW c \in secrets, c.human = h
      PROVE  /\ ~(n.verified < c.password /\ c.password < n.password)
             /\ ~(c.verified < n.password /\ n.password < c.password)
  <2>1. c.password \in Nat /\ c.verified \in Nat /\ c.password <= human[h].password
    BY <1>3, <1>5
  <2>2. c.password <= passwords
    BY <1>1, <2>1
  <2>3. ~(verified < c.password)
    BY <1>1, <2>1, <2>2
  <2>4. ~(passwords + 1 < c.password)
    BY <1>1, <2>1, <2>2
  <2>5. QED
    BY <1>2, <2>3, <2>4
<1>6. ~(n.verified < n.password /\ n.password < n.password)
  BY <1>1, <1>2
<1>7. ChangesUndoNothing'
  BY <1>1, <1>2, <1>5, <1>6 DEF IInv, ChangesUndoNothing
<1>8. QED
  BY <1>4, <1>7

LEMMA ClaimSetupKeeps ==
    ASSUME IInv, NEW r \in Request, ClaimSetup(r)
    PROVE  IInv'
<1> DEFINE q == request[r]
<1>1. /\ q.op = "claiming" /\ q.fingerprint \in Fingerprint
      /\ Done(r) /\ UNCHANGED <<provider, session, proven>>
  BY DEF ClaimSetup, IInv, RequestInv, Sound
<1>2. CASE HasVerifiedInstallationOwner
  <2>1. UNCHANGED <<human, completion, passwords, secrets>>
    BY <1>2 DEF ClaimSetup
  <2>2. claimed' = claimed
    <3>1. CASE Replays(r) = {}
      BY <1>2, <3>1 DEF ClaimSetup
    <3>2. CASE UNCHANGED claimed
      BY <3>2
    <3>3. CASE \E c \in Replays(r) : Answer([fingerprint |-> q.fingerprint, owner |-> c.owner])
      <4>1. PICK c \in completion :
              /\ c.fingerprint = q.fingerprint
              /\ claimed' = claimed \cup {[fingerprint |-> q.fingerprint, owner |-> c.owner]}
        BY <3>3 DEF Replays, Answer
      <4>2. c = [fingerprint |-> q.fingerprint, owner |-> c.owner]
        BY <4>1 DEF IInv, TypeOK, Claims
      <4>3. QED
        BY <4>1, <4>2 DEF IInv, ClaimInv
    <3>4. QED
      BY <1>2, <3>1, <3>2, <3>3 DEF ClaimSetup
  <2>3. ProvidersGoOn /\ ProviderInv'
    BY <1>1, <2>1, NothingChanges DEF IInv, ProviderInv, GoesOn
  <2>4. QED
    BY <1>1, <2>1, <2>2, <2>3, EndKeeps DEF IInv, TypeOK
<1>3. CASE ~HasVerifiedInstallationOwner /\ completion # {}
  <2>1. UNCHANGED <<human, completion, claimed, passwords, secrets>>
    BY <1>3 DEF ClaimSetup, Setup
  <2>2. ProvidersGoOn /\ ProviderInv'
    BY <1>1, <2>1, NothingChanges DEF IInv, ProviderInv, GoesOn
  <2>3. QED
    BY <1>1, <2>1, <2>2, EndKeeps DEF IInv, TypeOK
<1>4. CASE ~HasVerifiedInstallationOwner /\ completion = {}
  <2>1. PICK h \in Human :
          /\ human' = [human EXCEPT
               ![h] = [known |-> TRUE, enabled |-> TRUE, owner |-> "direct",
                       password |-> passwords + 1, identity |-> {}]]
          /\ Set(h, passwords + 1)
          /\ completion' = {[fingerprint |-> q.fingerprint, owner |-> h]}
          /\ claimed' = claimed \cup {[fingerprint |-> q.fingerprint, owner |-> h]}
    BY <1>4 DEF ClaimSetup, Answer
  <2>2. human'[h].password = passwords + 1 /\ \A x \in Human : x # h => human'[x] = human[x]
    BY <2>1 DEF IInv, TypeOK
  <2>3. human' \in [Human -> Humans] /\ passwords' \in Nat /\ completion' \subseteq Claims
        /\ claimed' \subseteq Claims /\ secrets' \subseteq Secrets
    BY <1>1, <2>1 DEF IInv, TypeOK, Humans, Claims, Set, Secrets
  <2>4. TypeOK'
    BY <1>1, <2>3, IdleIs DEF IInv, TypeOK, Done
  <2>5. PasswordInv' /\ PasswordsGoOn
    BY <2>1, <2>2 DEF IInv, TypeOK, Humans, PasswordInv, PasswordsGoOn, Set
  <2>6. GoesOn
    BY <1>1, <2>5 DEF IInv, TypeOK, Providers, GoesOn, ProvidersGoOn
  <2>7. RequestInv'
    BY <1>1, <2>4, <2>6, RequestEnds DEF IInv
  <2>8. ClaimInv'
    BY <1>4, <2>1 DEF IInv, ClaimInv
  <2>9. SecretInv' /\ ChangesUndoNothing'
    BY <2>1, <2>2, <2>4, <2>6, SetKeeps DEF IInv, TypeOK
  <2>10. ProviderInv'
    BY <1>1 DEF IInv, ProviderInv
  <2>11. QED
    BY <2>4, <2>5, <2>7, <2>8, <2>9, <2>10 DEF IInv
<1>5. QED
  BY <1>2, <1>3, <1>4

-----------------------------------------------------------------------------
(* Local passwords                                                         *)

LEMMA AboutIs ==
    ASSUME TypeOK, NEW h \in Human, NEW op \in AboutHuman \ {"changed"}
    PROVE  /\ About(op, h) \in Requests /\ About(op, h).op = op
           /\ Sound(About(op, h), provider, human, proven)
<1> DEFINE q == About(op, h)
<1>1. /\ human[h].password \in Nat
      /\ op \in Operations /\ op \notin {"tested", "changed", "claiming"}
      /\ op \notin AboutProvider
  BY DEF TypeOK, Humans, AboutProvider, AboutHuman, Operations
<1>2. q.op = op /\ q.human = h /\ q.password = human[h].password
  BY DEF About, Idle
<1>3. q \in Requests
  BY <1>1 DEF Requests, About, Idle
<1>4. Sound(q, provider, human, proven)
  BY <1>1, <1>2 DEF Sound
<1>5. QED
  BY <1>2, <1>3, <1>4

LEMMA BeginAccountsKeeps ==
    ASSUME IInv, NEW r \in Request, NEW h \in Human,
           BeginLogin(r, h) \/ BeginChange(r, h) \/ BeginReset(r, h)
    PROVE  IInv'
<1>1. PICK op \in AboutHuman \ {"changed"} :
        /\ Begin(r, About(op, h))
        /\ UNCHANGED <<human, provider, completion, session, proven, claimed, passwords, secrets>>
  BY DEF BeginLogin, BeginChange, BeginReset, AboutHuman, Setup, Local
<1>2. About(op, h) \in Requests
      /\ Sound(About(op, h), provider, human, proven)
  BY AboutIs DEF IInv, AboutHuman
<1>3. QED
  BY <1>1, <1>2, BeginKeeps

\* A new password is one that nobody has or ever had.
LEMMA NewPasswordIs ==
    ASSUME IInv, NEW h \in Human, NEW verified \in Nat, NewPassword(h, verified),
           UNCHANGED <<provider, proven>>
    PROVE  /\ human' \in [Human -> Humans] /\ passwords' \in Nat
           /\ session' \subseteq [human : Human, password : Nat]
           /\ secrets' \subseteq Secrets /\ human'[h].password = passwords + 1
           /\ PasswordInv' /\ GoesOn
<1>1. /\ human' = [human EXCEPT ![h].password = passwords + 1]
      /\ passwords' = passwords + 1 /\ session' \subseteq session
      /\ secrets' = secrets \cup
           {[human |-> h, password |-> passwords + 1, verified |-> verified]}
  BY DEF NewPassword, Set
<1>2. human'[h].password = passwords + 1 /\ \A x \in Human : x # h => human'[x] = human[x]
  BY <1>1 DEF IInv, TypeOK, Humans
<1>3. human' \in [Human -> Humans] /\ passwords' \in Nat /\ secrets' \subseteq Secrets
  BY <1>1 DEF IInv, TypeOK, Humans, Secrets
<1>4. PasswordInv' /\ PasswordsGoOn
  BY <1>1, <1>2 DEF IInv, TypeOK, Humans, PasswordInv, PasswordsGoOn
<1>5. GoesOn
  BY <1>4 DEF IInv, TypeOK, Providers, GoesOn, ProvidersGoOn
<1>6. QED
  BY <1>1, <1>2, <1>3, <1>4, <1>5 DEF IInv, TypeOK

LEMMA ChangeLocalPasswordKeeps ==
    ASSUME IInv, NEW r \in Request, ChangeLocalPassword(r)
    PROVE  IInv'
<1> DEFINE q == request[r]
           h == q.human
<1>1. /\ q.op = "changing" /\ q \in Requests /\ h \in Human
      /\ q.password <= human[h].password
      /\ UNCHANGED <<provider, completion, claimed, proven, left>>
  BY DEF ChangeLocalPassword, Setup, IInv, TypeOK, RequestInv, Sound, AboutHuman
<1>2. CASE human[h].password # q.password
  <2>1. Done(r) /\ UNCHANGED <<human, session, passwords, secrets>>
    BY <1>1, <1>2 DEF ChangeLocalPassword, Local, Done
  <2>2. ProvidersGoOn /\ ProviderInv'
    BY <1>1, <2>1, NothingChanges DEF IInv, ProviderInv, GoesOn
  <2>3. QED
    BY <1>1, <2>1, <2>2, EndKeeps DEF IInv, TypeOK
<1>3. CASE human[h].password = q.password
  <2> DEFINE n == [q EXCEPT !.op = "changed"]
  <2>1. NewPassword(h, q.password) /\ request' = [request EXCEPT ![r] = n]
    BY <1>1, <1>3 DEF ChangeLocalPassword, IInv, TypeOK, Requests
  <2>2. /\ n \in Requests /\ n.op = "changed" /\ n.human = h /\ n.password = q.password
    BY <1>1 DEF Requests, Operations
  <2> HIDE DEF n
  <2>3. q.password \in Nat
    BY <1>1 DEF Requests
  <2>4. /\ human' \in [Human -> Humans] /\ passwords' \in Nat /\ secrets' \subseteq Secrets
        /\ session' \subseteq [human : Human, password : Nat]
        /\ human'[h].password = passwords + 1
        /\ PasswordInv' /\ GoesOn
    BY <1>1, <2>1, <2>3, NewPasswordIs
  <2>5. TypeOK'
    BY <1>1, <2>1, <2>2, <2>4 DEF IInv, TypeOK
  <2>6. n.password <= human'[h].password
    <3>1. human[h].password <= human'[h].password
      BY <1>1, <2>4 DEF GoesOn, PasswordsGoOn
    <3>2. QED
      BY <1>3, <2>2, <3>1
  <2>7. Sound(n, provider', human', proven')
    BY <1>1, <2>2, <2>6 DEF Sound, AboutProvider, AboutHuman
  <2>8. RequestInv'
    BY <2>1, <2>4, <2>5, <2>7, RequestStep DEF IInv
  <2>9. SecretInv' /\ ChangesUndoNothing'
    BY <1>1, <1>3, <2>1, <2>3, <2>4, <2>5, SetKeeps DEF NewPassword
  <2>10. ProviderInv' /\ ClaimInv'
    BY <1>1 DEF IInv, ProviderInv, ClaimInv
  <2>11. QED
    BY <2>4, <2>5, <2>8, <2>9, <2>10 DEF IInv
<1>4. QED
  BY <1>2, <1>3

LEMMA ResetLocalPasswordKeeps ==
    ASSUME IInv, NEW r \in Request, ResetLocalPassword(r)
    PROVE  IInv'
<1> DEFINE h == request[r].human
<1>1. /\ h \in Human /\ Done(r)
      /\ UNCHANGED <<provider, completion, claimed, proven>>
  BY DEF ResetLocalPassword, Setup, IInv, RequestInv, Sound, AboutHuman
<1>2. CASE ~human[h].enabled
  <2>1. UNCHANGED <<human, session, passwords, secrets>>
    BY <1>2 DEF ResetLocalPassword, Local
  <2>2. ProvidersGoOn /\ ProviderInv'
    BY <1>1, <2>1, NothingChanges DEF IInv, ProviderInv, GoesOn
  <2>3. QED
    BY <1>1, <2>1, <2>2, EndKeeps DEF IInv, TypeOK
<1>3. CASE human[h].enabled
  <2>1. NewPassword(h, passwords + 1) /\ passwords + 1 \in Nat
    BY <1>3 DEF ResetLocalPassword, IInv, TypeOK
  <2>2. /\ human' \in [Human -> Humans] /\ passwords' \in Nat /\ secrets' \subseteq Secrets
        /\ session' \subseteq [human : Human, password : Nat]
        /\ human'[h].password = passwords + 1
        /\ PasswordInv' /\ GoesOn
    BY <1>1, <2>1, NewPasswordIs
  <2>3. TypeOK'
    BY <1>1, <2>2, IdleIs DEF IInv, TypeOK, Done
  <2>4. RequestInv'
    BY <1>1, <2>2, <2>3, RequestEnds DEF IInv
  <2>5. SecretInv' /\ ChangesUndoNothing'
    BY <1>1, <2>1, <2>2, <2>3, SetKeeps DEF NewPassword
  <2>6. QED
    BY <1>1, <2>2, <2>3, <2>4, <2>5 DEF IInv, ProviderInv, ClaimInv
<1>4. QED
  BY <1>2, <1>3

LEMMA CreateBrowserSessionKeeps ==
    ASSUME IInv, NEW r \in Request, CreateBrowserSession(r)
    PROVE  IInv'
<1>1. /\ Done(r) /\ UNCHANGED <<human, provider, completion, claimed, passwords, secrets, proven>>
      /\ request[r].human \in Human /\ request[r].password \in Nat
  BY DEF CreateBrowserSession, Setup, IInv, TypeOK, RequestInv, Sound, AboutHuman, Requests
<1>2. session' \subseteq [human : Human, password : Nat]
  BY <1>1 DEF CreateBrowserSession, IInv, TypeOK
<1>3. ProvidersGoOn /\ ProviderInv'
  BY <1>1, NothingChanges DEF IInv, ProviderInv, GoesOn
<1>4. QED
  BY <1>1, <1>2, <1>3, EndKeeps DEF IInv, TypeOK

LEMMA AbandonedKeeps ==
    ASSUME IInv, NEW r \in Request, Abandoned(r)
    PROVE  IInv'
<1>1. /\ Done(r)
      /\ UNCHANGED <<human, provider, completion, session, claimed, passwords, secrets, proven>>
  BY DEF Abandoned, Setup, Local
<1>2. ProvidersGoOn /\ ProviderInv'
  BY <1>1, NothingChanges DEF IInv, ProviderInv, GoesOn
<1>3. QED
  BY <1>1, <1>2, EndKeeps DEF IInv, TypeOK

-----------------------------------------------------------------------------
(* The invariant                                                           *)

LEMMA FreshHolds == Fresh => /\ human \in [Human -> Humans] /\ provider \in [Provider -> Providers]
                             /\ completion \subseteq Claims /\ claimed \subseteq Claims
                             /\ proven \subseteq Provider \X Nat /\ passwords \in Nat
                             /\ secrets \subseteq Secrets /\ SecretInv /\ ChangesUndoNothing
                             /\ ProviderInv /\ PasswordInv /\ ClaimInv
  BY DEF Fresh, Humans, Nobody, Providers, Missing, ProviderInv, PasswordInv, ClaimInv,
         SecretInv, ChangesUndoNothing

LEMMA EstablishedHolds ==
    Established => /\ human \in [Human -> Humans] /\ provider \in [Provider -> Providers]
                   /\ completion \subseteq Claims /\ claimed \subseteq Claims
                   /\ proven \subseteq Provider \X Nat /\ passwords \in Nat
                   /\ secrets \subseteq Secrets /\ SecretInv /\ ChangesUndoNothing
                   /\ ProviderInv /\ PasswordInv /\ ClaimInv
<1> SUFFICES ASSUME Established
             PROVE  /\ human \in [Human -> Humans] /\ provider \in [Provider -> Providers]
                    /\ completion \subseteq Claims /\ claimed \subseteq Claims
                    /\ proven \subseteq Provider \X Nat /\ passwords \in Nat
                    /\ secrets \subseteq Secrets /\ SecretInv /\ ChangesUndoNothing
                    /\ ProviderInv /\ PasswordInv /\ ClaimInv
  OBVIOUS
<1>1. PICK founder \in Human, stranger \in Human, still \in BOOLEAN, of \in [Human -> Provider],
           f \in Fingerprint :
        /\ human = [h \in Human |->
                      IF h = founder
                      THEN [known |-> TRUE, enabled |-> still, owner |-> "direct",
                            password |-> 1, identity |-> {}]
                      ELSE IF h = stranger THEN Nobody
                      ELSE [known |-> TRUE, enabled |-> TRUE, owner |-> "direct",
                            password |-> 0, identity |-> {of[h]}]]
        /\ provider = [p \in Provider |->
                         [version |-> 3, enabled |-> TRUE, test |-> "PASSED", tested |-> 3,
                          configuration |-> 1]]
        /\ completion = {[fingerprint |-> f, owner |-> founder]}
        /\ claimed = {[fingerprint |-> f, owner |-> founder]}
        /\ proven = Provider \X {1}
        /\ passwords = 1
        /\ secrets = {[human |-> founder, password |-> 1, verified |-> 1]}
  BY DEF Established
<1>2. /\ human \in [Human -> Humans]
      /\ \A h \in Human : human[h].password \in {0, 1}
  <2>1. \A h \in Human : human[h] \in Humans /\ human[h].password \in {0, 1}
    BY <1>1 DEF Humans, Nobody
  <2>2. QED
    BY <1>1, <2>1
<1>3. /\ provider \in [Provider -> Providers]
      /\ \A p \in Provider : provider[p].configuration = 1
  BY <1>1 DEF Providers
<1>4. completion \subseteq Claims /\ claimed \subseteq Claims /\ ClaimInv
  BY <1>1 DEF Claims, ClaimInv
<1>5. ProviderInv /\ proven \subseteq Provider \X Nat
  BY <1>1, <1>3 DEF ProviderInv
<1>6. PasswordInv
  BY <1>1, <1>2 DEF PasswordInv
<1>7. secrets \subseteq Secrets /\ SecretInv /\ ChangesUndoNothing
  <2>1. human[founder].password = 1
    BY <1>1
  <2>2. QED
    BY <1>1, <2>1 DEF Secrets, SecretInv, ChangesUndoNothing
<1>8. QED
  BY <1>1, <1>2, <1>3, <1>4, <1>5, <1>6, <1>7

LEMMA InitHolds == Init => IInv
<1> SUFFICES ASSUME Init PROVE IInv
  OBVIOUS
<1>1. /\ human \in [Human -> Humans] /\ provider \in [Provider -> Providers]
      /\ completion \subseteq Claims /\ claimed \subseteq Claims
      /\ proven \subseteq Provider \X Nat /\ passwords \in Nat
      /\ secrets \subseteq Secrets /\ SecretInv /\ ChangesUndoNothing
      /\ ProviderInv /\ PasswordInv /\ ClaimInv
  BY FreshHolds, EstablishedHolds DEF Init
<1>2. /\ session = {} /\ request \in [Request -> Requests] /\ left \in 0..MaxEvents
      /\ \A r \in Request : request[r] = Idle
  BY IdleIs, LoginAssumption DEF Init
<1>3. TypeOK
  BY <1>1, <1>2 DEF TypeOK
<1>4. RequestInv
  BY <1>2, IdleIs DEF RequestInv
<1>5. QED
  BY <1>1, <1>3, <1>4 DEF IInv

LEMMA StutterKeeps == IInv /\ UNCHANGED vars => IInv'
  BY DEF vars, IInv, TypeOK, RequestInv, ProviderInv, PasswordInv, ClaimInv,
         SecretInv, ChangesUndoNothing

LEMMA NextKeeps == IInv /\ [Next]_vars => IInv'
<1> SUFFICES ASSUME IInv, [Next]_vars PROVE IInv'
  OBVIOUS
<1>1. ASSUME NEW r \in Request, Settings(r) PROVE IInv'
  BY <1>1, BeginSettingsKeeps, PreflightKeeps, RecordIdentityProviderTestKeeps,
     UpdateIdentityProviderKeeps, SetIdentityProviderEnabledKeeps DEF Settings
<1>2. ASSUME NEW r \in Request, Accounts(r) PROVE IInv'
  BY <1>2, BeginClaimKeeps, ClaimSetupKeeps, BeginAccountsKeeps, ChangeLocalPasswordKeeps,
     ResetLocalPasswordKeeps, CreateBrowserSessionKeeps DEF Accounts
<1>3. QED
  BY <1>1, <1>2, AbandonedKeeps, ChangeOwnerKeeps, ProvisionKeeps,
     CreateIdentityProviderKeeps, StutterKeeps DEF Next

LEMMA IInvHolds == Spec => []IInv
  BY InitHolds, NextKeeps, PTL DEF Spec

-----------------------------------------------------------------------------
(* The theorems                                                            *)

\* Tables, requests and histories keep their types.
THEOREM TypesCorrect == Spec => []TypeOK
<1>1. IInv => TypeOK
  BY DEF IInv
<1>2. QED
  BY <1>1, IInvHolds, PTL

\* RecordIdentityProviderTest and UpdateIdentityProvider compare the version
\* that was read: a provider that EnabledLoginMethods lists has a configuration
\* whose discovery succeeded, whatever tests, updates and switches overlap.
THEOREM OfferedHasBeenProven == Spec => []OfferedIsProven
<1>1. IInv => OfferedIsProven
  BY DEF IInv, ProviderInv, OfferedIsProven, Offered, CanEnable
<1>2. QED
  BY <1>1, IInvHolds, PTL

\* ClaimSetup locks the installation and looks again: all claims that are ever
\* answered with success name one input and one owner.
THEOREM OneClaimWins == Spec => []SetupHasOneWinner
<1>1. IInv => SetupHasOneWinner
  BY DEF IInv, ClaimInv, SetupHasOneWinner
<1>2. QED
  BY <1>1, IInvHolds, PTL

\* ChangeLocalPassword compares the hash that was verified: no other password
\* of the account was set between its verification and the change, by another
\* change or by a reset.
THEOREM ChangesDoNotOverwrite == Spec => []ChangesUndoNothing
<1>1. IInv => ChangesUndoNothing
  BY DEF IInv
<1>2. QED
  BY <1>1, IInvHolds, PTL
=============================================================================

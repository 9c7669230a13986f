---------------------------- MODULE BrowserSessions ----------------------------
(***************************************************************************)
(* The browser sessions of one principal: login attempts that may be used  *)
(* once, sessions that expire, are touched, refreshed and revoked by       *)
(* requests that run side by side, on any replica.  A request reads the    *)
(* row of its session first and works with what it read; each later        *)
(* statement says in its WHERE clause what it relies on.  Statements compare *)
(* the texts of times (TextTime), requests compare the times they parsed.   *)
(*                                                                         *)
(* Whether the principal may still use a session (its generation) is the   *)
(* subject of AccessControl.  External: the identity provider, which may   *)
(* or may not replace a refresh token when it is used, and which refuses   *)
(* one that it has replaced or withdrawn.                                  *)
(***************************************************************************)
EXTENDS TextTime

CONSTANTS
  Session,           \* credentials of sessions
  Request,           \* requests that may be in progress together
  Absent,            \* no row, nothing read
  IdleLifetime, AbsoluteLifetime, LastUsedInterval,  \* durations
  MaxClock,          \* bound on the clock
  MaxToken           \* bound on the refreshes and the refresh tokens of a session

Attempts == [expires : Nat, consumed : BOOLEAN, pruned : BOOLEAN, sessions : SUBSET Session]

Opened == [token : 0..MaxToken, written : 0..MaxToken, idle : Nat, absolute : Nat,
           used : Nat, revoked : BOOLEAN]

ASSUME SessionAssumption ==
  /\ {IdleLifetime, AbsoluteLifetime, LastUsedInterval, MaxToken} \subseteq Nat \ {0}
  /\ IdleLifetime = AbsoluteLifetime \/ IdleLifetime + Second <= AbsoluteLifetime
  /\ MaxClock \in Nat
  /\ Absent \notin Attempts \cup Opened

VARIABLES
  clock,
  attempt,   \* the row of oauth_login_attempts or Absent
  sessions,  \* [Session -> the row of browser_sessions or Absent]
  granted,   \* external: [Session -> the refresh token the provider takes, 0: none]
  request    \* [Request -> what it is about to do, with what it has read]

sessionVars == <<clock, attempt, sessions, granted, request>>

Idle == [at |-> "idle", session |-> Absent, for |-> "none", read |-> Absent,
         time |-> 0, token |-> 0]

Earlier(a, b) == IF a < b THEN a ELSE b

(* token 0 is a session without a refresh token: a local one, or one whose  *)
(* provider gave none.  written counts the writes of the ciphertext: the    *)
(* statements compare it, and it is never the same twice.                   *)
NewRow(token) ==
  [token |-> token, written |-> 0, used |-> clock, revoked |-> FALSE,
   idle |-> clock + IdleLifetime, absolute |-> clock + AbsoluteLifetime]

(* A login that knows an earlier session of the browser revokes it in the  *)
(* transaction that inserts the new one.                                   *)
Inserted(s, token, rotated) ==
  [x \in Session |->
     IF x = s THEN NewRow(token)
     ELSE IF x \in rotated /\ sessions[x] # Absent
          THEN [sessions[x] EXCEPT !.revoked = TRUE]
          ELSE sessions[x]]

Rotatable(s) == {{}} \cup {{x} : x \in Session \ {s}}

--------------------------------------------------------------------------------
(* Logging in *)

(* sessions is history: what was made with the attempt.  Creating another   *)
(* attempt, whose own life is not followed, prunes this one if it expired.  *)
CreateOAuthLoginAttempt ==
  /\ \/ /\ attempt = Absent
        /\ attempt' = [expires |-> clock + 1, consumed |-> FALSE, pruned |-> FALSE,
                       sessions |-> {}]
     \/ /\ attempt # Absent /\ ~attempt.pruned /\ ~TextAfter(attempt.expires, clock)
        /\ attempt' = [attempt EXCEPT !.pruned = TRUE]
  /\ UNCHANGED <<clock, sessions, granted, request>>

ReadAttempt(r) ==
  /\ request[r].at = "idle"
  /\ attempt # Absent
  /\ ~attempt.consumed /\ ~attempt.pruned
  /\ clock < attempt.expires
  /\ request' = [request EXCEPT ![r] = [Idle EXCEPT !.at = "consuming"]]
  /\ UNCHANGED <<clock, attempt, sessions, granted>>

\* Mutant: the update trusts what was read before it.
ConsumeReadAttempt(r) ==
  /\ request[r].at = "consuming"
  /\ attempt' = [attempt EXCEPT !.consumed = TRUE]
  /\ request' = [request EXCEPT ![r].at = "logging in"]
  /\ UNCHANGED <<clock, sessions, granted>>

ConsumeOAuthLoginAttempt(r) ==
  /\ request[r].at = "consuming"
  /\ IF attempt.consumed \/ attempt.pruned
     THEN /\ request' = [request EXCEPT ![r] = Idle]
          /\ UNCHANGED attempt
     ELSE /\ request' = [request EXCEPT ![r].at = "logging in"]
          /\ attempt' = [attempt EXCEPT !.consumed = TRUE]
  /\ UNCHANGED <<clock, sessions, granted>>

CreateOIDCSession(r) ==
  \E s \in Session, token \in {0, 1}, rotated \in SUBSET Session :
    /\ request[r].at = "logging in"
    /\ sessions[s] = Absent
    /\ rotated \in Rotatable(s)
    /\ sessions' = Inserted(s, token, rotated)
    /\ granted' = [granted EXCEPT ![s] = token]
    /\ attempt' = [attempt EXCEPT !.sessions = @ \cup {s}]
    /\ request' = [request EXCEPT ![r] = Idle]
    /\ UNCHANGED clock

CreateLocalSession ==
  \E s \in Session, rotated \in SUBSET Session :
    /\ sessions[s] = Absent
    /\ rotated \in Rotatable(s)
    /\ sessions' = Inserted(s, 0, rotated)
    /\ UNCHANGED <<clock, attempt, granted, request>>

--------------------------------------------------------------------------------
(* A request with a session *)

Usable(row) == row # Absent /\ ~row.revoked /\ clock < row.idle /\ clock < row.absolute

(* What follows when the session is accepted. *)
Accepted(r) ==
  IF request[r].for = "use" THEN Idle
  ELSE [request[r] EXCEPT !.at = request[r].for, !.time = 0]

(* Current: the row is read and validated; it is touched when it was last  *)
(* used long enough ago.  Only a refresh works with more of what was read. *)
Current(r, s, purpose) ==
  /\ request[r].at = "idle"
  /\ Usable(sessions[s])
  /\ LET row == sessions[s]
         read == [Idle EXCEPT !.session = s, !.for = purpose,
                    !.read = IF purpose = "refresh"
                             THEN [token |-> row.token, written |-> row.written] ELSE Absent]
     IN  IF clock - row.used >= LastUsedInterval
         THEN request' = [request EXCEPT ![r] = [read EXCEPT !.at = "touch", !.time = clock]]
         ELSE /\ purpose # "use"
              /\ request' = [request EXCEPT ![r] = [read EXCEPT !.at = purpose]]
  /\ UNCHANGED <<clock, attempt, sessions, granted>>

Touched(row, time) ==
  [row EXCEPT !.used = time, !.idle = Earlier(time + IdleLifetime, row.absolute)]

(* The CHECK of the table, which compares texts too: an update that breaks  *)
(* it fails, and the request with it.                                       *)
Storable(row) == ~TextAfter(row.idle, row.absolute)

\* Mutant: the last use is not looked at again.
TouchableOutOfOrder(row, time) ==
  /\ ~row.revoked /\ TextAfter(row.absolute, time)
  /\ Storable(Touched(row, time))

Touchable(row, time) ==
  /\ ~row.revoked /\ TextAfter(time, row.used) /\ TextAfter(row.absolute, time)
  /\ Storable(Touched(row, time))

(* The request is refused when the row has moved on.                       *)
TouchBrowserSession(r) ==
  LET s == request[r].session
      time == request[r].time
  IN
    /\ request[r].at = "touch"
    /\ IF Touchable(sessions[s], time)
       THEN /\ sessions' = [sessions EXCEPT ![s] = Touched(@, time)]
            /\ request' = [request EXCEPT ![r] = Accepted(r)]
       ELSE /\ request' = [request EXCEPT ![r] = Idle]
            /\ UNCHANGED sessions
    /\ UNCHANGED <<clock, attempt, granted>>

RevokeBrowserSession(r) ==
  LET s == request[r].session IN
    /\ request[r].at = "logout"
    /\ sessions' = [sessions EXCEPT ![s].revoked = TRUE]
    /\ request' = [request EXCEPT ![r] = Idle]
    /\ UNCHANGED <<clock, attempt, granted>>

(* A changed or reset password revokes all sessions of the principal.      *)
RevokeSessions ==
  /\ \E s \in Session : sessions[s] # Absent /\ ~sessions[s].revoked
  /\ sessions' = [s \in Session |->
       IF sessions[s] = Absent THEN Absent ELSE [sessions[s] EXCEPT !.revoked = TRUE]]
  /\ UNCHANGED <<clock, attempt, granted, request>>

--------------------------------------------------------------------------------
(* Refreshing the tokens of a session *)

(* The provider takes its current token, and returns it or its successor.  *)
ProviderRefreshes(r) ==
  LET s == request[r].session
      token == request[r].read.token
  IN
    /\ request[r].at = "refresh"
    /\ token # 0
    /\ token = granted[s]
    /\ request[r].read.written < MaxToken
    /\ \E next \in {token, token + 1} \cap 0..MaxToken :
         /\ granted' = [granted EXCEPT ![s] = next]
         /\ request' = [request EXCEPT ![r].at = "refreshed", ![r].token = next]
    /\ UNCHANGED <<clock, attempt, sessions>>

ProviderRejects(r) ==
  /\ request[r].at = "refresh"
  /\ request[r].read.token \notin {0, granted[request[r].session]}
  /\ request' = [request EXCEPT ![r].at = "rejected"]
  /\ UNCHANGED <<clock, attempt, sessions, granted>>

(* A local session, an access token that is still good, a provider that    *)
(* does not answer, or an answer that is lost or refused.                  *)
RefreshEnds(r) ==
  /\ request[r].at \in {"refresh", "refreshed"}
  /\ request' = [request EXCEPT ![r] = Idle]
  /\ UNCHANGED <<clock, attempt, sessions, granted>>

Unchanged(row, read) == ~row.revoked /\ row.written = read.written

(* When it finds the row changed, Refresh answers with Current as it is now: *)
(* what an idle request does in Current with the purpose "use".              *)
UpdateBrowserSessionTokens(r) ==
  LET s == request[r].session IN
    /\ request[r].at = "refreshed"
    /\ IF Unchanged(sessions[s], request[r].read)
       THEN sessions' = [sessions EXCEPT ![s].token = request[r].token, ![s].written = @ + 1]
       ELSE UNCHANGED sessions
    /\ request' = [request EXCEPT ![r] = Idle]
    /\ UNCHANGED <<clock, attempt, granted>>

\* Mutant: a rejection revokes the session, whatever token it has by now.
RevokeWhateverToken(r) ==
  /\ request[r].at = "rejected"
  /\ sessions' = [sessions EXCEPT ![request[r].session].revoked = TRUE]
  /\ request' = [request EXCEPT ![r] = Idle]
  /\ UNCHANGED <<clock, attempt, granted>>

RevokeBrowserSessionIfRefreshToken(r) ==
  LET s == request[r].session IN
    /\ request[r].at = "rejected"
    /\ IF Unchanged(sessions[s], request[r].read)
       THEN sessions' = [sessions EXCEPT ![s].revoked = TRUE]
       ELSE UNCHANGED sessions
    /\ request' = [request EXCEPT ![r] = Idle]
    /\ UNCHANGED <<clock, attempt, granted>>

--------------------------------------------------------------------------------
(* External: a grant is withdrawn; time passes. *)
ProviderWithdraws(s) ==
  /\ granted[s] # 0
  /\ granted' = [granted EXCEPT ![s] = 0]
  /\ UNCHANGED <<clock, attempt, sessions, request>>

ClockTick ==
  /\ clock < MaxClock
  /\ clock' = clock + 1
  /\ UNCHANGED <<attempt, sessions, granted, request>>

SessionInit ==
  /\ clock = 0
  /\ attempt = Absent
  /\ sessions = [s \in Session |-> Absent]
  /\ granted = [s \in Session |-> 0]
  /\ request = [r \in Request |-> Idle]

SessionNext ==
  \/ CreateOAuthLoginAttempt
  \/ \E r \in Request :
       \/ ReadAttempt(r)
       \/ ConsumeOAuthLoginAttempt(r)
       \/ CreateOIDCSession(r)
       \/ \E s \in Session, purpose \in {"use", "refresh", "logout"} : Current(r, s, purpose)
       \/ TouchBrowserSession(r)
       \/ RevokeBrowserSession(r)
       \/ ProviderRefreshes(r)
       \/ ProviderRejects(r)
       \/ RefreshEnds(r)
       \/ UpdateBrowserSessionTokens(r)
       \/ RevokeBrowserSessionIfRefreshToken(r)
  \/ CreateLocalSession
  \/ RevokeSessions
  \/ \E s \in Session : ProviderWithdraws(s)
  \/ ClockTick

SessionSpec == SessionInit /\ [][SessionNext]_sessionVars

--------------------------------------------------------------------------------
(* Types; the idle expiry is within the absolute one (a CHECK of the table). *)
SessionTypeOK ==
  /\ clock \in 0..MaxClock /\ attempt \in Attempts \cup {Absent}
  /\ sessions \in [Session -> Opened \cup {Absent}]
  /\ \A s \in Session : sessions[s] # Absent => sessions[s].idle <= sessions[s].absolute
  /\ granted \in [Session -> 0..MaxToken]
  /\ DOMAIN request = Request

(* A login attempt makes one session at most, however many callbacks come  *)
(* with its state (ConsumeOAuthLoginAttempt).                              *)
AttemptMakesOneSession ==
  attempt # Absent => \A s, u \in attempt.sessions : s = u

(* A session only goes forward, whoever writes to it: requests that touch it *)
(* in another order than they read the clock never move its last use back to *)
(* an earlier second, nor its idle expiry by a second (their texts tell no   *)
(* more), a token is never replaced by one that the provider gave out        *)
(* earlier, and once it is revoked no request that read it before writes to  *)
(* it.                                                                       *)
SessionGoesForward ==
  [][\A s \in Session : sessions[s] # Absent =>
       /\ SecondOf(sessions'[s].used) >= SecondOf(sessions[s].used)
       /\ sessions'[s].idle + TextSlack >= sessions[s].idle
       /\ sessions'[s].token >= sessions[s].token
       /\ sessions[s].revoked => sessions'[s] = sessions[s]]_sessionVars

(* A rejected refresh revokes a session only while its token is one that   *)
(* the provider would reject again: not after another request refreshed it. *)
RejectionSparesTheRefreshed ==
  [][\A r \in Request :
       RevokeBrowserSessionIfRefreshToken(r) =>
         LET s == request[r].session
         IN  sessions'[s] # sessions[s] => sessions[s].token # granted[s]]_sessionVars
================================================================================

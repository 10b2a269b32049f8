------------------------------- MODULE Session -------------------------------
(***************************************************************************)
(* Logins to the console: sessions in Redis (src/internal/session), the    *)
(* account rows with their session_version (src/internal/account), the     *)
(* handlers for login and logout and the middleware that admits a request  *)
(* (src/internal/middleware/session_auth.go).  Each call to Redis or to    *)
(* the database is a step, so logins, requests, revocations and the clock  *)
(* interleave between them.                                                *)
(***************************************************************************)
EXTENDS Naturals, FiniteSets, Functions

CONSTANTS Accounts, Tokens, Clients,
          Passwords,    \* what a password may be
          MaxSessions,  \* Manager.maxPerAccount
          Ttls,         \* DefaultTTL and RememberTTL, in ticks of the clock
          MaxTime,      \* bound: ticks
          MaxVersion    \* bound: revocations of an account

\* What the proofs ask of the constants: the cap and the lifetimes are positive.
ConstantsOK == /\ MaxSessions \in Nat \ {0} /\ Ttls \subseteq Nat \ {0}
               /\ MaxTime \in Nat /\ MaxVersion \in Nat

VARIABLES account,   \* the accounts table: password, enabled, session_version
          sessions,  \* the session keys: SessionData and the time they expire
          index,     \* the sorted set of an account: its tokens and their scores
          indexEnds, \* the time the index key of an account expires
          now,
          client,    \* the request each client is in
          loggedOut  \* history: tokens whose logout was confirmed

vars == <<account, sessions, index, indexEnds, now, client, loggedOut>>

\* The parts of SessionData that decide; password is history: the one the login proved.
Data == [account : Accounts, version : 0 .. MaxVersion, password : Passwords]

Idle == [at |-> "idle"]

Live == { t \in DOMAIN sessions : sessions[t].ends > now }
LiveOf(a) == { t \in Live : sessions[t].data.account = a }

\* The index key is gone once it has expired.
Index(a) == IF indexEnds[a] > now THEN index[a] ELSE <<>>

Init == /\ account \in [Accounts -> [password : Passwords, enabled : {TRUE}, version : {0}]]
        /\ sessions = <<>>
        /\ index = [a \in Accounts |-> <<>>] /\ indexEnds = [a \in Accounts |-> 0]
        /\ now = 0
        /\ client = [c \in Clients |-> Idle]
        /\ loggedOut = {}

Moves(c, state) == client' = [client EXCEPT ![c] = state]

Tables == <<account, sessions, index, indexEnds, now, loggedOut>>

-----------------------------------------------------------------------------
(* Login: credentials are read, the password is compared meanwhile, then   *)
(* the script creates the session.                                         *)

GetCredentials(c, a, password) ==
  /\ client[c] = Idle
  /\ IF account[a].enabled /\ account[a].password = password
     THEN Moves(c, [at |-> "checked", data |-> [account |-> a, version |-> account[a].version,
                                                password |-> password]])
     ELSE Moves(c, [at |-> "answered", status |-> 401])
  /\ UNCHANGED Tables

\* Mutant: expired tokens stay in the index.
PrunedNever(a) == Index(a)

\* ZREMRANGEBYSCORE: the tokens whose time has not come.
Pruned(a) == Restrict(Index(a), { t \in DOMAIN Index(a) : Index(a)[t] > now })

\* Mutant: the index lives as long as the session created last.
IndexEndsShort(a, ends) == ends

\* PEXPIRE only ever extends; a key that ZADD has just made has no time yet.
IndexEnds(a, ends) ==
  IF Pruned(a) # <<>> /\ indexEnds[a] >= ends THEN indexEnds[a] ELSE ends

\* Mutant: a session more than the cap.
CreateScriptOver(data, token, ttl) ==
  LET a == data.account IN
  /\ Cardinality(DOMAIN Pruned(a)) <= MaxSessions
  /\ sessions' = [t \in DOMAIN sessions \cup {token} |->
                    IF t = token THEN [data |-> data, ends |-> now + ttl] ELSE sessions[t]]
  /\ index' = [index EXCEPT ![a] = [t \in DOMAIN Pruned(a) \cup {token} |->
                                      IF t = token THEN now + ttl ELSE Pruned(a)[t]]]
  /\ indexEnds' = [indexEnds EXCEPT ![a] = IndexEnds(a, now + ttl)]

\* createScript, where there is room for another session.
CreateScript(data, token, ttl) ==
  LET a == data.account IN
  /\ Cardinality(DOMAIN Pruned(a)) < MaxSessions
  /\ sessions' = [t \in DOMAIN sessions \cup {token} |->
                    IF t = token THEN [data |-> data, ends |-> now + ttl] ELSE sessions[t]]
  /\ index' = [index EXCEPT ![a] = [t \in DOMAIN Pruned(a) \cup {token} |->
                                      IF t = token THEN now + ttl ELSE Pruned(a)[t]]]
  /\ indexEnds' = [indexEnds EXCEPT ![a] = IndexEnds(a, now + ttl)]

\* The script runs, or its answer is lost and nobody holds the token.
Create(c, token, ttl) ==
  /\ client[c].at = "checked"
  /\ token \notin DOMAIN sessions \cup loggedOut
  /\ CreateScript(client[c].data, token, ttl)
  /\ \/ Moves(c, [at |-> "holds", token |-> token])
     \/ Moves(c, [at |-> "answered", status |-> 503])
  /\ UNCHANGED <<account, now, loggedOut>>

\* The cap is reached; the script has pruned the index all the same.
TooManyActiveSessions(c) ==
  LET a == client[c].data.account IN
  /\ client[c].at = "checked"
  /\ Cardinality(DOMAIN Pruned(a)) >= MaxSessions
  /\ index' = [index EXCEPT ![a] = Pruned(a)]
  /\ Moves(c, [at |-> "answered", status |-> 429, data |-> client[c].data])
  /\ UNCHANGED <<account, sessions, indexEnds, now, loggedOut>>

\* Redis is away: 503 without a session.
CreateFails(c) ==
  /\ client[c].at = "checked"
  /\ Moves(c, [at |-> "answered", status |-> 503])
  /\ UNCHANGED Tables

-----------------------------------------------------------------------------
(* A request with a cookie: the session is read, then the account's        *)
(* version.  Cookies are never taken back, so any token may be presented.  *)

Get(c, token, request) ==
  /\ client[c] = Idle
  /\ IF token \in Live
     THEN Moves(c, [at |-> "got", token |-> token, data |-> sessions[token].data, request |-> request])
     ELSE Moves(c, [at |-> "answered", status |-> 401])
  /\ UNCHANGED Tables

\* Manager.Delete: the key and its entry in the index, in one transaction.
Delete(token) ==
  LET a == sessions[token].data.account IN
  IF token \in Live
  THEN /\ sessions' = Restrict(sessions, DOMAIN sessions \ {token})
       /\ index' = [index EXCEPT ![a] = Restrict(Index(a), DOMAIN Index(a) \ {token})]
  ELSE UNCHANGED <<sessions, index>>

\* Mutant: the version is only compared, an account that is off is let in.
CurrentAtLeast(data) == data.version <= account[data.account].version

\* The session was made in the account's current generation.
Current(data) == data.version = account[data.account].version

\* SessionAuthWithVersion, second half: admit the request, or remove the stale session.
CheckVersion(c) ==
  /\ client[c].at = "got"
  /\ IF Current(client[c].data)
     THEN Moves(c, [client[c] EXCEPT !.at = "admitted"]) /\ UNCHANGED <<sessions, index>>
     ELSE /\ Moves(c, [at |-> "answered", status |-> 401])
          /\ Delete(client[c].token) \/ UNCHANGED <<sessions, index>>
  /\ UNCHANGED <<account, indexEnds, now, loggedOut>>

\* Neither store may be skipped when it cannot be reached.
CheckFails(c) ==
  /\ client[c].at = "got"
  /\ Moves(c, [at |-> "answered", status |-> 503])
  /\ UNCHANGED Tables

\* Mutant: a logout that failed is confirmed as well.
LogoutHopeful(c) ==
  /\ client[c].at = "admitted" /\ client[c].request = "logout"
  /\ Delete(client[c].token) \/ UNCHANGED <<sessions, index>>
  /\ loggedOut' = loggedOut \cup {client[c].token}
  /\ Moves(c, Idle)
  /\ UNCHANGED <<account, indexEnds, now>>

\* Logout, confirmed only when the session is gone; it may be gone with an error, too.
Logout(c) ==
  /\ client[c].at = "admitted" /\ client[c].request = "logout"
  /\ \/ /\ Delete(client[c].token)
        /\ loggedOut' = loggedOut \cup {client[c].token}
     \/ /\ Delete(client[c].token) \/ UNCHANGED <<sessions, index>>
        /\ UNCHANGED loggedOut
  /\ Moves(c, Idle)
  /\ UNCHANGED <<account, indexEnds, now>>

\* Any other request has done its work, or an answer is read.
Done(c) ==
  /\ client[c].at \in {"holds", "answered"}
     \/ (client[c].at = "admitted" /\ client[c].request # "logout")
  /\ Moves(c, Idle)
  /\ UNCHANGED Tables

-----------------------------------------------------------------------------
(* The administrator, and time.                                            *)

Unrevoked == <<sessions, index, indexEnds, now, client, loggedOut>>

\* Mutant: a new password leaves the generation as it is.
UpdatePasswordQuietly(a, password) ==
  /\ account[a].version < MaxVersion
  /\ account' = [account EXCEPT ![a].password = password]
  /\ UNCHANGED Unrevoked

\* UpdateAccountPassword starts a new generation of sessions.
UpdatePassword(a, password) ==
  /\ account[a].version < MaxVersion
  /\ account' = [account EXCEPT ![a].password = password, ![a].version = @ + 1]
  /\ UNCHANGED Unrevoked

\* Mutant: switching an account on takes the revocation back.
SetEnabledBack(a, enabled) ==
  /\ account[a].version < MaxVersion
  /\ account' = [account EXCEPT ![a].enabled = enabled,
                                ![a].version = IF enabled THEN @ - 1 ELSE @ + 1]
  /\ UNCHANGED Unrevoked

\* SetAccountEnabled: switching off does so too, switching on does not.
SetEnabled(a, enabled) ==
  /\ account[a].version < MaxVersion
  /\ account' = [account EXCEPT ![a].enabled = enabled,
                                ![a].version = IF enabled THEN @ ELSE @ + 1]
  /\ UNCHANGED Unrevoked

Tick == /\ now < MaxTime
        /\ now' = now + 1
        /\ UNCHANGED <<account, sessions, index, indexEnds, client, loggedOut>>

ClientStep(c) ==
  \/ \E a \in Accounts, p \in Passwords : GetCredentials(c, a, p)
  \/ \E t \in Tokens, ttl \in Ttls : Create(c, t, ttl)
  \/ TooManyActiveSessions(c) \/ CreateFails(c)
  \/ \E t \in Tokens, r \in {"logout", "other"} : Get(c, t, r)
  \/ CheckVersion(c) \/ CheckFails(c) \/ Logout(c) \/ Done(c)

Next == \/ \E c \in Clients : ClientStep(c)
        \/ \E a \in Accounts, p \in Passwords : UpdatePassword(a, p)
        \/ \E a \in Accounts, enabled \in BOOLEAN : SetEnabled(a, enabled)
        \/ Tick

Spec == Init /\ [][Next]_vars

-----------------------------------------------------------------------------
(* Properties.                                                             *)

\* The tables have their types; a session_version never goes back below the first, whatever
\* is switched on and off (db/query.sql:203-209).
TypeOK ==
  /\ account \in [Accounts -> [password : Passwords, enabled : BOOLEAN, version : 0 .. MaxVersion]]
  /\ DOMAIN sessions \subseteq Tokens
  /\ \A t \in DOMAIN sessions : sessions[t].data \in Data /\ sessions[t].ends \in Nat
  /\ \A a \in Accounts : DOMAIN index[a] \subseteq Tokens
  /\ now \in 0 .. MaxTime /\ loggedOut \subseteq Tokens

\* The unexpired entries of an account's index are its live sessions, no more and no
\* fewer, so that the cap counts them (session.go:74-80, 161-163), whatever has expired,
\* was deleted or was created with another TTL.
IndexCovers ==
  \A a \in Accounts :
    { t \in DOMAIN Index(a) : Index(a)[t] > now } = LiveOf(a)

\* An account never has more live sessions than its cap, however logins interleave
\* (session.go:75-77).
ActiveCap == \A a \in Accounts : Cardinality(LiveOf(a)) <= MaxSessions

\* A login is turned away only while its account has as many live sessions as it may:
\* sessions that expired or were logged out hold no place (session.go:74-77).
TurnedAwayFull ==
  \A c \in Clients :
    client[c].at = "checked" /\ client'[c].at = "answered" /\ client'[c].status = 429 =>
      Cardinality(LiveOf(client[c].data.account)) = MaxSessions

\* At the moment a request is admitted, its account is enabled and still has the password
\* its login proved: a revocation reaches every session, also those whose login had read
\* the credentials before it (session_auth.go:110-123).
AdmittedIsCurrent ==
  \A c \in Clients :
    client[c].at = "got" /\ client'[c].at = "admitted" =>
      LET a == account[client[c].data.account]
      IN a.enabled /\ a.password = client[c].data.password

\* What a client is told is true at the moment it is decided, though it was read before:
\* admission by the account, refusal by the sessions.
AnswersCurrent == [][AdmittedIsCurrent /\ TurnedAwayFull]_vars

\* A confirmed logout leaves no session behind (auth_handlers.go:229-240).
LogoutFinal == loggedOut \cap Live = {}

\* The two structures in Redis agree, and the cap and confirmed logouts hold of both.
SessionsTrue == IndexCovers /\ ActiveCap /\ LogoutFinal

\* A login is turned away for too many active sessions only if some other device could
\* still log out, as the answer asks for (auth_handlers.go:203; violated: sessions that a
\* new password has revoked hold their places).
CapCountsActive ==
  \A c \in Clients :
    client[c].at = "answered" /\ client[c].status = 429 /\ Current(client[c].data) =>
      \E t \in LiveOf(client[c].data.account) : Current(sessions[t].data)
=============================================================================

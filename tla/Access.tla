------------------------------- MODULE Access -------------------------------
(***************************************************************************)
(* Who may use a gateway: sessions, accounts, API keys and the limits of   *)
(* requests.  They share no state in these models: a behaviour is one of   *)
(* them at work, the others rest.                                          *)
(***************************************************************************)
EXTENDS Limits

CONSTANTS Passwords, MaxVersion,
          Accounts, Tokens, MaxSessions, Ttls, MaxClock,   \* Session; MaxClock is its MaxTime
          Names, BootName, BcryptSlots, Balances,          \* Accounts
          Users, Secrets, NoOne, MaxKeys, GateSize         \* ApiKeys; Secrets are its Keys

VARIABLES part,
          account, sessions, index, indexEnds, clock, device, loggedOut,
          backend, users, accounts, settings, bcrypt, handler,
          store, keys, enabled, lock, caller, gate, used

limitVars   == vars
sessionVars == <<account, sessions, index, indexEnds, clock, device, loggedOut>>
accountVars == <<backend, users, accounts, settings, bcrypt, handler>>
keyVars     == <<store, keys, enabled, lock, caller, gate, used>>
allVars     == <<part, sessionVars, accountVars, keyVars, limitVars>>

S == INSTANCE Session WITH MaxTime <- MaxClock, now <- clock, client <- device

W == INSTANCE Accounts WITH client <- handler

K == INSTANCE ApiKeys WITH Keys <- Secrets, backend <- store, users <- enabled, client <- caller

-----------------------------------------------------------------------------
(* One part at work.                                                       *)

Logs      == part = "sessions" /\ UNCHANGED <<part, accountVars, keyVars, limitVars>>
Registers == part = "accounts" /\ UNCHANGED <<part, sessionVars, keyVars, limitVars>>
Resolves  == part = "keys"     /\ UNCHANGED <<part, sessionVars, accountVars, limitVars>>
Limiting  == part = "limits"   /\ UNCHANGED <<part, sessionVars, accountVars, keyVars>>

\* A part at rest has one store and one setting.
AccessInit == /\ part \in {"sessions", "accounts", "keys", "limits"}
              /\ S!Init
              /\ IF part = "accounts" THEN TRUE ELSE backend = "memory" /\ settings = [open |-> FALSE, grant |-> 0]
              /\ W!Init
              /\ IF part = "keys" THEN TRUE ELSE store = "memory"
              /\ K!Init /\ Init

AccessNext == \/ S!Next /\ Logs
              \/ W!Next /\ Registers
              \/ K!Next /\ Resolves
              \/ Next   /\ Limiting

AccessSpec == AccessInit /\ [][AccessNext]_allVars

-----------------------------------------------------------------------------
(* The properties of the parts; Limits' have their own names.              *)

\* The variables of the parts have their types.
TypesOK == S!TypeOK /\ W!TypeOK /\ K!TypeOK /\ TypeOK

\* Session: the two structures in Redis agree, and the cap and confirmed logouts hold of both.
SessionsTrue == S!SessionsTrue

\* Session: what a client is told is true at the moment it is decided.
AnswersCurrent == S!AnswersCurrent

\* Session: who is turned away could log out another device (violated).
CapCountsActive == S!CapCountsActive

\* Accounts: accounts and users belong together and stay as they are.
AccountsSound == W!AccountsSound

\* ApiKeys: caps, owners and the gate hold.
KeysSound == K!KeysSound

\* ApiKeys: the cap holds (violated in PostgreSQL).
KeysCapped == K!KeysCapped
=============================================================================

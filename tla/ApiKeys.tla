------------------------------ MODULE ApiKeys -------------------------------
(***************************************************************************)
(* API keys: the self-service handlers (src/internal/server/               *)
(* me_handlers.go), the administration's keys, the table in PostgreSQL or  *)
(* in memory, and the check of a key with its gate (src/internal/          *)
(* middleware/auth.go).  A statement of PostgreSQL sees the table as it    *)
(* was when the statement began (READ COMMITTED), also while it waits for  *)
(* a lock.                                                                 *)
(***************************************************************************)
EXTENDS Naturals, FiniteSets, Functions

CONSTANTS Users, Keys, Clients,
          NoOne,     \* holds no lock
          MaxKeys,   \* maxSelfKeysPerAccount
          GateSize   \* database.max_open_conns

\* What the proofs ask of the constants: the cap and the gate are numbers, the cap a
\* positive one.
ConstantsOK == /\ IsFiniteSet(Clients) /\ NoOne \notin Clients
               /\ MaxKeys \in Nat \ {0} /\ GateSize \in Nat

VARIABLES backend, \* the store this process was started with
          keys,    \* the table: owner, enabled, and whether its owner made it
          users,   \* the users that are enabled
          lock,    \* the advisory lock of a user: the client that holds it
          client,  \* the request each client is in
          gate,    \* slots taken of the authentication gate
          used     \* history: keys ever made; they are random and never come back

vars == <<backend, keys, users, lock, client, gate, used>>

Idle == [at |-> "idle"]
Moves(c, state) == client' = [client EXCEPT ![c] = state]

Owned(table, u) == { k \in DOMAIN table : table[k].user = u }

Init == /\ backend \in {"postgres", "memory"}
        /\ keys = <<>> /\ users = Users /\ used = {}
        /\ lock = [u \in Users |-> NoOne]
        /\ client = [c \in Clients |-> Idle]
        /\ gate = 0

-----------------------------------------------------------------------------
(* A user makes a key.                                                     *)

\* A new row.
Insert(key, u, self) ==
  /\ key \notin used
  /\ used' = used \cup {key}
  /\ keys' = [k \in DOMAIN keys \cup {key} |->
                IF k = key THEN [user |-> u, enabled |-> TRUE, self |-> self] ELSE keys[k]]

\* Mutant: one key too many.
RoomForOneMore(count) == count <= MaxKeys

\* Another key is allowed.
Room(count) == count < MaxKeys

\* CreateAPIKeyLimited begins: the statement's snapshot is taken before its lock.
BeginCreate(c, u) ==
  /\ backend = "postgres" /\ client[c] = Idle
  /\ Moves(c, [at |-> "waits", user |-> u, count |-> Cardinality(Owned(keys, u))])
  /\ UNCHANGED <<keys, users, lock, gate, used>>

\* pg_advisory_xact_lock: one statement of a user at a time.
AcquireLock(c) ==
  LET u == client[c].user IN
  /\ client[c].at = "waits" /\ lock[u] = NoOne
  /\ lock' = [lock EXCEPT ![u] = c]
  /\ Moves(c, [client[c] EXCEPT !.at = "locked"])
  /\ UNCHANGED <<keys, users, gate, used>>

\* Mutant: the lock belongs to the connection and outlives the statement.
CommitCreateKeepsLock(c) ==
  /\ client[c].at = "locked"
  /\ IF Room(client[c].count) THEN \E key \in Keys : Insert(key, client[c].user, TRUE)
     ELSE UNCHANGED <<keys, used>>
  /\ Moves(c, Idle)
  /\ UNCHANGED <<users, gate, lock>>

\* The rest of the statement: count, insert or ErrLimitReached; its end frees the lock.
CommitCreate(c) ==
  /\ client[c].at = "locked"
  /\ IF Room(client[c].count) THEN \E key \in Keys : Insert(key, client[c].user, TRUE)
     ELSE UNCHANGED <<keys, used>>
  /\ lock' = [lock EXCEPT ![client[c].user] = NoOne]
  /\ Moves(c, Idle)
  /\ UNCHANGED <<users, gate>>

\* The statement fails or is cancelled: nothing is inserted.
CreateFails(c) ==
  /\ client[c].at \in {"waits", "locked"}
  /\ lock' = [u \in Users |-> IF lock[u] = c THEN NoOne ELSE lock[u]]
  /\ Moves(c, Idle)
  /\ UNCHANGED <<keys, users, gate, used>>

\* The memory store counts and inserts under its mutex.
AdminCreateKeyLimited(c, u) ==
  /\ backend = "memory" /\ client[c] = Idle
  /\ Room(Cardinality(Owned(keys, u)))
  /\ \E key \in Keys : Insert(key, u, TRUE)
  /\ UNCHANGED <<users, lock, client, gate>>

-----------------------------------------------------------------------------
(* Keys and users are switched on and off, keys are deleted.               *)

\* Mutant: any key that exists is good enough.
ownedKeyAny(u, k) == k \in DOMAIN keys

\* The key is in the list of the session's user.
ownedKey(u, k) == k \in Owned(keys, u)

\* setKeyEnabled and deleteKey look first, else 404.
FindKey(c, u, k) ==
  /\ client[c] = Idle
  /\ ownedKey(u, k)
  /\ Moves(c, [at |-> "owns", user |-> u, key |-> k])
  /\ UNCHANGED <<keys, users, lock, gate, used>>

\* The row is updated by its id, if it is still there.
SetAPIKeyEnabled(k, enabled) ==
  IF k \in DOMAIN keys THEN keys' = [keys EXCEPT ![k].enabled = enabled] ELSE UNCHANGED keys

DeleteAPIKey(k) == keys' = Restrict(keys, DOMAIN keys \ {k})

ChangeKey(c) ==
  /\ client[c].at = "owns"
  /\ \/ \E enabled \in BOOLEAN : SetAPIKeyEnabled(client[c].key, enabled)
     \/ DeleteAPIKey(client[c].key)
  /\ Moves(c, Idle)
  /\ UNCHANGED <<users, lock, gate, used>>

\* The administration: keys without a limit, any key and any user on or off.
Administrate ==
  /\ \/ \E u \in Users, k \in Keys : Insert(k, u, FALSE) /\ UNCHANGED users
     \/ \E k \in DOMAIN keys, enabled \in BOOLEAN :
          SetAPIKeyEnabled(k, enabled) /\ UNCHANGED <<users, used>>
     \/ \E u \in Users : users' \in {users \cup {u}, users \ {u}} /\ UNCHANGED <<keys, used>>
  /\ UNCHANGED <<lock, client, gate>>

-----------------------------------------------------------------------------
(* A request presents a key.                                               *)

\* AuthWithGate: a slot at once, or 503.
Authenticate(c, k) ==
  /\ client[c] = Idle /\ gate < GateSize
  /\ gate' = gate + 1
  /\ Moves(c, [at |-> "resolving", key |-> k])
  /\ UNCHANGED <<keys, users, lock, used>>

\* ResolveAPIKey: the key and its user are both on.
Resolves(k) == k \in DOMAIN keys /\ keys[k].enabled /\ keys[k].user \in users

\* Mutant: the slot is given back only by requests that go on.
ResolveKeyLeaks(c) ==
  /\ client[c].at = "resolving"
  /\ \/ /\ Resolves(client[c].key)
        /\ Moves(c, [at |-> "identified", identity |-> keys[client[c].key].user])
        /\ gate' = gate - 1
     \/ Moves(c, Idle) /\ UNCHANGED gate
  /\ UNCHANGED <<keys, users, lock, used>>

\* The identity, or 401, or 500 when the store fails or panics; the slot is given back.
ResolveKey(c) ==
  /\ client[c].at = "resolving"
  /\ \/ /\ Resolves(client[c].key)
        /\ Moves(c, [at |-> "identified", identity |-> keys[client[c].key].user])
     \/ Moves(c, Idle)
  /\ gate' = gate - 1
  /\ UNCHANGED <<keys, users, lock, used>>

Serve(c) == /\ client[c].at = "identified"
            /\ Moves(c, Idle)
            /\ UNCHANGED <<keys, users, lock, gate, used>>

ClientStep(c) ==
  \/ \E u \in Users : BeginCreate(c, u) \/ AdminCreateKeyLimited(c, u)
  \/ AcquireLock(c) \/ CommitCreate(c) \/ CreateFails(c)
  \/ \E u \in Users, k \in Keys : FindKey(c, u, k)
  \/ ChangeKey(c)
  \/ \E k \in Keys : Authenticate(c, k)
  \/ ResolveKey(c) \/ Serve(c)

Next == /\ Administrate \/ \E c \in Clients : ClientStep(c)
        /\ UNCHANGED backend

Spec == Init /\ [][Next]_vars

-----------------------------------------------------------------------------
(* Properties.                                                             *)

\* All variables have their types, and a user's lock is held by the one statement that
\* is past it: it goes with the statement's end (db/query.sql:74-76).
TypeOK ==
  /\ backend \in {"postgres", "memory"}
  /\ DOMAIN keys \subseteq used /\ used \subseteq Keys
  /\ \A k \in DOMAIN keys : keys[k] \in [user : Users, enabled : BOOLEAN, self : BOOLEAN]
  /\ users \subseteq Users
  /\ \A u \in Users, c \in Clients :
       lock[u] = c <=> (client[c].at = "locked" /\ client[c].user = u)

\* The slots taken are the requests that look up a key, whatever becomes of them, and
\* never more than there are (auth.go:49-60).
GateReturns ==
  /\ gate = Cardinality({ c \in Clients : client[c].at = "resolving" })
  /\ gate <= GateSize

SelfMade(u) == { k \in Owned(keys, u) : keys[k].self }

\* The cap may be overrun by one key for every other statement that runs at the same
\* time, and by no more, whatever is deleted and made anew (db/query.sql:72-83).
OverrunBounded ==
  \A u \in Users : Cardinality(SelfMade(u)) <= MaxKeys - 1 + Cardinality(Clients)

\* A handler that looked a key up for one user never changes a key of another, though
\* the table moves on in between (me_handlers.go:150-185).
ChangesOwn ==
  \A c \in Clients, k \in DOMAIN keys :
    client[c].at = "owns" /\ client'[c] = Idle /\ k \notin Owned(keys, client[c].user) =>
      k \in DOMAIN keys' /\ keys'[k] = keys[k]
OwnKeysOnly == [][ChangesOwn]_vars

\* As db/query.sql:73 has it, counting and inserting are one: a user never makes more keys
\* than allowed (holds in memory, violated in PostgreSQL).
KeysCapped == \A u \in Users : Cardinality(SelfMade(u)) <= MaxKeys

\* In memory it is so, under the store's mutex (admin/memory.go).
MemoryCapped == backend = "memory" => KeysCapped

\* Keys are made within the cap and its one gap, changed by their owners, and looked up
\* within the gate.
KeysSound == [](OverrunBounded /\ MemoryCapped /\ GateReturns) /\ OwnKeysOnly
=============================================================================

---------------------------- MODULE AccessProofs ----------------------------
(***************************************************************************)
(* Proofs about module Access: sessions (S is Session), accounts (W is     *)
(* Accounts), API keys and the limits of requests, for any clients,        *)
(* accounts, tokens, keys, rates and bounds, and about the composition:    *)
(* whatever holds of every behaviour of a part holds of all of them.       *)
(***************************************************************************)
EXTENDS Access, FiniteSetTheorems, TLAPS

\* Finite sets mean the same in the parts as here.
LEMMA SameFiniteSets ==
  /\ \A X : S!Cardinality(X) = Cardinality(X) /\ (S!IsFiniteSet(X) <=> IsFiniteSet(X))
  /\ \A X : K!Cardinality(X) = Cardinality(X) /\ (K!IsFiniteSet(X) <=> IsFiniteSet(X))
  /\ \A X : W!Cardinality(X) = Cardinality(X) /\ (W!IsFiniteSet(X) <=> IsFiniteSet(X))
BY DEF Cardinality, S!Cardinality, K!Cardinality, W!Cardinality,
       IsFiniteSet, S!IsFiniteSet, K!IsFiniteSet, W!IsFiniteSet

-----------------------------------------------------------------------------
(* Sessions.                                                               *)

\* The tables in Redis have their types.
RedisTyped ==
  /\ DOMAIN sessions \subseteq Tokens /\ IsFiniteSet(DOMAIN sessions)
  /\ \A t \in DOMAIN sessions : sessions[t].data \in S!Data /\ sessions[t].ends \in Nat
  /\ DOMAIN index = Accounts
  /\ \A a \in Accounts : DOMAIN index[a] \subseteq Tokens /\ \A t \in DOMAIN index[a] : index[a][t] \in Nat
  /\ indexEnds \in [Accounts -> Nat] /\ clock \in 0 .. MaxClock

\* A live session is in its account's index with its own end, the index lasts as long as any of its
\* sessions, and what is in a live index and has not ended is a live session.
IndexTrue ==
  /\ \A t \in S!Live : LET a == sessions[t].data.account IN
       t \in DOMAIN index[a] /\ index[a][t] = sessions[t].ends /\ sessions[t].ends <= indexEnds[a]
  /\ \A a \in Accounts : indexEnds[a] > clock =>
       \A t \in DOMAIN index[a] : index[a][t] > clock => t \in S!LiveOf(a)

\* The part of the invariant about Redis.
RedisInv == RedisTyped /\ IndexTrue /\ S!ActiveCap

\* A session belongs to an account.
LEMMA AccountOf == ASSUME RedisTyped, NEW t \in DOMAIN sessions
                   PROVE  sessions[t].data.account \in Accounts
BY DEF RedisTyped, S!Data

\* Pruning an account's index leaves exactly its live sessions.
LEMMA PrunedIsLive ==
  ASSUME S!ConstantsOK, RedisTyped, IndexTrue, NEW a \in Accounts
  PROVE  /\ DOMAIN S!Pruned(a) = S!LiveOf(a) /\ IsFiniteSet(S!LiveOf(a))
         /\ \A t \in S!LiveOf(a) : S!Pruned(a)[t] = sessions[t].ends
         /\ \A t \in DOMAIN S!Index(a) : S!Index(a)[t] > clock <=> t \in S!LiveOf(a)
         /\ S!LiveOf(a) \subseteq DOMAIN S!Index(a) /\ (S!LiveOf(a) # {} => S!Index(a) = index[a])
<1>1. ASSUME NEW t \in S!LiveOf(a)
      PROVE  t \in DOMAIN index[a] /\ index[a][t] = sessions[t].ends /\ sessions[t].ends > clock
             /\ indexEnds[a] > clock
  BY <1>1 DEF RedisTyped, IndexTrue, S!LiveOf, S!Live
<1>2. S!LiveOf(a) \subseteq DOMAIN S!Index(a) /\ (S!LiveOf(a) # {} => S!Index(a) = index[a])
  BY <1>1 DEF S!Index
<1>3. \A t \in DOMAIN S!Index(a) : S!Index(a)[t] > clock <=> t \in S!LiveOf(a)
  BY <1>1 DEF IndexTrue, S!Index
<1>4. /\ DOMAIN S!Pruned(a) = S!LiveOf(a)
      /\ \A t \in S!LiveOf(a) : S!Pruned(a)[t] = sessions[t].ends
  BY <1>1, <1>2, <1>3 DEF S!Pruned, S!Restrict, Restrict
<1>5. IsFiniteSet(S!LiveOf(a))
  BY FS_Subset DEF RedisTyped, S!LiveOf, S!Live
<1>6. QED
  BY <1>2, <1>3, <1>4, <1>5

\* The script that creates a session keeps the index true and the cap.
LEMMA CreateKeeps ==
  ASSUME S!ConstantsOK, RedisInv, NEW d \in S!Data, NEW t \in Tokens \ DOMAIN sessions,
         NEW ttl \in Ttls, S!CreateScript(d, t, ttl), clock' = clock
  PROVE  RedisInv' /\ S!Live' = S!Live \cup {t}
<1>. DEFINE a == d.account
            ends == clock + ttl
<1>1. /\ a \in Accounts /\ ends \in Nat /\ ends > clock /\ MaxSessions \in Nat
      /\ RedisTyped /\ IndexTrue /\ clock \in Nat
  BY DEF S!ConstantsOK, S!Data, RedisInv, RedisTyped
<1>2. /\ DOMAIN S!Pruned(a) = S!LiveOf(a) /\ IsFiniteSet(S!LiveOf(a))
      /\ \A u \in S!LiveOf(a) : S!Pruned(a)[u] = sessions[u].ends
      /\ S!LiveOf(a) # {} => S!Index(a) = index[a]
  BY <1>1, PrunedIsLive
<1>3. /\ DOMAIN sessions' = DOMAIN sessions \cup {t}
      /\ sessions'[t] = [data |-> d, ends |-> ends]
      /\ \A u \in DOMAIN sessions : sessions'[u] = sessions[u]
  BY DEF S!CreateScript
<1>4. /\ DOMAIN index' = Accounts /\ DOMAIN index'[a] = S!LiveOf(a) \cup {t}
      /\ index'[a][t] = ends
      /\ \A u \in S!LiveOf(a) : index'[a][u] = sessions[u].ends
      /\ \A b \in Accounts \ {a} : index'[b] = index[b]
  <2>1. t \notin S!LiveOf(a)
    BY DEF S!LiveOf, S!Live
  <2>2. QED
    BY <1>1, <1>2, <2>1 DEF RedisTyped, S!CreateScript
<1>5. /\ indexEnds' \in [Accounts -> Nat] /\ ends <= indexEnds'[a]
      /\ S!LiveOf(a) # {} => indexEnds[a] <= indexEnds'[a]
      /\ \A b \in Accounts \ {a} : indexEnds'[b] = indexEnds[b]
  <2>1. S!LiveOf(a) # {} => S!Pruned(a) # <<>>
    BY <1>2
  <2>2. indexEnds' = [indexEnds EXCEPT ![a] = S!IndexEnds(a, ends)]
    BY DEF S!CreateScript
  <2>3. /\ S!IndexEnds(a, ends) \in Nat /\ ends <= S!IndexEnds(a, ends)
        /\ S!LiveOf(a) # {} => indexEnds[a] <= S!IndexEnds(a, ends)
    BY <1>1, <2>1 DEF RedisTyped, S!IndexEnds
  <2>4. QED
    BY <1>1, <2>2, <2>3 DEF RedisTyped
<1>6. S!Live' = S!Live \cup {t} /\ t \notin S!Live
  BY <1>1, <1>3 DEF S!Live, RedisTyped
<1>7. S!LiveOf(a)' = S!LiveOf(a) \cup {t} /\ \A b \in Accounts \ {a} : S!LiveOf(b)' = S!LiveOf(b)
  <2>1. t \in S!LiveOf(a)' /\ \A b \in Accounts \ {a} : t \notin S!LiveOf(b)'
    BY <1>3, <1>6 DEF S!LiveOf
  <2>2. \A u \in S!Live : sessions'[u] = sessions[u]
    BY <1>3 DEF S!Live
  <2>3. QED
    BY <1>6, <2>1, <2>2 DEF S!LiveOf
<1>8. RedisTyped'
  <2>1. IsFiniteSet(DOMAIN sessions')
    BY <1>1, <1>3, FS_AddElement DEF RedisTyped
  <2>2. \A u \in DOMAIN sessions' : sessions'[u].data \in S!Data /\ sessions'[u].ends \in Nat
    BY <1>1, <1>3 DEF RedisTyped
  <2>3. \A b \in Accounts : DOMAIN index'[b] \subseteq Tokens /\ \A u \in DOMAIN index'[b] : index'[b][u] \in Nat
    BY <1>1, <1>4 DEF RedisTyped, S!LiveOf, S!Live
  <2>4. QED
    BY <1>1, <1>3, <1>4, <1>5, <2>1, <2>2, <2>3 DEF RedisTyped, S!Data
<1>9. IndexTrue'
  <2>1. ASSUME NEW u \in S!Live'
        PROVE  LET b == sessions'[u].data.account IN
               u \in DOMAIN index'[b] /\ index'[b][u] = sessions'[u].ends /\ sessions'[u].ends <= indexEnds'[b]
    <3>1. CASE u = t
      BY <1>3, <1>4, <1>5, <3>1
    <3>2. CASE u \in S!Live /\ sessions[u].data.account = a
      <4>1. u \in S!LiveOf(a) /\ sessions'[u] = sessions[u] /\ sessions[u].ends \in Nat
        BY <1>1, <1>3, <3>2 DEF S!LiveOf, S!Live, RedisTyped
      <4>2. sessions[u].ends <= indexEnds[a]
        BY <1>1, <3>2 DEF IndexTrue
      <4>3. QED
        BY <1>1, <1>4, <1>5, <3>2, <4>1, <4>2 DEF RedisTyped
    <3>3. CASE u \in S!Live /\ sessions[u].data.account # a
      BY <1>1, <1>3, <1>4, <1>5, <3>3, AccountOf DEF IndexTrue, S!Live
    <3>4. QED
      BY <1>6, <2>1, <3>1, <3>2, <3>3
  <2>2. ASSUME NEW b \in Accounts, indexEnds'[b] > clock', NEW u \in DOMAIN index'[b], index'[b][u] > clock'
        PROVE  u \in S!LiveOf(b)'
    BY <1>1, <1>4, <1>5, <1>7, <2>2 DEF IndexTrue
  <2>3. QED
    BY <2>1, <2>2 DEF IndexTrue
<1>10. S!ActiveCap'
  <2>1. Cardinality(S!LiveOf(a)) < MaxSessions
    BY <1>2, SameFiniteSets DEF S!CreateScript
  <2>2. Cardinality(S!LiveOf(a)) \in Nat /\ t \notin S!LiveOf(a)
    BY <1>2, FS_CardinalityType DEF S!LiveOf, S!Live
  <2>3. Cardinality(S!LiveOf(a)') <= MaxSessions
    <3>1. Cardinality(S!LiveOf(a) \cup {t}) = Cardinality(S!LiveOf(a)) + 1
      BY <1>2, <2>2, FS_AddElement
    <3>2. QED
      BY <1>1, <1>7, <2>1, <2>2, <3>1
  <2>4. \A b \in Accounts \ {a} : Cardinality(S!LiveOf(b)') <= MaxSessions
    BY <1>7, SameFiniteSets DEF RedisInv, S!ActiveCap
  <2>5. QED
    BY <2>3, <2>4, SameFiniteSets DEF S!ActiveCap
<1>11. QED
  BY <1>6, <1>8, <1>9, <1>10 DEF RedisInv

\* So does the end of a session,
LEMMA DeleteKeeps ==
  ASSUME S!ConstantsOK, RedisInv, NEW t, S!Delete(t), UNCHANGED <<indexEnds, clock>>
  PROVE  RedisInv' /\ S!Live' = S!Live \ {t}
<1>1. RedisTyped /\ IndexTrue
  BY DEF RedisInv
<1>2. CASE t \notin S!Live
  BY <1>1, <1>2 DEF S!Delete, RedisInv, RedisTyped, IndexTrue, S!ActiveCap, S!Live, S!LiveOf
<1>3. CASE t \in S!Live
  <2>. DEFINE a == sessions[t].data.account
  <2>1. a \in Accounts /\ t \in DOMAIN sessions
    BY <1>1, <1>3, AccountOf DEF S!Live
  <2>2. S!Index(a) = index[a]
    BY <1>1, <1>3, <2>1, PrunedIsLive DEF S!LiveOf
  <2>3. /\ DOMAIN sessions' = DOMAIN sessions \ {t}
        /\ \A u \in DOMAIN sessions \ {t} : sessions'[u] = sessions[u]
    BY <1>3 DEF S!Delete, S!Restrict, Restrict
  <2>4. /\ DOMAIN index' = Accounts /\ DOMAIN index'[a] = DOMAIN index[a] \ {t}
        /\ \A u \in DOMAIN index[a] \ {t} : index'[a][u] = index[a][u]
        /\ \A b \in Accounts \ {a} : index'[b] = index[b]
    BY <1>1, <1>3, <2>1, <2>2 DEF S!Delete, S!Restrict, Restrict, RedisTyped
  <2>5. S!Live' = S!Live \ {t}
    BY <2>3 DEF S!Live
  <2>6. \A b \in Accounts : S!LiveOf(b)' = S!LiveOf(b) \ {t}
    BY <2>3, <2>5 DEF S!LiveOf, S!Live
  <2>7. RedisTyped'
    <3>1. IsFiniteSet(DOMAIN sessions')
      BY <1>1, <2>3, FS_Subset DEF RedisTyped
    <3>2. \A u \in DOMAIN sessions' : sessions'[u].data \in S!Data /\ sessions'[u].ends \in Nat
      BY <1>1, <2>3 DEF RedisTyped
    <3>3. \A b \in Accounts : DOMAIN index'[b] \subseteq Tokens /\ \A u \in DOMAIN index'[b] : index'[b][u] \in Nat
      BY <1>1, <2>4 DEF RedisTyped
    <3>4. QED
      BY <1>1, <2>3, <2>4, <3>1, <3>2, <3>3 DEF RedisTyped, S!Data
  <2>8. IndexTrue'
    <3>1. ASSUME NEW u \in S!Live'
          PROVE  LET b == sessions'[u].data.account IN
                 u \in DOMAIN index'[b] /\ index'[b][u] = sessions'[u].ends /\ sessions'[u].ends <= indexEnds'[b]
      <4>1. u \in S!Live /\ u # t /\ sessions'[u] = sessions[u] /\ sessions[u].data.account \in Accounts
        BY <1>1, <2>3, <2>5, <3>1, AccountOf DEF S!Live
      <4>2. QED
        BY <1>1, <2>4, <4>1 DEF IndexTrue
    <3>2. ASSUME NEW b \in Accounts, indexEnds'[b] > clock', NEW u \in DOMAIN index'[b], index'[b][u] > clock'
          PROVE  u \in S!LiveOf(b)'
      <4>1. u \in DOMAIN index[b] /\ index'[b][u] = index[b][u]
        BY <2>4, <3>2
      <4>2. u \in S!LiveOf(b)
        BY <1>1, <3>2, <4>1 DEF IndexTrue
      <4>3. u # t
        BY <2>4, <4>2, <3>2 DEF S!LiveOf
      <4>4. QED
        BY <2>6, <4>2, <4>3
    <3>3. QED
      BY <3>1, <3>2 DEF IndexTrue
  <2>9. S!ActiveCap'
    <3>1. ASSUME NEW b \in Accounts PROVE Cardinality(S!LiveOf(b)') <= MaxSessions
      <4>1. IsFiniteSet(S!LiveOf(b)) /\ Cardinality(S!LiveOf(b)) <= MaxSessions
        BY <1>1, PrunedIsLive, SameFiniteSets DEF RedisInv, S!ActiveCap
      <4>2. Cardinality(S!LiveOf(b) \ {t}) <= Cardinality(S!LiveOf(b))
        BY <4>1, FS_Subset
      <4>3. Cardinality(S!LiveOf(b)) \in Nat /\ Cardinality(S!LiveOf(b) \ {t}) \in Nat /\ MaxSessions \in Nat
        BY <4>1, FS_CardinalityType, FS_Subset DEF S!ConstantsOK
      <4>4. QED
        BY <2>6, <4>1, <4>2, <4>3
    <3>2. QED
      BY <3>1, SameFiniteSets DEF S!ActiveCap
  <2>10. QED
    BY <2>5, <2>7, <2>8, <2>9 DEF RedisInv
<1>4. QED
  BY <1>2, <1>3

\* the listing of the sessions of an account, which prunes its index,
LEMMA PruneKeeps ==
  ASSUME S!ConstantsOK, RedisInv, NEW a \in Accounts,
         index' = [index EXCEPT ![a] = S!Pruned(a)], UNCHANGED <<sessions, indexEnds, clock>>
  PROVE  RedisInv' /\ S!Live' = S!Live
<1>1. RedisTyped /\ IndexTrue
  BY DEF RedisInv
<1>2. /\ DOMAIN index' = Accounts /\ DOMAIN index'[a] = S!LiveOf(a)
      /\ \A u \in S!LiveOf(a) : index'[a][u] = sessions[u].ends
      /\ \A b \in Accounts \ {a} : index'[b] = index[b]
  BY <1>1, PrunedIsLive DEF RedisTyped
<1>3. S!Live' = S!Live /\ \A b \in Accounts : S!LiveOf(b)' = S!LiveOf(b)
  BY DEF S!Live, S!LiveOf
<1>4. RedisTyped'
  <2>1. \A b \in Accounts : DOMAIN index'[b] \subseteq Tokens /\ \A u \in DOMAIN index'[b] : index'[b][u] \in Nat
    BY <1>1, <1>2 DEF RedisTyped, S!LiveOf, S!Live
  <2>2. QED
    BY <1>1, <1>2, <2>1 DEF RedisTyped, S!Data
<1>5. IndexTrue'
  <2>1. ASSUME NEW u \in S!Live'
        PROVE  LET b == sessions'[u].data.account IN
               u \in DOMAIN index'[b] /\ index'[b][u] = sessions'[u].ends /\ sessions'[u].ends <= indexEnds'[b]
    BY <1>1, <1>2, <2>1, AccountOf DEF IndexTrue, S!Live, S!LiveOf
  <2>2. ASSUME NEW b \in Accounts, indexEnds'[b] > clock', NEW u \in DOMAIN index'[b], index'[b][u] > clock'
        PROVE  u \in S!LiveOf(b)'
    BY <1>1, <1>2, <1>3, <2>2 DEF IndexTrue
  <2>3. QED
    BY <2>1, <2>2 DEF IndexTrue
<1>6. QED
  BY <1>3, <1>4, <1>5 DEF RedisInv, S!ActiveCap

\* and time, which ends sessions.
LEMMA ClockKeeps ==
  ASSUME S!ConstantsOK, RedisInv, S!Tick
  PROVE  RedisInv' /\ S!Live' \subseteq S!Live
<1>1. /\ RedisTyped /\ IndexTrue /\ clock \in Nat /\ clock' = clock + 1 /\ clock' \in 0 .. MaxClock
      /\ UNCHANGED <<sessions, index, indexEnds>>
  BY DEF RedisInv, RedisTyped, S!Tick, S!ConstantsOK
<1>2. RedisTyped'
  BY <1>1 DEF RedisTyped, S!Data
<1>3. S!Live' \subseteq S!Live /\ \A b \in Accounts : S!LiveOf(b)' \subseteq S!LiveOf(b)
  BY <1>1 DEF S!Live, S!LiveOf, RedisTyped
<1>4. IndexTrue'
  <2>1. ASSUME NEW b \in Accounts, indexEnds'[b] > clock', NEW u \in DOMAIN index'[b], index'[b][u] > clock'
        PROVE  u \in S!LiveOf(b)'
    <3>1. indexEnds[b] \in Nat /\ index[b][u] \in Nat
      BY <1>1, <2>1 DEF RedisTyped
    <3>2. u \in S!LiveOf(b)
      BY <1>1, <2>1, <3>1 DEF IndexTrue
    <3>3. QED
      BY <1>1, <2>1, <3>2 DEF IndexTrue, S!LiveOf, S!Live
  <2>2. QED
    BY <1>1, <1>3, <2>1 DEF IndexTrue
<1>5. S!ActiveCap'
  <2>1. ASSUME NEW b \in Accounts PROVE Cardinality(S!LiveOf(b)') <= MaxSessions
    <3>1. IsFiniteSet(S!LiveOf(b)) /\ Cardinality(S!LiveOf(b)) <= MaxSessions
      BY <1>1, PrunedIsLive, SameFiniteSets DEF RedisInv, S!ActiveCap
    <3>2. /\ Cardinality(S!LiveOf(b)') <= Cardinality(S!LiveOf(b))
          /\ IsFiniteSet(S!LiveOf(b)')
      BY <1>3, <3>1, FS_Subset
    <3>3. Cardinality(S!LiveOf(b)) \in Nat /\ Cardinality(S!LiveOf(b)') \in Nat /\ MaxSessions \in Nat
      BY <3>1, <3>2, FS_CardinalityType DEF S!ConstantsOK
    <3>4. QED
      BY <3>1, <3>2, <3>3
  <2>2. QED
    BY <2>1, SameFiniteSets DEF S!ActiveCap
<1>6. QED
  BY <1>2, <1>3, <1>4, <1>5 DEF RedisInv

\* What is kept of an account in a session was once true of it, and is true now if it is of the
\* current version.
Honest(d) ==
  /\ d \in S!Data
  /\ d.version <= account[d.account].version
  /\ S!Current(d) => account[d.account].enabled /\ account[d.account].password = d.password

\* The rows of the accounts table.
AccountRow == [password : Passwords, enabled : BOOLEAN, version : 0 .. MaxVersion]

\* A request in flight carries data that was read, and a token.
SoundRequest(s) ==
  /\ "at" \in DOMAIN s
  /\ s.at \in {"checked", "got"} => Honest(s.data)
  /\ s.at \in {"got", "admitted"} => "token" \in DOMAIN s /\ s.token \in Tokens

\* The inductive invariant of the sessions.
SessionInv ==
  /\ RedisInv /\ S!LogoutFinal /\ loggedOut \subseteq Tokens
  /\ account \in [Accounts -> AccountRow]
  /\ \A t \in DOMAIN sessions : Honest(sessions[t].data)
  /\ DOMAIN device = Clients
  /\ \A c \in Clients : SoundRequest(device[c])

\* One request moves, the others stay.
LEMMA DevicesKeep ==
  ASSUME SessionInv, NEW c \in Clients, NEW state, S!Moves(c, state), SoundRequest(state), UNCHANGED account
  PROVE  /\ DOMAIN device' = Clients
         /\ \A d \in Clients : SoundRequest(device[d])'
         /\ device'[c] = state /\ \A d \in Clients \ {c} : device'[d] = device[d]
<1>1. /\ DOMAIN device' = Clients
      /\ device'[c] = state /\ \A d \in Clients \ {c} : device'[d] = device[d]
  BY DEF SessionInv, S!Moves
<1>2. \A s : SoundRequest(s) <=> SoundRequest(s)'
  BY DEF SoundRequest, Honest, S!Current, S!Data
<1>3. QED
  BY <1>1, <1>2 DEF SessionInv

\* A row with another password or switch, and a version.
LEMMA RowWith ==
  ASSUME NEW r \in AccountRow, NEW v \in 0 .. MaxVersion
  PROVE  /\ \A p \in Passwords : [r EXCEPT !.password = p, !.version = v] \in AccountRow
         /\ \A on \in BOOLEAN : [r EXCEPT !.enabled = on, !.version = v] \in AccountRow
BY DEF AccountRow

\* A change of an account keeps its version in step: what a session knew of it and is still current
\* is still true.
LEMMA AccountKeeps ==
  ASSUME S!ConstantsOK, account \in [Accounts -> AccountRow], NEW a \in Accounts,
         \/ \E p \in Passwords : S!UpdatePassword(a, p)
         \/ \E on \in BOOLEAN : S!SetEnabled(a, on)
  PROVE  /\ account' \in [Accounts -> AccountRow]
         /\ \A d : Honest(d) => Honest(d)'
<1>1. /\ account[a] \in AccountRow /\ account[a].version \in 0 .. MaxVersion
      /\ account[a].version + 1 \in 0 .. MaxVersion
  <2>1. account[a].version < MaxVersion
    BY DEF S!UpdatePassword, S!SetEnabled
  <2>2. account[a] \in AccountRow /\ account[a].version \in 0 .. MaxVersion
    BY DEF AccountRow
  <2>3. QED
    BY <2>1, <2>2 DEF S!ConstantsOK
<1>2. /\ account'[a] \in AccountRow
      /\ \/ account'[a].version = account[a].version + 1
         \/ /\ account'[a].version = account[a].version
            /\ account'[a].enabled /\ account'[a].password = account[a].password
  <2>1. ASSUME NEW p \in Passwords, S!UpdatePassword(a, p)
        PROVE  account'[a] \in AccountRow /\ account'[a].version = account[a].version + 1
    <3>1. account'[a] = [account[a] EXCEPT !.password = p, !.version = account[a].version + 1]
      BY <1>1, <2>1 DEF AccountRow, S!UpdatePassword
    <3>2. [account[a] EXCEPT !.password = p, !.version = account[a].version + 1] \in AccountRow
      BY <1>1, RowWith
    <3>3. QED
      BY <1>1, <3>1, <3>2 DEF AccountRow
  <2>2. ASSUME NEW on \in BOOLEAN, S!SetEnabled(a, on)
        PROVE  /\ account'[a] \in AccountRow
               /\ \/ account'[a].version = account[a].version + 1
                  \/ /\ account'[a].version = account[a].version
                     /\ account'[a].enabled /\ account'[a].password = account[a].password
    <3>. DEFINE v == IF on THEN account[a].version ELSE account[a].version + 1
    <3>1. account'[a] = [account[a] EXCEPT !.enabled = on, !.version = v]
      BY <1>1, <2>2 DEF AccountRow, S!SetEnabled
    <3>2. v \in 0 .. MaxVersion
      BY <1>1
    <3>3. [account[a] EXCEPT !.enabled = on, !.version = v] \in AccountRow
      BY <1>1, <3>2, RowWith
    <3>4. QED
      BY <1>1, <3>1, <3>3 DEF AccountRow
  <2>3. QED
    BY <2>1, <2>2
<1>3. \A b \in Accounts \ {a} : account'[b] = account[b]
  BY DEF S!UpdatePassword, S!SetEnabled
<1>4. account' \in [Accounts -> AccountRow]
  <2>1. DOMAIN account' = Accounts /\ account' = [b \in Accounts |-> account'[b]]
    BY DEF S!UpdatePassword, S!SetEnabled
  <2>2. QED
    BY <1>2, <1>3, <2>1
<1>5. ASSUME NEW d, Honest(d) PROVE Honest(d)'
  <2>1. d \in S!Data /\ d.account \in Accounts /\ d.version \in Nat
    BY <1>5 DEF Honest, S!Data
  <2>2. CASE d.account # a
    BY <1>3, <1>5, <2>1, <2>2 DEF Honest, S!Current, S!Data
  <2>3. CASE d.account = a
    BY <1>1, <1>2, <1>5, <2>1, <2>3 DEF Honest, S!Current, S!Data
  <2>4. QED
    BY <2>2, <2>3
<1>6. QED
  BY <1>4, <1>5

\* Every step of a request keeps the invariant, and admits only who is current.
LEMMA ClientStepKeeps ==
  ASSUME S!ConstantsOK, SessionInv, NEW c \in Clients, S!ClientStep(c)
  PROVE  SessionInv' /\ S!AdmittedIsCurrent /\ S!TurnedAwayFull
<1>0. RedisInv /\ RedisTyped /\ IndexTrue
  BY DEF SessionInv, RedisInv
<1>. DEFINE Sound == SessionInv' /\ S!AdmittedIsCurrent /\ S!TurnedAwayFull
\* A step that leaves the tables alone.
<1>1. ASSUME UNCHANGED S!Tables, NEW state, S!Moves(c, state), SoundRequest(state),
             device[c].at = "got" /\ state.at = "admitted" => S!Current(device[c].data),
             state.at = "answered" => state.status # 429
      PROVE  Sound
  <2>1. UNCHANGED <<account, sessions, index, indexEnds, clock, loggedOut>>
    BY <1>1 DEF S!Tables
  <2>2. RedisInv' /\ S!Live' = S!Live
    BY <1>0, <2>1 DEF RedisInv, RedisTyped, IndexTrue, S!ActiveCap, S!Live, S!LiveOf, S!Data
  <2>3. SessionInv'
    BY <1>1, <2>1, <2>2, DevicesKeep DEF SessionInv, Honest, S!Current, S!Data, S!LogoutFinal
  <2>4. /\ device'[c] = state /\ \A d \in Clients \ {c} : device'[d] = device[d]
    BY <1>1, <2>1, DevicesKeep
  <2>5. S!AdmittedIsCurrent
    BY <1>1, <2>4 DEF S!AdmittedIsCurrent, SessionInv, SoundRequest, Honest
  <2>6. S!TurnedAwayFull
    BY <1>1, <2>4 DEF S!TurnedAwayFull
  <2>7. QED
    BY <2>3, <2>5, <2>6
\* A step on the sessions, of a request that is not told it is one too many.
<1>2. ASSUME RedisInv', NEW state, S!Moves(c, state), SoundRequest(state), UNCHANGED account,
             state.at \notin {"checked", "got", "admitted"},
             state.at = "answered" => state.status # 429,
             S!LogoutFinal', loggedOut' \subseteq Tokens,
             \A t \in DOMAIN sessions' : Honest(sessions'[t].data)
      PROVE  Sound
  <2>1. SessionInv'
    BY <1>2, DevicesKeep DEF SessionInv, Honest, S!Current, S!Data
  <2>2. /\ device'[c] = state /\ \A d \in Clients \ {c} : device'[d] = device[d]
    BY <1>2, DevicesKeep
  <2>3. S!AdmittedIsCurrent /\ S!TurnedAwayFull
    BY <1>2, <2>2 DEF S!AdmittedIsCurrent, S!TurnedAwayFull
  <2>4. QED
    BY <2>1, <2>3
<1>3. ASSUME NEW a \in Accounts, NEW p \in Passwords, S!GetCredentials(c, a, p) PROVE Sound
  <2>. DEFINE d == [account |-> a, version |-> account[a].version, password |-> p]
  <2>1. account[a].enabled /\ account[a].password = p => Honest(d)
    BY DEF SessionInv, AccountRow, Honest, S!Data, S!Current
  <2>2. CASE account[a].enabled /\ account[a].password = p
    <3>1. UNCHANGED S!Tables /\ S!Moves(c, [at |-> "checked", data |-> d])
      BY <1>3, <2>2 DEF S!GetCredentials
    <3>2. QED
      BY <1>1, <2>1, <2>2, <3>1 DEF SoundRequest
  <2>3. CASE ~(account[a].enabled /\ account[a].password = p)
    <3>1. UNCHANGED S!Tables /\ S!Moves(c, [at |-> "answered", status |-> 401])
      BY <1>3, <2>3 DEF S!GetCredentials
    <3>2. QED
      BY <1>1, <3>1 DEF SoundRequest
  <2>4. QED
    BY <2>2, <2>3
<1>4. ASSUME NEW t \in Tokens, NEW ttl \in Ttls, S!Create(c, t, ttl) PROVE Sound
  <2>. DEFINE d == device[c].data
  <2>1. /\ Honest(d) /\ d \in S!Data /\ t \notin DOMAIN sessions /\ t \notin loggedOut
        /\ S!CreateScript(d, t, ttl) /\ UNCHANGED <<account, clock, loggedOut>>
    BY <1>4 DEF S!Create, SessionInv, SoundRequest, Honest
  <2>2. RedisInv' /\ S!Live' = S!Live \cup {t}
    BY <1>0, <2>1, CreateKeeps
  <2>3. \A u \in DOMAIN sessions' : Honest(sessions'[u].data)
    BY <2>1 DEF S!CreateScript, SessionInv
  <2>4. S!LogoutFinal' /\ loggedOut' \subseteq Tokens
    BY <2>1, <2>2 DEF S!LogoutFinal, SessionInv
  <2>5. S!Moves(c, [at |-> "holds", token |-> t]) \/ S!Moves(c, [at |-> "answered", status |-> 503])
    BY <1>4 DEF S!Create
  <2>6. QED
    BY <1>2, <2>1, <2>2, <2>3, <2>4, <2>5 DEF SoundRequest
<1>5. ASSUME S!TooManyActiveSessions(c) PROVE Sound
  <2>. DEFINE d == device[c].data
              state == [at |-> "answered", status |-> 429, data |-> d]
  <2>1. /\ Honest(d) /\ d.account \in Accounts /\ Cardinality(DOMAIN S!Pruned(d.account)) >= MaxSessions
        /\ index' = [index EXCEPT ![d.account] = S!Pruned(d.account)]
        /\ UNCHANGED <<account, sessions, indexEnds, clock, loggedOut>> /\ S!Moves(c, state)
    BY <1>5, SameFiniteSets DEF S!TooManyActiveSessions, SessionInv, SoundRequest, Honest, S!Data
  <2>2. RedisInv' /\ S!Live' = S!Live
    BY <1>0, <2>1, PruneKeeps
  <2>3. SessionInv'
    BY <2>1, <2>2, DevicesKeep, ZenonT(40) DEF SessionInv, SoundRequest, Honest, S!Current, S!Data, S!LogoutFinal
  <2>4. /\ device'[c] = state /\ \A e \in Clients \ {c} : device'[e] = device[e]
    BY <2>1, DevicesKeep DEF SoundRequest
  <2>5. S!AdmittedIsCurrent
    BY <2>4 DEF S!AdmittedIsCurrent
  <2>6. Cardinality(S!LiveOf(d.account)) = MaxSessions
    <3>1. /\ DOMAIN S!Pruned(d.account) = S!LiveOf(d.account) /\ IsFiniteSet(S!LiveOf(d.account))
          /\ Cardinality(S!LiveOf(d.account)) <= MaxSessions
      BY <1>0, <2>1, PrunedIsLive, SameFiniteSets DEF RedisInv, S!ActiveCap
    <3>2. Cardinality(S!LiveOf(d.account)) \in Nat /\ MaxSessions \in Nat
      BY <3>1, FS_CardinalityType DEF S!ConstantsOK
    <3>3. QED
      BY <2>1, <3>1, <3>2
  <2>7. S!TurnedAwayFull
    BY <2>4, <2>6, SameFiniteSets DEF S!TurnedAwayFull
  <2>8. QED
    BY <2>3, <2>5, <2>7
<1>6. ASSUME S!CreateFails(c) \/ S!CheckFails(c) PROVE Sound
  BY <1>1, <1>6 DEF SoundRequest, S!CreateFails, S!CheckFails
<1>7. ASSUME NEW t \in Tokens, NEW r \in {"logout", "other"}, S!Get(c, t, r) PROVE Sound
  <2>1. CASE t \in S!Live
    <3>1. Honest(sessions[t].data)
      BY <2>1 DEF SessionInv, S!Live
    <3>2. UNCHANGED S!Tables /\ S!Moves(c, [at |-> "got", token |-> t, data |-> sessions[t].data, request |-> r])
      BY <1>7, <2>1 DEF S!Get
    <3>3. QED
      BY <1>1, <3>1, <3>2 DEF SoundRequest
  <2>2. CASE t \notin S!Live
    <3>1. UNCHANGED S!Tables /\ S!Moves(c, [at |-> "answered", status |-> 401])
      BY <1>7, <2>2 DEF S!Get
    <3>2. QED
      BY <1>1, <3>1 DEF SoundRequest
  <2>3. QED
    BY <2>1, <2>2
\* What Delete leaves.
<1>8. ASSUME NEW t, S!Delete(t), UNCHANGED <<account, indexEnds, clock>>
      PROVE  /\ RedisInv' /\ S!Live' = S!Live \ {t}
             /\ \A u \in DOMAIN sessions' : Honest(sessions'[u].data)
  <2>1. RedisInv' /\ S!Live' = S!Live \ {t}
    BY <1>0, <1>8, DeleteKeeps
  <2>2. \A u \in DOMAIN sessions' : u \in DOMAIN sessions /\ sessions'[u] = sessions[u]
    BY <1>8 DEF S!Delete, S!Restrict, Restrict
  <2>3. QED
    BY <2>1, <2>2 DEF SessionInv
<1>9. ASSUME S!CheckVersion(c) PROVE Sound
  <2>. DEFINE gone == [at |-> "answered", status |-> 401]
              here == [device[c] EXCEPT !.at = "admitted"]
  <2>1. UNCHANGED <<account, indexEnds, clock, loggedOut>> /\ device[c].at = "got"
    BY <1>9 DEF S!CheckVersion
  <2>2. CASE S!Current(device[c].data)
    <3>1. UNCHANGED S!Tables /\ S!Moves(c, here)
      BY <1>9, <2>1, <2>2 DEF S!CheckVersion, S!Tables
    <3>2. here.at = "admitted" /\ SoundRequest(here)
      BY <2>1 DEF SessionInv, SoundRequest
    <3>3. QED
      BY <1>1, <2>2, <3>1, <3>2 DEF SoundRequest
  <2>3. CASE ~S!Current(device[c].data) /\ S!Delete(device[c].token)
    <3>1. S!Moves(c, gone)
      BY <1>9, <2>3 DEF S!CheckVersion
    <3>2. /\ RedisInv' /\ S!Live' = S!Live \ {device[c].token}
          /\ \A u \in DOMAIN sessions' : Honest(sessions'[u].data)
      BY <1>8, <2>1, <2>3
    <3>3. S!LogoutFinal' /\ loggedOut' \subseteq Tokens
      BY <2>1, <3>2 DEF S!LogoutFinal, SessionInv
    <3>4. QED
      BY <1>2, <2>1, <3>1, <3>2, <3>3 DEF SoundRequest
  <2>4. CASE ~S!Current(device[c].data) /\ UNCHANGED <<sessions, index>>
    <3>1. UNCHANGED S!Tables /\ S!Moves(c, gone)
      BY <1>9, <2>1, <2>4 DEF S!CheckVersion, S!Tables
    <3>2. QED
      BY <1>1, <3>1 DEF SoundRequest
  <2>5. QED
    BY <1>9, <2>2, <2>3, <2>4 DEF S!CheckVersion
<1>10. ASSUME S!Logout(c) PROVE Sound
  <2>. DEFINE t == device[c].token
  <2>1. UNCHANGED <<account, indexEnds, clock>> /\ S!Moves(c, S!Idle)
    BY <1>10 DEF S!Logout
  <2>2. \/ /\ S!Delete(t) /\ loggedOut' \in {loggedOut, loggedOut \cup {t}}
        \/ UNCHANGED <<sessions, index, loggedOut>>
    BY <1>10 DEF S!Logout
  <2>3. CASE UNCHANGED <<sessions, index, loggedOut>>
    BY <1>1, <2>1, <2>3 DEF SoundRequest, S!Tables, S!Idle
  <2>4. CASE S!Delete(t) /\ loggedOut' \in {loggedOut, loggedOut \cup {t}}
    <3>1. /\ RedisInv' /\ S!Live' = S!Live \ {t}
          /\ \A u \in DOMAIN sessions' : Honest(sessions'[u].data)
      BY <1>8, <2>1, <2>4
    <3>2. S!LogoutFinal' 
      BY <2>4, <3>1 DEF S!LogoutFinal, SessionInv
    <3>3. loggedOut' \subseteq Tokens
      BY <1>10, <2>4 DEF S!Logout, SessionInv, SoundRequest
    <3>4. QED
      BY <1>2, <2>1, <3>1, <3>2, <3>3 DEF SoundRequest, S!Idle
  <2>5. QED
    BY <2>2, <2>3, <2>4
<1>11. ASSUME S!Done(c) PROVE Sound
  BY <1>1, <1>11 DEF SoundRequest, S!Done, S!Idle
<1>12. QED
  BY <1>3, <1>4, <1>5, <1>6, <1>7, <1>9, <1>10, <1>11 DEF S!ClientStep

\* So does every step.
LEMMA SessionKeeps ==
  ASSUME S!ConstantsOK, SessionInv, [S!Next]_(S!vars)
  PROVE  SessionInv' /\ [S!AdmittedIsCurrent /\ S!TurnedAwayFull]_(S!vars)
<1>0. RedisInv /\ RedisTyped /\ IndexTrue
  BY DEF SessionInv, RedisInv
<1>1. ASSUME NEW c \in Clients, S!ClientStep(c) PROVE SessionInv' /\ S!AdmittedIsCurrent /\ S!TurnedAwayFull
  BY <1>1, ClientStepKeeps
<1>2. ASSUME NEW a \in Accounts,
             \/ \E p \in Passwords : S!UpdatePassword(a, p)
             \/ \E on \in BOOLEAN : S!SetEnabled(a, on)
      PROVE  SessionInv' /\ S!AdmittedIsCurrent /\ S!TurnedAwayFull
  <2>1. UNCHANGED <<sessions, index, indexEnds, clock, device, loggedOut>>
    BY <1>2 DEF S!UpdatePassword, S!SetEnabled, S!Unrevoked
  <2>2. account' \in [Accounts -> AccountRow] /\ \A d : Honest(d) => Honest(d)'
    BY <1>2, AccountKeeps DEF SessionInv
  <2>3. RedisInv' /\ S!Live' = S!Live
    BY <1>0, <2>1 DEF RedisInv, RedisTyped, IndexTrue, S!ActiveCap, S!Live, S!LiveOf, S!Data
  <2>4. \A s : SoundRequest(s) => SoundRequest(s)'
    BY <2>2 DEF SoundRequest
  <2>5. SessionInv'
    BY <2>1, <2>2, <2>3, <2>4 DEF SessionInv, S!LogoutFinal
  <2>6. S!AdmittedIsCurrent /\ S!TurnedAwayFull
    BY <2>1 DEF S!AdmittedIsCurrent, S!TurnedAwayFull
  <2>7. QED
    BY <2>5, <2>6
<1>3. CASE S!Tick
  <2>1. UNCHANGED <<account, sessions, index, indexEnds, device, loggedOut>>
    BY <1>3 DEF S!Tick
  <2>2. RedisInv' /\ S!Live' \subseteq S!Live
    BY <1>0, <1>3, ClockKeeps
  <2>3. \A d : Honest(d) => Honest(d)'
    BY <2>1 DEF Honest, S!Current, S!Data
  <2>4. \A s : SoundRequest(s) => SoundRequest(s)'
    BY <2>3 DEF SoundRequest
  <2>5. SessionInv'
    BY <2>1, <2>2, <2>3, <2>4 DEF SessionInv, S!LogoutFinal, AccountRow
  <2>6. S!AdmittedIsCurrent /\ S!TurnedAwayFull
    BY <2>1 DEF S!AdmittedIsCurrent, S!TurnedAwayFull
  <2>7. QED
    BY <2>5, <2>6
<1>4. CASE UNCHANGED S!vars
  <2>1. UNCHANGED <<account, sessions, index, indexEnds, clock, device, loggedOut>>
    BY <1>4 DEF S!vars
  <2>2. RedisInv' /\ S!Live' = S!Live
    BY <1>0, <2>1 DEF RedisInv, RedisTyped, IndexTrue, S!ActiveCap, S!Live, S!LiveOf, S!Data
  <2>3. \A d : Honest(d) => Honest(d)'
    BY <2>1 DEF Honest, S!Current, S!Data
  <2>4. \A s : SoundRequest(s) => SoundRequest(s)'
    BY <2>3 DEF SoundRequest
  <2>5. QED
    BY <1>4, <2>1, <2>2, <2>3, <2>4 DEF SessionInv, S!LogoutFinal, AccountRow
<1>5. QED
  BY <1>1, <1>2, <1>3, <1>4 DEF S!Next

\* The invariant holds at first.
LEMMA SessionStarts == ASSUME S!ConstantsOK, S!Init PROVE SessionInv
<1>1. /\ DOMAIN sessions = {} /\ S!Live = {} /\ \A a \in Accounts : S!LiveOf(a) = {} /\ DOMAIN index[a] = {}
  BY DEF S!Init, S!Live, S!LiveOf
<1>2. RedisTyped
  BY <1>1, FS_EmptySet DEF S!Init, RedisTyped, S!ConstantsOK
<1>3. IndexTrue
  BY <1>1 DEF IndexTrue
<1>4. S!ActiveCap
  <2>1. \A a \in Accounts : Cardinality(S!LiveOf(a)) = 0
    BY <1>1, FS_EmptySet
  <2>2. QED
    BY <2>1, SameFiniteSets DEF S!ActiveCap, S!ConstantsOK
<1>5. account \in [Accounts -> AccountRow]
  <2>1. {TRUE} \subseteq BOOLEAN /\ {0} \subseteq 0 .. MaxVersion
    BY DEF S!ConstantsOK
  <2>2. [password : Passwords, enabled : {TRUE}, version : {0}] \subseteq AccountRow
    BY <2>1 DEF AccountRow
  <2>3. QED
    BY <2>2 DEF S!Init
<1>6. QED
  BY <1>1, <1>2, <1>3, <1>4, <1>5 DEF S!Init, S!Idle, SessionInv, RedisInv, S!LogoutFinal, SoundRequest

\* However requests, changes of accounts and time interleave, Redis' two structures agree, no
\* account has more sessions than the cap, a confirmed logout is final, and whom the gateway admits
\* is current at that moment (session/redis.go, auth_handlers.go).
THEOREM SessionsSound ==
  ASSUME S!ConstantsOK
  PROVE  S!Spec => []S!SessionsTrue /\ []S!TypeOK /\ S!AnswersCurrent
<1>1. S!Init => SessionInv
  BY SessionStarts
<1>2. SessionInv /\ [S!Next]_(S!vars) => SessionInv' /\ [S!AdmittedIsCurrent /\ S!TurnedAwayFull]_(S!vars)
  BY SessionKeeps
<1>3. SessionInv => S!SessionsTrue /\ S!TypeOK
  <2>. SUFFICES ASSUME SessionInv PROVE S!SessionsTrue /\ S!TypeOK
    OBVIOUS
  <2>1. S!IndexCovers
    BY PrunedIsLive DEF SessionInv, RedisInv, S!IndexCovers
  <2>2. S!TypeOK
    BY DEF SessionInv, RedisInv, RedisTyped, AccountRow, S!TypeOK
  <2>3. QED
    BY <2>1, <2>2 DEF SessionInv, RedisInv, S!SessionsTrue
<1>4. QED
  BY <1>1, <1>2, <1>3, PTL DEF S!Spec, S!AnswersCurrent

-----------------------------------------------------------------------------
(* Accounts.                                                               *)

\* A request for an account: who made it decides the role, and a registration has no balance.
Requested(r) ==
  /\ r \in [at : {"creating", "inserted", "ready"}, name : Names, role : {"user", "admin"},
            by : {"register", "console", "bootstrap"}, password : Passwords, balance : Balances \cup {0}]
  /\ r.by = "bootstrap" => r.role = "admin"
  /\ r.by = "register" => r.role = "user" /\ r.balance = 0
  /\ r.at # "creating" => r.role = "user"

\* A handler is idle, has a request for the store, or hashes a password before it.
SoundHandler(r) ==
  \/ r = W!Idle
  \/ Requested(r)
  \/ /\ r = [at |-> "hashing", next |-> r.next]
     /\ r.next = W!Idle \/ (Requested(r.next) /\ r.next.at = "creating")

\* A handler in a transaction holds rows that nobody else sees yet.
Holds(r) == r.at \in {"inserted", "ready"}

\* A name in an open transaction is that transaction's alone: it is in no other and in no table yet.
Reserved ==
  \A c \in Clients : Holds(handler[c]) =>
    /\ backend = "postgres"
    /\ handler[c].name \notin DOMAIN users
    /\ \A d \in Clients \ {c} : Holds(handler[d]) => handler[d].name # handler[c].name
    /\ handler[c].at = "ready" => handler[c].name \notin DOMAIN accounts

\* The handlers that hash or compare a password.
Hashing == { c \in Clients : handler[c].at = "hashing" }

\* The semaphore counts them.
SlotsSound == bcrypt = Cardinality(Hashing) /\ bcrypt <= BcryptSlots

\* The part of the invariant about the tables.
RowsSound == W!TypeOK /\ W!MadeTogether /\ W!NoFreeCredit

\* The inductive invariant of the accounts.
AccountsInv ==
  /\ DOMAIN handler = Clients /\ \A c \in Clients : SoundHandler(handler[c])
  /\ RowsSound /\ Reserved /\ SlotsSound

\* One handler moves, the others stay.
LEMMA Move ==
  ASSUME DOMAIN handler = Clients, NEW c \in Clients, NEW state, W!Moves(c, state)
  PROVE  /\ DOMAIN handler' = Clients /\ handler'[c] = state
         /\ \A d \in Clients \ {c} : handler'[d] = handler[d]
         /\ Hashing' \ {c} = Hashing \ {c}
BY DEF W!Moves, Hashing

\* The semaphore after a step of one handler.
LEMMA SlotMoves ==
  ASSUME W!ConstantsOK, DOMAIN handler = Clients, SlotsSound, NEW c \in Clients, NEW state, W!Moves(c, state),
         \/ bcrypt' = bcrypt /\ (handler[c].at = "hashing" <=> state.at = "hashing")
         \/ bcrypt' = bcrypt + 1 /\ handler[c].at # "hashing" /\ state.at = "hashing" /\ bcrypt < BcryptSlots
         \/ bcrypt' = bcrypt - 1 /\ handler[c].at = "hashing" /\ state.at # "hashing"
  PROVE  SlotsSound'
<1>1. handler'[c] = state /\ Hashing' \ {c} = Hashing \ {c}
  BY Move
<1>2. IsFiniteSet(Hashing) /\ Cardinality(Hashing) \in Nat /\ BcryptSlots \in Nat
  BY SameFiniteSets, FS_Subset, FS_CardinalityType DEF Hashing, W!ConstantsOK
<1>3. CASE bcrypt' = bcrypt /\ (handler[c].at = "hashing" <=> state.at = "hashing")
  <2>1. Hashing' = Hashing
    BY <1>1, <1>3 DEF Hashing
  <2>2. QED
    BY <1>3, <2>1 DEF SlotsSound
<1>4. CASE bcrypt' = bcrypt + 1 /\ handler[c].at # "hashing" /\ state.at = "hashing" /\ bcrypt < BcryptSlots
  <2>1. Hashing' = Hashing \cup {c} /\ c \notin Hashing
    BY <1>1, <1>4 DEF Hashing
  <2>2. Cardinality(Hashing \cup {c}) = Cardinality(Hashing) + 1
    BY <1>2, <2>1, FS_AddElement
  <2>3. QED
    BY <1>2, <1>4, <2>1, <2>2 DEF SlotsSound
<1>5. CASE bcrypt' = bcrypt - 1 /\ handler[c].at = "hashing" /\ state.at # "hashing"
  <2>1. Hashing' = Hashing \ {c} /\ c \in Hashing
    BY <1>1, <1>5 DEF Hashing
  <2>2. Cardinality(Hashing \ {c}) = Cardinality(Hashing) - 1
    BY <1>2, <2>1, FS_RemoveElement
  <2>3. QED
    BY <1>2, <1>5, <2>1, <2>2 DEF SlotsSound
<1>6. QED
  BY <1>3, <1>4, <1>5

\* A handler that holds no row afterwards leaves the names of the others alone: rows are added under
\* its own name, or in memory, where no transaction is open.
LEMMA ReservedMoves ==
  ASSUME DOMAIN handler = Clients, Reserved, NEW c \in Clients, NEW state, W!Moves(c, state), backend' = backend,
         ~Holds(state),
         \/ UNCHANGED <<users, accounts>>
         \/ /\ Holds(handler[c])
            /\ DOMAIN users' = DOMAIN users \cup {handler[c].name}
            /\ DOMAIN accounts' = DOMAIN accounts \cup {handler[c].name}
         \/ backend = "memory"
         \/ /\ users' = users
            /\ DOMAIN accounts' \subseteq DOMAIN accounts \cup {handler[c].name}
            /\ \A d \in Clients : ~W!AddsAccount(d, handler[c].name)
  PROVE  Reserved'
<1>1. handler'[c] = state /\ \A d \in Clients \ {c} : handler'[d] = handler[d]
  BY Move
<1>2. SUFFICES ASSUME NEW d \in Clients, Holds(handler'[d])
               PROVE  /\ backend' = "postgres" /\ handler'[d].name \notin DOMAIN users'
                      /\ \A e \in Clients \ {d} : Holds(handler'[e]) => handler'[e].name # handler'[d].name
                      /\ handler'[d].at = "ready" => handler'[d].name \notin DOMAIN accounts'
  BY DEF Reserved, Holds
<1>3. d # c /\ handler'[d] = handler[d] /\ Holds(handler[d])
  BY <1>1, <1>2
<1>4. \A e \in Clients \ {d} : Holds(handler'[e]) => handler'[e].name # handler'[d].name
  BY <1>1, <1>3 DEF Reserved
<1>5. backend = "postgres" /\ handler[d].name \notin DOMAIN users
      /\ (handler[d].at = "ready" => handler[d].name \notin DOMAIN accounts)
  BY <1>3 DEF Reserved
<1>6. Holds(handler[c]) => handler[c].name # handler[d].name
  BY <1>3 DEF Reserved
<1>7. QED
  BY <1>3, <1>4, <1>5, <1>6 DEF W!AddsAccount

\* A sound handler that moves to a sound state.
LEMMA HandlerMoves ==
  ASSUME AccountsInv, NEW c \in Clients, NEW state, W!Moves(c, state), SoundHandler(state)
  PROVE  DOMAIN handler' = Clients /\ \A d \in Clients : SoundHandler(handler'[d])
BY Move DEF AccountsInv

\* A step that leaves the tables alone.
LEMMA RowsStay ==
  ASSUME RowsSound, UNCHANGED <<users, accounts>>
  PROVE  RowsSound' /\ W!PasswordsKept
BY DEF RowsSound, W!TypeOK, W!MadeTogether, W!NoFreeCredit, W!PasswordsKept

\* A handler that only moves and takes or returns its slot.
LEMMA QuietMove ==
  ASSUME W!ConstantsOK, AccountsInv, NEW c \in Clients, NEW state, W!Moves(c, state), SoundHandler(state), ~Holds(state),
         UNCHANGED <<backend, users, accounts>>,
         \/ bcrypt' = bcrypt /\ (handler[c].at = "hashing" <=> state.at = "hashing")
         \/ bcrypt' = bcrypt + 1 /\ handler[c].at # "hashing" /\ state.at = "hashing" /\ bcrypt < BcryptSlots
         \/ bcrypt' = bcrypt - 1 /\ handler[c].at = "hashing" /\ state.at # "hashing"
  PROVE  AccountsInv' /\ W!PasswordsKept
<1>1. SlotsSound'
  BY SlotMoves DEF AccountsInv
<1>2. Reserved'
  BY ReservedMoves DEF AccountsInv
<1>3. RowsSound' /\ W!PasswordsKept
  BY RowsStay DEF AccountsInv
<1>4. QED
  BY <1>1, <1>2, <1>3, HandlerMoves DEF AccountsInv

\* The requests, up to the store.
LEMMA AsksKeep ==
  ASSUME W!ConstantsOK, AccountsInv, NEW c \in Clients, NEW n \in Names, NEW p \in Passwords,
         W!register(c, n, p) \/ W!createAccount(c, n, p) \/ W!bootstrapAdmin(c, p)
  PROVE  AccountsInv' /\ W!PasswordsKept
<1>1. CASE W!register(c, n, p)
  <2>. DEFINE r == W!Request(n, "user", "register", p, 0)
              s == [at |-> "hashing", next |-> r]
  <2>1. Requested(r) /\ r.at = "creating"
    BY DEF Requested, W!Request
  <2>2. SoundHandler(s) /\ ~Holds(s) /\ s.at = "hashing"
    BY <2>1 DEF SoundHandler, Holds
  <2>3. W!Moves(c, s) /\ handler[c].at # "hashing" /\ bcrypt' = bcrypt + 1 /\ bcrypt < BcryptSlots
        /\ UNCHANGED <<backend, users, accounts>>
    BY <1>1 DEF W!register, W!Idle, W!RegistrationBalance
  <2>. HIDE DEF s
  <2>4. QED
    BY <2>2, <2>3, QuietMove
<1>2. CASE W!createAccount(c, n, p)
  <2>1. PICK r : /\ Requested(r) /\ r.at = "creating" /\ W!Moves(c, r) /\ handler[c].at # "hashing"
                 /\ UNCHANGED <<backend, users, accounts, bcrypt>>
    <3>1. handler[c].at # "hashing" /\ UNCHANGED <<backend, users, accounts, bcrypt>>
      BY <1>2 DEF W!createAccount, W!Idle
    <3>2. \A b \in Balances \cup {0} : /\ Requested(W!Request(n, "user", "console", p, b))
                                       /\ Requested(W!Request(n, "admin", "console", p, b))
                                       /\ W!Request(n, "user", "console", p, b).at = "creating"
                                       /\ W!Request(n, "admin", "console", p, b).at = "creating"
      BY DEF Requested, W!Request
    <3>3. \/ \E b \in Balances : W!Moves(c, W!Request(n, "user", "console", p, b))
          \/ W!Moves(c, W!Request(n, "admin", "console", p, 0))
      BY <1>2 DEF W!createAccount
    <3>4. QED
      BY <3>1, <3>2, <3>3
  <2>2. QED
    BY <2>1, QuietMove DEF SoundHandler, Holds
<1>3. CASE W!bootstrapAdmin(c, p)
  <2>. DEFINE r == W!Request(BootName, "admin", "bootstrap", p, 0)
  <2>1. Requested(r) /\ r.at = "creating"
    BY DEF Requested, W!Request, W!ConstantsOK
  <2>2. W!Moves(c, r) /\ handler[c].at # "hashing" /\ UNCHANGED <<backend, users, accounts, bcrypt>>
    BY <1>3 DEF W!bootstrapAdmin, W!Idle
  <2>. HIDE DEF r
  <2>3. QED
    BY <2>1, <2>2, QuietMove DEF SoundHandler, Holds
<1>4. QED
  BY <1>1, <1>2, <1>3

\* A login, and the end of any hashing.
LEMMA QuietAsks ==
  ASSUME W!ConstantsOK, AccountsInv, NEW c \in Clients, W!login(c) \/ W!Hashed(c)
  PROVE  AccountsInv' /\ W!PasswordsKept
<1>1. CASE W!login(c)
  <2>. DEFINE s == [at |-> "hashing", next |-> W!Idle]
  <2>1. SoundHandler(s) /\ ~Holds(s) /\ s.at = "hashing"
    BY DEF SoundHandler, Holds
  <2>2. W!Moves(c, s) /\ handler[c].at # "hashing" /\ bcrypt' = bcrypt + 1 /\ bcrypt < BcryptSlots
        /\ UNCHANGED <<backend, users, accounts>>
    BY <1>1 DEF W!login, W!Idle
  <2>. HIDE DEF s
  <2>3. QED
    BY <2>1, <2>2, QuietMove
<1>2. CASE W!Hashed(c)
  <2>1. handler[c].next = W!Idle \/ (Requested(handler[c].next) /\ handler[c].next.at = "creating")
    BY <1>2 DEF AccountsInv, SoundHandler, W!Hashed, W!Idle, Requested
  <2>2. PICK s : /\ s = W!Idle \/ (Requested(s) /\ s.at = "creating")
                 /\ W!Moves(c, s)
    BY <1>2, <2>1 DEF W!Hashed
  <2>3. SoundHandler(s) /\ ~Holds(s) /\ s.at # "hashing"
    BY <2>2 DEF SoundHandler, Holds, W!Idle
  <2>4. QED
    BY <1>2, <2>2, <2>3, QuietMove DEF W!Hashed
<1>3. QED
  BY <1>1, <1>2

\* The two statements of the transaction: each reserves the name where it was free.
LEMMA InsertsKeep ==
  ASSUME W!ConstantsOK, AccountsInv, NEW c \in Clients, W!InsertUser(c) \/ W!InsertAccount(c)
  PROVE  AccountsInv' /\ W!PasswordsKept
<1>. DEFINE r == handler[c]
<1>1. Requested(r) /\ r.at \in {"creating", "inserted"} /\ r.role = "user" /\ UNCHANGED <<backend, users, accounts, bcrypt>>
  BY DEF AccountsInv, SoundHandler, W!InsertUser, W!InsertAccount, W!Idle, Requested
<1>2. SoundHandler(W!Idle) /\ ~Holds(W!Idle) /\ W!Idle.at # "hashing"
  BY DEF SoundHandler, Holds, W!Idle
<1>3. CASE W!Moves(c, W!Idle)
  BY <1>1, <1>2, <1>3, QuietMove
<1>4. ASSUME NEW s, W!Moves(c, s), s.at \in {"inserted", "ready"}, s = [r EXCEPT !.at = s.at],
             backend = "postgres", s.name \notin DOMAIN users,
             \A d \in Clients \ {c} : ~W!AddsUser(d, s.name), s.at = "ready" => s.name \notin DOMAIN accounts
      PROVE  AccountsInv' /\ W!PasswordsKept
  <2>1. SoundHandler(s) /\ s.at # "hashing" /\ s.name = r.name
    BY <1>1, <1>4 DEF SoundHandler, Requested
  <2>2. SlotsSound'
    BY <1>1, <1>4, <2>1, SlotMoves DEF AccountsInv
  <2>3. handler'[c] = s /\ (\A d \in Clients \ {c} : handler'[d] = handler[d])
    BY <1>4, Move DEF AccountsInv
  <2>4. Reserved'
    <3>1. SUFFICES ASSUME NEW d \in Clients, Holds(handler'[d])
                   PROVE  /\ backend' = "postgres" /\ handler'[d].name \notin DOMAIN users'
                          /\ \A e \in Clients \ {d} : Holds(handler'[e]) => handler'[e].name # handler'[d].name
                          /\ handler'[d].at = "ready" => handler'[d].name \notin DOMAIN accounts'
      BY DEF Reserved, Holds
    <3>2. CASE d = c
      BY <1>1, <1>4, <2>3, <3>2 DEF Holds, W!AddsUser
    <3>3. CASE d # c
      <4>1. handler'[d] = handler[d] /\ Holds(handler[d]) /\ handler[d].name # s.name
        BY <1>4, <2>3, <3>1, <3>3 DEF Holds, W!AddsUser
      <4>2. QED
        BY <1>1, <2>3, <4>1 DEF Reserved, AccountsInv
    <3>4. QED
      BY <3>2, <3>3
  <2>5. RowsSound' /\ W!PasswordsKept
    BY <1>1, RowsStay DEF AccountsInv
  <2>6. QED
    BY <1>4, <2>1, <2>2, <2>4, <2>5, HandlerMoves DEF AccountsInv
<1>5. CASE W!InsertUser(c) /\ ~W!Moves(c, W!Idle)
  <2>. DEFINE s == [r EXCEPT !.at = "inserted"]
  <2>1. W!Moves(c, s) /\ backend = "postgres" /\ r.name \notin DOMAIN users
        /\ \A d \in Clients \ {c} : ~W!AddsUser(d, r.name)
    BY <1>5 DEF W!InsertUser, W!UserConflict
  <2>2. s.at = "inserted" /\ s.name = r.name /\ s = [r EXCEPT !.at = s.at]
    BY <1>1 DEF Requested
  <2>. HIDE DEF s
  <2>3. QED
    BY <1>4, <2>1, <2>2
<1>6. CASE W!InsertAccount(c) /\ ~W!Moves(c, W!Idle)
  <2>. DEFINE s == [r EXCEPT !.at = "ready"]
  <2>1. W!Moves(c, s) /\ r.at = "inserted" /\ r.name \notin DOMAIN accounts
    BY <1>6 DEF W!InsertAccount, W!AccountConflict
  <2>2. s.at = "ready" /\ s.name = r.name /\ s = [r EXCEPT !.at = s.at]
    BY <1>1 DEF Requested
  <2>3. backend = "postgres" /\ r.name \notin DOMAIN users /\ \A d \in Clients \ {c} : ~W!AddsUser(d, r.name)
    BY <2>1 DEF AccountsInv, Reserved, Holds, W!AddsUser
  <2>. HIDE DEF s
  <2>4. QED
    BY <1>4, <2>1, <2>2, <2>3
<1>7. QED
  BY <1>3, <1>5, <1>6

\* The row of a new account.
LEMMA NewAccountRow ==
  ASSUME NEW role \in {"user", "admin"}, NEW by \in {"register", "console", "bootstrap"},
         NEW password \in Passwords, 0 \in 0 .. MaxVersion
  PROVE  [role |-> role, by |-> by, password |-> password, version |-> 0, enabled |-> TRUE]
           \in [role : {"user", "admin"}, by : W!Origins, password : Passwords,
                version : 0 .. MaxVersion, enabled : BOOLEAN]
BY DEF W!Origins

\* A row that is changed keeps its role and who made it; another password has another version.
LEMMA ChangedRow ==
  ASSUME NEW Bys, NEW r, MaxVersion \in Nat, NEW p \in Passwords, NEW on \in BOOLEAN,
         r \in [role : {"user", "admin"}, by : Bys, password : Passwords, version : 0 .. MaxVersion, enabled : BOOLEAN],
         r.version < MaxVersion,
         NEW q, \/ q = [r EXCEPT !.enabled = on, !.version = IF on THEN r.version ELSE r.version + 1]
                \/ q = [r EXCEPT !.password = p, !.version = r.version + 1]
  PROVE  /\ q \in [role : {"user", "admin"}, by : Bys, password : Passwords,
                   version : 0 .. MaxVersion, enabled : BOOLEAN]
         /\ q.role = r.role /\ q.by = r.by /\ (q.password # r.password => q.version > r.version)
<1>1. r.version + 1 \in 0 .. MaxVersion /\ r.version \in 0 .. MaxVersion
  OBVIOUS
<1>2. CASE q = [r EXCEPT !.enabled = on, !.version = IF on THEN r.version ELSE r.version + 1]
  BY <1>1, <1>2
<1>3. CASE q = [r EXCEPT !.password = p, !.version = r.version + 1]
  <2>1. q \in [role : {"user", "admin"}, by : Bys, password : Passwords, version : 0 .. MaxVersion, enabled : BOOLEAN]
    BY <1>1, <1>3
  <2>2. q.role = r.role /\ q.by = r.by /\ q.version = r.version + 1
    BY <1>3
  <2>3. QED
    BY <1>1, <2>1, <2>2
<1>4. QED
  BY <1>2, <1>3

\* An account with its user's row, both new.
LEMMA BothRows ==
  ASSUME RowsSound, NEW r, Requested(r), r.role = "user", r.name \notin DOMAIN users, r.name \notin DOMAIN accounts,
         users' = W!WithUser(r.name, r.balance, r.by), accounts' = W!WithAccount(r), W!ConstantsOK
  PROVE  RowsSound' /\ W!PasswordsKept
         /\ DOMAIN users' = DOMAIN users \cup {r.name} /\ DOMAIN accounts' = DOMAIN accounts \cup {r.name}
<1>1. /\ DOMAIN users' = DOMAIN users \cup {r.name} /\ users'[r.name] = [opening |-> r.balance, by |-> r.by]
      /\ \A n \in DOMAIN users : users'[n] = users[n]
  BY DEF W!WithUser
<1>2. /\ DOMAIN accounts' = DOMAIN accounts \cup {r.name}
      /\ accounts'[r.name] = [role |-> "user", by |-> r.by, password |-> r.password, version |-> 0, enabled |-> TRUE]
      /\ \A n \in DOMAIN accounts : accounts'[n] = accounts[n]
  BY DEF W!WithAccount
<1>3. r.name \in Names /\ r.by \in {"register", "console"} /\ r.password \in Passwords /\ r.balance \in Balances \cup {0}
      /\ (r.by = "register" => r.balance = 0) /\ 0 \in 0 .. MaxVersion
  BY DEF Requested, W!ConstantsOK
<1>4. W!TypeOK'
  <2>1. ASSUME NEW n \in DOMAIN users'
        PROVE  n \in Names /\ users'[n] \in [opening : Balances \cup {0}, by : W!Origins]
    BY <1>1, <1>2, <1>3, <2>1 DEF RowsSound, W!TypeOK, W!Origins
  <2>2. ASSUME NEW n \in DOMAIN accounts'
        PROVE  /\ n \in Names
               /\ accounts'[n] \in [role : {"user", "admin"}, by : W!Origins, password : Passwords,
                                   version : 0 .. MaxVersion, enabled : BOOLEAN]
               /\ accounts'[n].by = "bootstrap" => accounts'[n].role = "admin"
               /\ accounts'[n].by = "register" => accounts'[n].role = "user"
    <3>1. CASE n \in DOMAIN accounts
      BY <1>2, <3>1 DEF RowsSound, W!TypeOK
    <3>2. CASE n = r.name
      <4>1. accounts'[n] = [role |-> "user", by |-> r.by, password |-> r.password, version |-> 0, enabled |-> TRUE]
            /\ n \in Names /\ r.by \in {"register", "console", "bootstrap"} /\ r.password \in Passwords
            /\ 0 \in 0 .. MaxVersion
        BY <1>2, <1>3, <3>2
      <4>2. accounts'[n] \in [role : {"user", "admin"}, by : W!Origins, password : Passwords,
                              version : 0 .. MaxVersion, enabled : BOOLEAN]
        BY <4>1, NewAccountRow
      <4>3. accounts'[n].by = r.by /\ accounts'[n].role = "user"
        BY <4>1
      <4>4. QED
        BY <1>2, <1>3, <4>1, <4>2, <4>3
    <3>3. QED
      BY <1>2, <2>2, <3>1, <3>2
  <2>3. QED
    BY <2>1, <2>2 DEF W!TypeOK
<1>5. W!MadeTogether'
  BY <1>1, <1>2, <1>3 DEF RowsSound, W!MadeTogether
<1>6. W!NoFreeCredit'
  BY <1>1, <1>3 DEF RowsSound, W!NoFreeCredit
<1>7. QED
  BY <1>1, <1>2, <1>4, <1>5, <1>6 DEF RowsSound, W!PasswordsKept

\* An administrator's row.
LEMMA AdminRow ==
  ASSUME RowsSound, NEW r, Requested(r), r.role = "admin", r.name \notin DOMAIN accounts,
         users' = users, accounts' = W!WithAccount(r), W!ConstantsOK
  PROVE  RowsSound' /\ W!PasswordsKept /\ DOMAIN accounts' = DOMAIN accounts \cup {r.name}
<1>1. /\ DOMAIN accounts' = DOMAIN accounts \cup {r.name}
      /\ accounts'[r.name] = [role |-> "admin", by |-> r.by, password |-> r.password, version |-> 0, enabled |-> TRUE]
      /\ \A n \in DOMAIN accounts : accounts'[n] = accounts[n]
  BY DEF W!WithAccount
<1>2. r.name \in Names /\ r.by \in {"console", "bootstrap"} /\ r.password \in Passwords /\ 0 \in 0 .. MaxVersion
  BY DEF Requested, W!ConstantsOK
<1>3. W!TypeOK'
  <2>1. ASSUME NEW n \in DOMAIN users'
        PROVE  n \in Names /\ users'[n] \in [opening : Balances \cup {0}, by : W!Origins]
    BY <2>1 DEF RowsSound, W!TypeOK
  <2>2. ASSUME NEW n \in DOMAIN accounts'
        PROVE  /\ n \in Names
               /\ accounts'[n] \in [role : {"user", "admin"}, by : W!Origins, password : Passwords,
                                   version : 0 .. MaxVersion, enabled : BOOLEAN]
               /\ accounts'[n].by = "bootstrap" => accounts'[n].role = "admin"
               /\ accounts'[n].by = "register" => accounts'[n].role = "user"
    <3>1. CASE n \in DOMAIN accounts
      BY <1>1, <3>1 DEF RowsSound, W!TypeOK
    <3>2. CASE n = r.name
      <4>1. accounts'[n] = [role |-> "admin", by |-> r.by, password |-> r.password, version |-> 0, enabled |-> TRUE]
            /\ n \in Names /\ r.by \in {"register", "console", "bootstrap"} /\ r.password \in Passwords
            /\ 0 \in 0 .. MaxVersion
        BY <1>1, <1>2, <3>2
      <4>2. accounts'[n] \in [role : {"user", "admin"}, by : W!Origins, password : Passwords,
                              version : 0 .. MaxVersion, enabled : BOOLEAN]
        BY <4>1, NewAccountRow
      <4>3. accounts'[n].by = r.by /\ accounts'[n].role = "admin"
        BY <4>1
      <4>4. QED
        BY <1>1, <1>2, <4>1, <4>2, <4>3
    <3>3. QED
      BY <1>1, <2>2, <3>1, <3>2
  <2>3. QED
    BY <2>1, <2>2 DEF W!TypeOK
<1>4. W!MadeTogether' /\ W!NoFreeCredit'
  BY <1>1 DEF RowsSound, W!MadeTogether, W!NoFreeCredit
<1>5. QED
  BY <1>1, <1>3, <1>4 DEF RowsSound, W!PasswordsKept

\* The store at work for one handler.
LEMMA StoresKeep ==
  ASSUME W!ConstantsOK, AccountsInv, NEW c \in Clients,
         W!EndTransaction(c) \/ W!CreateAccount(c) \/ W!CreateUserAccount(c)
  PROVE  AccountsInv' /\ W!PasswordsKept
<1>. DEFINE r == handler[c]
<1>1. /\ Requested(r) /\ r.at # "hashing" /\ UNCHANGED <<backend, bcrypt>> /\ W!Moves(c, W!Idle)
  BY DEF AccountsInv, SoundHandler, W!EndTransaction, W!CreateAccount, W!CreateUserAccount, W!Idle, Requested
<1>2. SoundHandler(W!Idle) /\ ~Holds(W!Idle) /\ W!Idle.at # "hashing"
  BY DEF SoundHandler, Holds, W!Idle
<1>3. CASE UNCHANGED <<users, accounts>>
  BY <1>1, <1>2, <1>3, QuietMove
<1>4. SlotsSound' /\ DOMAIN handler' = Clients /\ \A d \in Clients : SoundHandler(handler'[d])
  BY <1>1, <1>2, SlotMoves, HandlerMoves DEF AccountsInv
<1>5. CASE W!EndTransaction(c) /\ ~UNCHANGED <<users, accounts>>
  <2>1. /\ r.at = "ready" /\ users' = W!WithUser(r.name, r.balance, r.by) /\ accounts' = W!WithAccount(r)
    BY <1>5 DEF W!EndTransaction
  <2>2. r.role = "user" /\ r.name \notin DOMAIN users /\ r.name \notin DOMAIN accounts /\ Holds(r)
    BY <1>1, <2>1 DEF AccountsInv, Reserved, Holds, Requested
  <2>3. RowsSound' /\ W!PasswordsKept
        /\ DOMAIN users' = DOMAIN users \cup {r.name} /\ DOMAIN accounts' = DOMAIN accounts \cup {r.name}
    BY <1>1, <2>1, <2>2, BothRows DEF AccountsInv
  <2>4. Reserved'
    BY <1>1, <1>2, <2>2, <2>3, ReservedMoves DEF AccountsInv
  <2>5. QED
    BY <1>4, <2>3, <2>4 DEF AccountsInv
<1>6. CASE W!CreateUserAccount(c) /\ ~UNCHANGED <<users, accounts>>
  <2>1. /\ backend = "memory" /\ r.role = "user" /\ r.name \notin DOMAIN users /\ r.name \notin DOMAIN accounts
        /\ users' = W!WithUser(r.name, r.balance, r.by) /\ accounts' = W!WithAccount(r)
    BY <1>6 DEF W!CreateUserAccount, W!UserConflict, W!AccountConflict
  <2>2. RowsSound' /\ W!PasswordsKept
    BY <1>1, <2>1, BothRows DEF AccountsInv
  <2>3. Reserved'
    BY <1>1, <1>2, <2>1, ReservedMoves DEF AccountsInv
  <2>4. QED
    BY <1>4, <2>2, <2>3 DEF AccountsInv
<1>7. CASE W!CreateAccount(c) /\ ~UNCHANGED <<users, accounts>>
  <2>1. /\ r.role = "admin" /\ r.name \notin DOMAIN accounts /\ users' = users /\ accounts' = W!WithAccount(r)
        /\ \A d \in Clients : ~W!AddsAccount(d, r.name)
    BY <1>7 DEF W!CreateAccount, W!AccountConflict
  <2>2. RowsSound' /\ W!PasswordsKept /\ DOMAIN accounts' = DOMAIN accounts \cup {r.name}
    BY <1>1, <2>1, AdminRow DEF AccountsInv
  <2>3. Reserved'
    BY <1>1, <1>2, <2>1, <2>2, ReservedMoves DEF AccountsInv
  <2>4. QED
    BY <1>4, <2>2, <2>3 DEF AccountsInv
<1>8. QED
  BY <1>3, <1>5, <1>6, <1>7

\* The administration, which adds no user where a transaction is adding it.
LEMMA AdministrationKeeps ==
  ASSUME W!ConstantsOK, AccountsInv, W!Administrate
  PROVE  AccountsInv' /\ W!PasswordsKept
<1>1. UNCHANGED <<backend, bcrypt, handler>>
  BY DEF W!Administrate
<1>2. SlotsSound' /\ DOMAIN handler' = Clients /\ \A d \in Clients : SoundHandler(handler'[d])
  BY <1>1 DEF AccountsInv, SlotsSound, Hashing
<1>3. ASSUME NEW n \in Names, NEW balance \in Balances, W!createUser(n, balance)
      PROVE  AccountsInv' /\ W!PasswordsKept
  <2>1. /\ n \notin DOMAIN users /\ DOMAIN users' = DOMAIN users \cup {n}
        /\ users'[n] = [opening |-> balance, by |-> "billing"] /\ \A m \in DOMAIN users : users'[m] = users[m]
        /\ accounts' = accounts /\ \A c \in Clients : ~W!AddsUser(c, n)
    BY <1>3 DEF W!createUser, W!UserConflict, W!WithUser
  <2>2. RowsSound'
    <3>1. W!TypeOK'
      BY <1>3, <2>1 DEF AccountsInv, RowsSound, W!TypeOK, W!Origins
    <3>2. W!MadeTogether' /\ W!NoFreeCredit'
      BY <2>1 DEF AccountsInv, RowsSound, W!MadeTogether, W!NoFreeCredit
    <3>3. QED
      BY <3>1, <3>2 DEF RowsSound
  <2>3. Reserved'
    BY <1>1, <2>1 DEF AccountsInv, Reserved, Holds, W!AddsUser
  <2>4. QED
    BY <1>2, <2>1, <2>2, <2>3 DEF AccountsInv, W!PasswordsKept
<1>4. ASSUME NEW n \in DOMAIN accounts, W!ChangeAccount(n)
      PROVE  AccountsInv' /\ W!PasswordsKept
  <2>1. /\ accounts[n] \in [role : {"user", "admin"}, by : W!Origins, password : Passwords,
                            version : 0 .. MaxVersion, enabled : BOOLEAN]
        /\ accounts[n].version < MaxVersion /\ MaxVersion \in Nat
    BY <1>4 DEF AccountsInv, RowsSound, W!TypeOK, W!ChangeAccount, W!ConstantsOK
  <2>2. /\ DOMAIN accounts' = DOMAIN accounts /\ \A m \in DOMAIN accounts \ {n} : accounts'[m] = accounts[m]
        /\ users' = users
    BY <1>4 DEF W!ChangeAccount
  <2>3. \/ \E on \in BOOLEAN :
             accounts'[n] = [accounts[n] EXCEPT !.enabled = on,
                               !.version = IF on THEN accounts[n].version ELSE accounts[n].version + 1]
        \/ \E p \in Passwords : accounts'[n] = [accounts[n] EXCEPT !.password = p, !.version = accounts[n].version + 1]
    BY <1>4 DEF W!ChangeAccount
  <2>4. /\ accounts'[n] \in [role : {"user", "admin"}, by : W!Origins, password : Passwords,
                             version : 0 .. MaxVersion, enabled : BOOLEAN]
        /\ accounts'[n].role = accounts[n].role /\ accounts'[n].by = accounts[n].by
        /\ (accounts'[n].password # accounts[n].password => accounts'[n].version > accounts[n].version)
    <3>1. CASE \E on \in BOOLEAN :
                 accounts'[n] = [accounts[n] EXCEPT !.enabled = on,
                                   !.version = IF on THEN accounts[n].version ELSE accounts[n].version + 1]
      <4>1. accounts[n].password \in Passwords
        BY <2>1
      <4>2. PICK on \in BOOLEAN :
               accounts'[n] = [accounts[n] EXCEPT !.enabled = on,
                                 !.version = IF on THEN accounts[n].version ELSE accounts[n].version + 1]
        BY <3>1
      <4>. DEFINE r == accounts[n]
                  q == accounts'[n]
                  Bys == W!Origins
      <4>3. r \in [role : {"user", "admin"}, by : Bys, password : Passwords, version : 0 .. MaxVersion, enabled : BOOLEAN]
            /\ q = [r EXCEPT !.enabled = on, !.version = IF on THEN r.version ELSE r.version + 1]
            /\ r.version < MaxVersion /\ MaxVersion \in Nat /\ r.password \in Passwords
        BY <2>1, <4>1, <4>2
      <4>. HIDE DEF r, q, Bys
      <4>4. /\ q \in [role : {"user", "admin"}, by : Bys, password : Passwords,
                      version : 0 .. MaxVersion, enabled : BOOLEAN]
            /\ q.role = r.role /\ q.by = r.by /\ (q.password # r.password => q.version > r.version)
        BY <4>3, ChangedRow
      <4>5. QED
        BY <4>4 DEF q, r, Bys
    <3>2. CASE \E p \in Passwords :
                 accounts'[n] = [accounts[n] EXCEPT !.password = p, !.version = accounts[n].version + 1]
      <4>1. PICK p \in Passwords :
               accounts'[n] = [accounts[n] EXCEPT !.password = p, !.version = accounts[n].version + 1]
        BY <3>2
      <4>. DEFINE r == accounts[n]
                  q == accounts'[n]
                  Bys == W!Origins
      <4>2. r \in [role : {"user", "admin"}, by : Bys, password : Passwords, version : 0 .. MaxVersion, enabled : BOOLEAN]
            /\ q = [r EXCEPT !.password = p, !.version = r.version + 1]
            /\ r.version < MaxVersion /\ MaxVersion \in Nat
        BY <2>1, <4>1
      <4>. HIDE DEF r, q, Bys
      <4>3. /\ q \in [role : {"user", "admin"}, by : Bys, password : Passwords,
                      version : 0 .. MaxVersion, enabled : BOOLEAN]
            /\ q.role = r.role /\ q.by = r.by /\ (q.password # r.password => q.version > r.version)
        BY <4>2, ChangedRow
      <4>4. QED
        BY <4>3 DEF q, r, Bys
    <3>3. QED
      BY <2>3, <3>1, <3>2
  <2>5. W!TypeOK'
    BY <2>2, <2>4 DEF AccountsInv, RowsSound, W!TypeOK
  <2>6. W!MadeTogether' /\ W!NoFreeCredit'
    BY <2>2, <2>4 DEF AccountsInv, RowsSound, W!MadeTogether, W!NoFreeCredit
  <2>7. Reserved'
    BY <1>1, <2>2 DEF AccountsInv, Reserved, Holds
  <2>8. W!PasswordsKept
    BY <2>2, <2>4 DEF W!PasswordsKept
  <2>9. QED
    BY <1>2, <2>5, <2>6, <2>7, <2>8 DEF AccountsInv, RowsSound
<1>5. ASSUME NEW open \in BOOLEAN, W!putSettings(open)
      PROVE  AccountsInv' /\ W!PasswordsKept
  <2>1. UNCHANGED <<users, accounts>>
    BY <1>5 DEF W!putSettings
  <2>2. Reserved'
    BY <1>1, <2>1 DEF AccountsInv, Reserved, Holds
  <2>3. QED
    BY <1>2, <2>1, <2>2, RowsStay DEF AccountsInv
<1>6. QED
  BY <1>3, <1>4, <1>5 DEF W!Administrate

\* Every step keeps the invariant, and the passwords.
LEMMA AccountsStep ==
  ASSUME W!ConstantsOK, AccountsInv, [W!Next]_(W!vars)
  PROVE  AccountsInv' /\ [W!PasswordsKept]_(W!vars)
<1>1. ASSUME NEW c \in Clients, W!ClientStep(c) PROVE AccountsInv' /\ W!PasswordsKept
  <2>1. CASE \E n \in Names, p \in Passwords : W!register(c, n, p) \/ W!createAccount(c, n, p)
    BY <2>1, AsksKeep
  <2>2. CASE W!login(c) \/ W!Hashed(c)
    BY <2>2, QuietAsks
  <2>3. CASE \E p \in Passwords : W!bootstrapAdmin(c, p)
    BY <2>3, AsksKeep DEF W!ConstantsOK
  <2>4. CASE W!InsertUser(c) \/ W!InsertAccount(c)
    BY <2>4, InsertsKeep
  <2>5. CASE W!EndTransaction(c) \/ W!CreateAccount(c) \/ W!CreateUserAccount(c)
    BY <2>5, StoresKeep
  <2>6. QED
    BY <1>1, <2>1, <2>2, <2>3, <2>4, <2>5 DEF W!ClientStep
<1>2. CASE UNCHANGED W!vars
  BY <1>2 DEF W!vars, AccountsInv, RowsSound, W!TypeOK, W!MadeTogether, W!NoFreeCredit, Reserved, Holds, SlotsSound, Hashing
<1>3. QED
  BY <1>1, <1>2, AdministrationKeeps DEF W!Next

\* The invariant holds at first.
LEMMA AccountsStart == ASSUME W!ConstantsOK, W!Init PROVE AccountsInv
<1>1. DOMAIN handler = Clients /\ (\A c \in Clients : handler[c] = W!Idle) /\ DOMAIN users = {} /\ DOMAIN accounts = {}
      /\ bcrypt = 0
  BY DEF W!Init
<1>2. Hashing = {} /\ Reserved
  BY <1>1 DEF Hashing, Reserved, Holds, W!Idle
<1>3. SlotsSound
  BY <1>1, <1>2, FS_EmptySet DEF SlotsSound, W!ConstantsOK
<1>4. RowsSound
  BY <1>1 DEF RowsSound, W!TypeOK, W!MadeTogether, W!NoFreeCredit
<1>5. QED
  BY <1>1, <1>2, <1>3, <1>4 DEF AccountsInv, SoundHandler

\* However registrations, the console, starts and transactions interleave, an account and its user are
\* made together, nobody who registers is given money, the slots of bcrypt are given back, and an
\* account keeps its password unless its version grows (account/postgres.go, auth_handlers.go).
THEOREM AccountsAreSound == ASSUME W!ConstantsOK PROVE W!Spec => W!AccountsSound /\ []W!TypeOK
<1>1. W!Init => AccountsInv
  BY AccountsStart
<1>2. AccountsInv /\ [W!Next]_(W!vars) => AccountsInv' /\ [W!PasswordsKept]_(W!vars)
  BY AccountsStep
<1>3. AccountsInv => W!MadeTogether /\ W!NoFreeCredit /\ W!BcryptReturns /\ W!TypeOK
  BY SameFiniteSets DEF AccountsInv, RowsSound, SlotsSound, Hashing, W!BcryptReturns
<1>4. QED
  BY <1>1, <1>2, <1>3, PTL DEF W!Spec, W!AccountsSound, W!AccountsKept

-----------------------------------------------------------------------------
(* Keys.                                                                   *)

\* A call that is creating a key.
Creating(c)  == caller[c].at \in {"waits", "locked"}
\* Those that may still insert a row for a user, having counted fewer than the cap.
Promised(u)  == { c \in Clients : Creating(c) /\ caller[c].user = u /\ K!Room(caller[c].count) }
\* The calls that resolve a key.
Resolving    == { c \in Clients : caller[c].at = "resolving" }

\* The table of keys has its type, and a secret is used once.
TableTyped ==
  /\ DOMAIN keys \subseteq used /\ used \subseteq Secrets /\ IsFiniteSet(DOMAIN keys)
  /\ \A k \in DOMAIN keys : keys[k] \in [user : Users, enabled : BOOLEAN, self : BOOLEAN]

\* What a call knows: the user and the count of a creation, the key and its owner of a change.
SoundCall(s) ==
  /\ "at" \in DOMAIN s
  /\ s.at \in {"waits", "locked"} =>
       /\ store = "postgres" /\ s.user \in Users /\ s.count \in Nat
       /\ {"user", "count"} \subseteq DOMAIN s
  /\ s.at = "owns" =>
       /\ s.user \in Users /\ s.key \in used
       /\ s.key \in DOMAIN keys => keys[s.key].user = s.user

\* A lock is held by the call that is past it.
LocksSound ==
  \A u \in Users, c \in Clients : lock[u] = c <=> (caller[c].at = "locked" /\ caller[c].user = u)

\* Keys made and keys that statements under way may still make.
PromisesKept ==
  \A u \in Users :
    Cardinality(K!SelfMade(u)) + Cardinality(Promised(u)) <= MaxKeys - 1 + Cardinality(Clients)

\* The gate counts the calls that resolve.
GateSound == gate = Cardinality(Resolving) /\ gate <= GateSize

\* The inductive invariant of the keys.
KeysInv ==
  /\ store \in {"postgres", "memory"} /\ enabled \subseteq Users
  /\ DOMAIN caller = Clients /\ DOMAIN lock = Users
  /\ TableTyped
  /\ \A c \in Clients : SoundCall(caller[c])
  /\ LocksSound /\ PromisesKept /\ K!MemoryCapped /\ GateSound

\* A user's keys can be counted.
LEMMA Counts ==
  ASSUME K!ConstantsOK, TableTyped, NEW u
  PROVE  /\ IsFiniteSet(K!Owned(keys, u)) /\ Cardinality(K!Owned(keys, u)) \in Nat
         /\ IsFiniteSet(K!SelfMade(u)) /\ Cardinality(K!SelfMade(u)) \in Nat
         /\ Cardinality(K!SelfMade(u)) <= Cardinality(K!Owned(keys, u))
<1>1. K!Owned(keys, u) \subseteq DOMAIN keys /\ K!SelfMade(u) \subseteq K!Owned(keys, u)
  BY DEF K!Owned, K!SelfMade
<1>2. IsFiniteSet(K!Owned(keys, u)) /\ IsFiniteSet(K!SelfMade(u))
  BY <1>1, FS_Subset DEF TableTyped
<1>3. QED
  BY <1>1, <1>2, FS_Subset, FS_CardinalityType

\* Clients can be counted, and so can any set of them.
LEMMA Bounds ==
  ASSUME K!ConstantsOK
  PROVE  /\ MaxKeys \in Nat \ {0} /\ GateSize \in Nat /\ NoOne \notin Clients
         /\ IsFiniteSet(Clients) /\ Cardinality(Clients) \in Nat
         /\ \A X \in SUBSET Clients : /\ IsFiniteSet(X) /\ Cardinality(X) \in Nat
                                      /\ Cardinality(X) <= Cardinality(Clients)
<1>1. IsFiniteSet(Clients)
  BY SameFiniteSets DEF K!ConstantsOK
<1>2. \A X \in SUBSET Clients : IsFiniteSet(X) /\ Cardinality(X) <= Cardinality(Clients)
  BY <1>1, FS_Subset
<1>3. QED
  BY <1>1, <1>2, FS_CardinalityType DEF K!ConstantsOK

\* Nothing is promised, or made, that was not before.
LEMMA NoMore ==
  ASSUME K!ConstantsOK, TableTyped, PromisesKept, NEW u \in Users,
         K!SelfMade(u)' \subseteq K!SelfMade(u), Promised(u)' \subseteq Promised(u)
  PROVE  /\ Cardinality(K!SelfMade(u)') + Cardinality(Promised(u)') <= MaxKeys - 1 + Cardinality(Clients)
         /\ Cardinality(K!SelfMade(u)') <= Cardinality(K!SelfMade(u))
<1>1. IsFiniteSet(K!SelfMade(u)) /\ Cardinality(K!SelfMade(u)) \in Nat
  BY Counts
<1>2. IsFiniteSet(Promised(u)) /\ Cardinality(Promised(u)) \in Nat
  BY Bounds DEF Promised
<1>3. IsFiniteSet(K!SelfMade(u)') /\ Cardinality(K!SelfMade(u)') <= Cardinality(K!SelfMade(u))
  BY <1>1, FS_Subset
<1>4. IsFiniteSet(Promised(u)') /\ Cardinality(Promised(u)') <= Cardinality(Promised(u))
  BY <1>2, FS_Subset
<1>5. Cardinality(K!SelfMade(u)') \in Nat /\ Cardinality(Promised(u)') \in Nat
  BY <1>3, <1>4, FS_CardinalityType
<1>6. QED
  BY <1>1, <1>2, <1>3, <1>4, <1>5, Bounds DEF PromisesKept

\* One request moves, the others stay.
LEMMA OneMoves ==
  ASSUME DOMAIN caller = Clients, NEW c \in Clients, NEW state, K!Moves(c, state)
  PROVE  /\ DOMAIN caller' = Clients /\ caller'[c] = state
         /\ \A d \in Clients \ {c} : caller'[d] = caller[d]
         /\ \A u : Promised(u)' \ {c} = Promised(u) \ {c}
         /\ Resolving' \ {c} = Resolving \ {c}
<1>1. /\ DOMAIN caller' = Clients /\ caller'[c] = state
      /\ \A d \in Clients \ {c} : caller'[d] = caller[d]
  BY DEF K!Moves
<1>2. QED
  BY <1>1 DEF Promised, Creating, Resolving, K!Room

\* The gate after a step of one request.
LEMMA GateMoves ==
  ASSUME K!ConstantsOK, GateSound, DOMAIN caller = Clients, NEW c \in Clients, NEW state, K!Moves(c, state),
         \/ gate' = gate /\ (caller[c].at = "resolving" <=> state.at = "resolving")
         \/ gate' = gate + 1 /\ caller[c].at # "resolving" /\ state.at = "resolving" /\ gate < GateSize
         \/ gate' = gate - 1 /\ caller[c].at = "resolving" /\ state.at # "resolving"
  PROVE  GateSound'
<1>1. caller'[c] = state /\ Resolving' \ {c} = Resolving \ {c}
  BY OneMoves
<1>2. IsFiniteSet(Resolving) /\ Cardinality(Resolving) \in Nat /\ GateSize \in Nat
  BY Bounds DEF Resolving
<1>3. CASE gate' = gate /\ (caller[c].at = "resolving" <=> state.at = "resolving")
  <2>1. Resolving' = Resolving
    BY <1>1, <1>3 DEF Resolving
  <2>2. QED
    BY <1>3, <2>1 DEF GateSound
<1>4. CASE gate' = gate + 1 /\ caller[c].at # "resolving" /\ state.at = "resolving" /\ gate < GateSize
  <2>1. Resolving' = Resolving \cup {c} /\ c \notin Resolving
    BY <1>1, <1>4 DEF Resolving
  <2>2. Cardinality(Resolving \cup {c}) = Cardinality(Resolving) + 1
    BY <1>2, <2>1, FS_AddElement
  <2>3. QED
    BY <1>2, <1>4, <2>1, <2>2 DEF GateSound
<1>5. CASE gate' = gate - 1 /\ caller[c].at = "resolving" /\ state.at # "resolving"
  <2>1. Resolving' = Resolving \ {c} /\ c \in Resolving
    BY <1>1, <1>5 DEF Resolving
  <2>2. Cardinality(Resolving \ {c}) = Cardinality(Resolving) - 1
    BY <1>2, <2>1, FS_RemoveElement
  <2>3. QED
    BY <1>2, <1>5, <2>1, <2>2 DEF GateSound
<1>6. QED
  BY <1>3, <1>4, <1>5

\* A step of one request that leaves the table and the locks alone.
LEMMA CallMoves ==
  ASSUME K!ConstantsOK, KeysInv, NEW c \in Clients, NEW state, K!Moves(c, state), SoundCall(state),
         UNCHANGED <<store, keys, used, enabled, lock>>, GateSound',
         caller[c].at # "locked", state.at \notin {"waits", "locked"}
  PROVE  KeysInv' /\ K!ChangesOwn
<1>1. /\ DOMAIN caller' = Clients /\ caller'[c] = state
      /\ \A d \in Clients \ {c} : caller'[d] = caller[d]
      /\ \A u : Promised(u)' \ {c} = Promised(u) \ {c}
  BY OneMoves DEF KeysInv
<1>2. \A u \in Users : K!SelfMade(u)' = K!SelfMade(u) /\ Promised(u)' \subseteq Promised(u)
  BY <1>1 DEF K!SelfMade, K!Owned, Promised, Creating
<1>3. PromisesKept'
  <2>1. ASSUME NEW u \in Users
        PROVE  Cardinality(K!SelfMade(u)') + Cardinality(Promised(u)') <= MaxKeys - 1 + Cardinality(Clients)
    BY <1>2, NoMore DEF KeysInv
  <2>2. QED
    BY <2>1 DEF PromisesKept
<1>4. K!MemoryCapped'
  BY <1>2 DEF KeysInv, K!MemoryCapped, K!KeysCapped
<1>5. LocksSound'
  BY <1>1 DEF KeysInv, LocksSound
<1>6. \A d \in Clients : SoundCall(caller[d])'
  BY <1>1 DEF KeysInv, SoundCall
<1>7. K!ChangesOwn
  BY DEF K!ChangesOwn
<1>8. QED
  BY <1>1, <1>3, <1>4, <1>5, <1>6, <1>7 DEF KeysInv, TableTyped

\* A new row of a user who may have it.
LEMMA Inserted ==
  ASSUME KeysInv, NEW k \in Secrets, NEW u \in Users, NEW self \in BOOLEAN, K!Insert(k, u, self)
  PROVE  /\ TableTyped'
         /\ \A v : K!SelfMade(v)' = IF v = u /\ self THEN K!SelfMade(v) \cup {k} ELSE K!SelfMade(v)
         /\ k \notin DOMAIN keys /\ used \subseteq used'
         /\ DOMAIN keys' = DOMAIN keys \cup {k} /\ \A j \in DOMAIN keys : keys'[j] = keys[j]
<1>1. /\ k \notin used /\ k \notin DOMAIN keys /\ used' = used \cup {k}
      /\ DOMAIN keys' = DOMAIN keys \cup {k} /\ keys'[k] = [user |-> u, enabled |-> TRUE, self |-> self]
      /\ \A j \in DOMAIN keys : keys'[j] = keys[j]
  BY DEF KeysInv, TableTyped, K!Insert
<1>2. TableTyped'
  <2>1. IsFiniteSet(DOMAIN keys')
    BY <1>1, FS_AddElement DEF KeysInv, TableTyped
  <2>2. \A j \in DOMAIN keys' : keys'[j] \in [user : Users, enabled : BOOLEAN, self : BOOLEAN]
    <3>1. [user |-> u, enabled |-> TRUE, self |-> self] \in [user : Users, enabled : BOOLEAN, self : BOOLEAN]
      OBVIOUS
    <3>2. QED
      BY <1>1, <3>1 DEF KeysInv, TableTyped
  <2>3. QED
    BY <1>1, <2>1, <2>2 DEF KeysInv, TableTyped
<1>3. ASSUME NEW v
      PROVE  K!SelfMade(v)' = IF v = u /\ self THEN K!SelfMade(v) \cup {k} ELSE K!SelfMade(v)
  BY <1>1 DEF K!SelfMade, K!Owned
<1>4. QED
  BY <1>1, <1>2, <1>3

\* Calls of other requests are not disturbed by a new row, which is not one they looked for.
LEMMA CallsAfterInsert ==
  ASSUME KeysInv, NEW k \in Secrets, NEW u \in Users, NEW self \in BOOLEAN, K!Insert(k, u, self),
         UNCHANGED store
  PROVE  \A s : SoundCall(s) => SoundCall(s)'
<1>1. /\ k \notin used /\ DOMAIN keys' = DOMAIN keys \cup {k} /\ used' = used \cup {k}
      /\ \A j \in DOMAIN keys : keys'[j] = keys[j]
  BY DEF KeysInv, TableTyped, K!Insert
<1>2. QED
  BY <1>1 DEF SoundCall

\* A creation counts before it takes the lock: it promises a key if there is room.
LEMMA BeginKeeps ==
  ASSUME K!ConstantsOK, KeysInv, NEW c \in Clients, NEW u \in Users, K!BeginCreate(c, u), UNCHANGED store
  PROVE  KeysInv' /\ K!ChangesOwn
<1>. DEFINE n == Cardinality(K!Owned(keys, u))
            state == [at |-> "waits", user |-> u, count |-> n]
<1>0. /\ K!Moves(c, state) /\ UNCHANGED <<keys, enabled, lock, gate, used>>
      /\ store = "postgres" /\ caller[c].at = "idle"
  BY SameFiniteSets DEF K!BeginCreate, K!Idle
<1>1. /\ DOMAIN caller' = Clients /\ caller'[c] = state
      /\ \A d \in Clients \ {c} : caller'[d] = caller[d]
      /\ \A v : Promised(v)' \ {c} = Promised(v) \ {c}
  BY <1>0, OneMoves DEF KeysInv
<1>2. \A v \in Users : K!SelfMade(v)' = K!SelfMade(v)
  BY <1>0 DEF K!SelfMade, K!Owned
<1>3. n \in Nat /\ \A v : Cardinality(K!SelfMade(v)) \in Nat
      /\ Cardinality(K!SelfMade(u)) <= n
  BY Counts DEF KeysInv
<1>4. PromisesKept'
  <2>1. ASSUME NEW v \in Users
        PROVE  Cardinality(K!SelfMade(v)') + Cardinality(Promised(v)') <= MaxKeys - 1 + Cardinality(Clients)
    <3>1. CASE v = u /\ n < MaxKeys
      <4>1. Promised(v)' \subseteq Clients
        BY DEF Promised
      <4>2. Cardinality(Promised(v)') \in Nat /\ Cardinality(Promised(v)') <= Cardinality(Clients)
        BY <4>1, Bounds
      <4>3. QED
        BY <1>2, <1>3, <3>1, <4>2, Bounds
    <3>2. CASE ~(v = u /\ n < MaxKeys)
      <4>1. c \notin Promised(v)'
        BY <1>1, <3>2 DEF Promised, K!Room
      <4>2. Promised(v)' \subseteq Promised(v)
        BY <1>1, <4>1
      <4>3. QED
        BY <1>2, <4>2, NoMore DEF KeysInv
    <3>3. QED
      BY <3>1, <3>2
  <2>2. QED
    BY <2>1 DEF PromisesKept
<1>5. K!MemoryCapped'
  BY <1>0, <1>2 DEF KeysInv, K!MemoryCapped, K!KeysCapped
<1>6. LocksSound'
  BY <1>0, <1>1 DEF KeysInv, LocksSound
<1>7. \A d \in Clients : SoundCall(caller[d])'
  BY <1>0, <1>1, <1>3 DEF KeysInv, SoundCall
<1>8. GateSound'
  BY <1>0, GateMoves DEF KeysInv
<1>9. QED
  BY <1>0, <1>1, <1>4, <1>5, <1>6, <1>7, <1>8 DEF KeysInv, TableTyped, K!ChangesOwn

\* The lock.
LEMMA AcquireKeeps ==
  ASSUME K!ConstantsOK, KeysInv, NEW c \in Clients, K!AcquireLock(c), UNCHANGED store
  PROVE  KeysInv' /\ K!ChangesOwn
<1>. DEFINE u == caller[c].user
            state == [caller[c] EXCEPT !.at = "locked"]
<1>0. /\ K!Moves(c, state) /\ UNCHANGED <<keys, enabled, gate, used>> /\ u \in Users
      /\ lock' = [lock EXCEPT ![u] = c] /\ lock[u] = NoOne
      /\ caller[c].at = "waits" /\ {"at", "user", "count"} \subseteq DOMAIN caller[c]
  BY DEF K!AcquireLock, KeysInv, SoundCall
<1>1. /\ state.at = "locked" /\ state.user = u /\ state.count = caller[c].count /\ DOMAIN state = DOMAIN caller[c]
  BY <1>0
<1>2. /\ DOMAIN caller' = Clients /\ caller'[c] = state
      /\ \A d \in Clients \ {c} : caller'[d] = caller[d]
      /\ \A v : Promised(v)' \ {c} = Promised(v) \ {c}
  BY <1>0, OneMoves DEF KeysInv
<1>3. \A v \in Users : K!SelfMade(v)' = K!SelfMade(v)
  BY <1>0 DEF K!SelfMade, K!Owned
<1>4. \A v \in Users : Promised(v)' \subseteq Promised(v)
  BY <1>0, <1>1, <1>2 DEF Promised, Creating, K!Room
<1>5. PromisesKept'
  <2>1. ASSUME NEW v \in Users
        PROVE  Cardinality(K!SelfMade(v)') + Cardinality(Promised(v)') <= MaxKeys - 1 + Cardinality(Clients)
    BY <1>3, <1>4, NoMore DEF KeysInv
  <2>2. QED
    BY <2>1 DEF PromisesKept
<1>6. K!MemoryCapped'
  BY <1>0, <1>3 DEF KeysInv, K!MemoryCapped, K!KeysCapped
<1>7. LocksSound'
  <2>1. DOMAIN lock' = Users /\ lock'[u] = c /\ \A v \in Users \ {u} : lock'[v] = lock[v]
    BY <1>0 DEF KeysInv
  <2>2. \A d \in Clients : ~(caller[d].at = "locked" /\ caller[d].user = u)
    BY <1>0, Bounds DEF KeysInv, LocksSound
  <2>3. QED
    BY <1>0, <1>1, <1>2, <2>1, <2>2 DEF KeysInv, LocksSound
<1>8. \A d \in Clients : SoundCall(caller[d])'
  BY <1>0, <1>1, <1>2 DEF KeysInv, SoundCall
<1>9. GateSound'
  BY <1>0, <1>1, GateMoves DEF KeysInv
<1>10. QED
  BY <1>0, <1>2, <1>5, <1>6, <1>7, <1>8, <1>9 DEF KeysInv, TableTyped, K!ChangesOwn

\* A statement has its lock until its end.
LEMMA Unlocked ==
  ASSUME K!ConstantsOK, KeysInv, NEW c \in Clients, K!Moves(c, K!Idle),
         \/ /\ caller[c].at = "locked" /\ lock' = [lock EXCEPT ![caller[c].user] = NoOne]
         \/ lock' = [u \in Users |-> IF lock[u] = c THEN NoOne ELSE lock[u]]
  PROVE  DOMAIN lock' = Users /\ LocksSound'
<1>1. /\ DOMAIN caller' = Clients /\ caller'[c] = K!Idle
      /\ \A d \in Clients \ {c} : caller'[d] = caller[d]
  BY OneMoves DEF KeysInv
<1>2. DOMAIN lock' = Users
  BY DEF KeysInv
<1>3. ASSUME NEW u \in Users, NEW d \in Clients
      PROVE  lock'[u] = d <=> (caller'[d].at = "locked" /\ caller'[d].user = u)
  <2>1. CASE d = c
    BY <1>1, <2>1, Bounds DEF KeysInv, LocksSound, K!Idle
  <2>2. CASE d # c
    BY <1>1, <2>2, Bounds DEF KeysInv, LocksSound
  <2>3. QED
    BY <2>1, <2>2
<1>4. QED
  BY <1>2, <1>3 DEF LocksSound

\* A promise that is kept is one key more and one promise less.
LEMMA CommitKeeps ==
  ASSUME K!ConstantsOK, KeysInv, NEW c \in Clients, K!CommitCreate(c), UNCHANGED store
  PROVE  KeysInv' /\ K!ChangesOwn
<1>u. PICK u \in Users : u = caller[c].user
  BY DEF K!CommitCreate, KeysInv, SoundCall
<1>0. /\ K!Moves(c, K!Idle) /\ UNCHANGED <<enabled, gate>> /\ u = caller[c].user
      /\ lock' = [lock EXCEPT ![u] = NoOne] /\ caller[c].at = "locked" /\ store = "postgres"
  BY <1>u DEF K!CommitCreate, KeysInv, SoundCall
<1>1. /\ DOMAIN caller' = Clients /\ caller'[c] = K!Idle
      /\ \A d \in Clients \ {c} : caller'[d] = caller[d]
      /\ \A v : Promised(v)' \ {c} = Promised(v) \ {c}
  BY <1>0, OneMoves DEF KeysInv
<1>2. DOMAIN lock' = Users /\ LocksSound'
  BY <1>0, Unlocked
<1>3. GateSound'
  BY <1>0, GateMoves DEF KeysInv, K!Idle
<1>4. \A v : Promised(v)' = Promised(v) \ {c}
  BY <1>1 DEF Promised, Creating, K!Idle
<1>5. K!MemoryCapped'
  BY <1>0 DEF K!MemoryCapped
<1>6. CASE K!Room(caller[c].count)
  <2>1. PICK k \in Secrets : K!Insert(k, u, TRUE)
    BY <1>0, <1>6 DEF K!CommitCreate
  <2>2. /\ TableTyped'
        /\ \A v : K!SelfMade(v)' = IF v = u THEN K!SelfMade(v) \cup {k} ELSE K!SelfMade(v)
        /\ k \notin DOMAIN keys /\ used \subseteq used'
        /\ DOMAIN keys' = DOMAIN keys \cup {k} /\ \A j \in DOMAIN keys : keys'[j] = keys[j]
    BY <1>0, <2>1, Inserted
  <2>3. \A d \in Clients : SoundCall(caller[d])'
    <3>1. \A s : SoundCall(s) => SoundCall(s)'
      BY <1>0, <2>1, CallsAfterInsert
    <3>2. SoundCall(K!Idle)'
      BY DEF SoundCall, K!Idle
    <3>3. QED
      BY <1>1, <3>1, <3>2 DEF KeysInv
  <2>4. PromisesKept'
    <3>1. ASSUME NEW v \in Users
          PROVE  Cardinality(K!SelfMade(v)') + Cardinality(Promised(v)') <= MaxKeys - 1 + Cardinality(Clients)
      <4>1. CASE v = u
        <5>1. c \in Promised(u) /\ k \notin K!SelfMade(u)
          BY <1>0, <1>6, <2>2 DEF Promised, Creating, K!SelfMade, K!Owned
        <5>2. Cardinality(Promised(u)') = Cardinality(Promised(u)) - 1
          <6>1. IsFiniteSet(Promised(u))
            BY Bounds DEF Promised
          <6>2. Cardinality(Promised(u) \ {c}) = Cardinality(Promised(u)) - 1
            BY <5>1, <6>1, FS_RemoveElement
          <6>3. QED
            BY <1>4, <6>2
        <5>3. Cardinality(K!SelfMade(u)') = Cardinality(K!SelfMade(u)) + 1
          <6>1. Cardinality(K!SelfMade(u) \cup {k}) = Cardinality(K!SelfMade(u)) + 1
            BY <5>1, Counts, FS_AddElement DEF KeysInv
          <6>2. QED
            BY <2>2, <6>1
        <5>4. Cardinality(K!SelfMade(u)) \in Nat /\ Cardinality(Promised(u)) \in Nat
          BY Counts, Bounds DEF KeysInv, Promised
        <5>5. Cardinality(K!SelfMade(u)) + Cardinality(Promised(u)) <= MaxKeys - 1 + Cardinality(Clients)
          BY <1>0 DEF KeysInv, PromisesKept
        <5>6. QED
          BY <4>1, <5>2, <5>3, <5>4, <5>5, Bounds
      <4>2. CASE v # u
        <5>1. K!SelfMade(v)' \subseteq K!SelfMade(v) /\ Promised(v)' \subseteq Promised(v)
          BY <1>4, <2>2, <4>2
        <5>2. QED
          BY <5>1, NoMore DEF KeysInv
      <4>3. QED
        BY <4>1, <4>2
    <3>2. QED
      BY <3>1 DEF PromisesKept
  <2>5. K!ChangesOwn
    BY <2>2 DEF K!ChangesOwn
  <2>6. QED
    BY <1>0, <1>1, <1>2, <1>3, <1>5, <2>2, <2>3, <2>4, <2>5 DEF KeysInv
<1>7. CASE ~K!Room(caller[c].count)
  <2>1. UNCHANGED <<keys, used>>
    BY <1>7 DEF K!CommitCreate
  <2>2. PromisesKept'
    <3>1. ASSUME NEW v \in Users
          PROVE  Cardinality(K!SelfMade(v)') + Cardinality(Promised(v)') <= MaxKeys - 1 + Cardinality(Clients)
      <4>1. K!SelfMade(v)' \subseteq K!SelfMade(v) /\ Promised(v)' \subseteq Promised(v)
        BY <1>4, <2>1 DEF K!SelfMade, K!Owned
      <4>2. QED
        BY <4>1, NoMore DEF KeysInv
    <3>2. QED
      BY <3>1 DEF PromisesKept
  <2>3. \A d \in Clients : SoundCall(caller[d])'
    BY <1>0, <1>1, <2>1 DEF KeysInv, SoundCall, K!Idle
  <2>4. QED
    BY <1>0, <1>1, <1>2, <1>3, <1>5, <2>1, <2>2, <2>3 DEF KeysInv, TableTyped, K!ChangesOwn
<1>8. QED
  BY <1>6, <1>7

\* A creation that fails promises nothing any more, and holds no lock.
LEMMA CreateFailsKeeps ==
  ASSUME K!ConstantsOK, KeysInv, NEW c \in Clients, K!CreateFails(c), UNCHANGED store
  PROVE  KeysInv' /\ K!ChangesOwn
<1>0. /\ K!Moves(c, K!Idle) /\ UNCHANGED <<keys, enabled, gate, used>>
      /\ lock' = [u \in Users |-> IF lock[u] = c THEN NoOne ELSE lock[u]]
      /\ caller[c].at \in {"waits", "locked"} /\ store = "postgres"
  BY DEF K!CreateFails, KeysInv, SoundCall
<1>1. /\ DOMAIN caller' = Clients /\ caller'[c] = K!Idle
      /\ \A d \in Clients \ {c} : caller'[d] = caller[d]
      /\ \A v : Promised(v)' \ {c} = Promised(v) \ {c}
  BY <1>0, OneMoves DEF KeysInv
<1>2. DOMAIN lock' = Users /\ LocksSound'
  BY <1>0, Unlocked
<1>3. GateSound'
  BY <1>0, GateMoves DEF KeysInv, K!Idle
<1>4. PromisesKept'
  <2>1. ASSUME NEW v \in Users
        PROVE  Cardinality(K!SelfMade(v)') + Cardinality(Promised(v)') <= MaxKeys - 1 + Cardinality(Clients)
    <3>1. K!SelfMade(v)' \subseteq K!SelfMade(v) /\ Promised(v)' \subseteq Promised(v)
      BY <1>0, <1>1 DEF K!SelfMade, K!Owned, Promised, Creating, K!Idle
    <3>2. QED
      BY <3>1, NoMore DEF KeysInv
  <2>2. QED
    BY <2>1 DEF PromisesKept
<1>5. \A d \in Clients : SoundCall(caller[d])'
  BY <1>0, <1>1 DEF KeysInv, SoundCall, K!Idle
<1>6. QED
  BY <1>0, <1>1, <1>2, <1>3, <1>4, <1>5 DEF KeysInv, TableTyped, K!MemoryCapped, K!ChangesOwn

\* In memory the count and the row are one step.
LEMMA LimitedKeeps ==
  ASSUME K!ConstantsOK, KeysInv, NEW c \in Clients, NEW u \in Users, K!AdminCreateKeyLimited(c, u), UNCHANGED store
  PROVE  KeysInv' /\ K!ChangesOwn
<1>0. /\ UNCHANGED <<enabled, lock, caller, gate>> /\ store = "memory"
      /\ Cardinality(K!Owned(keys, u)) < MaxKeys
  BY SameFiniteSets DEF K!AdminCreateKeyLimited, K!Room
<1>1. PICK k \in Secrets : K!Insert(k, u, TRUE)
  BY DEF K!AdminCreateKeyLimited
<1>2. /\ TableTyped'
      /\ \A v : K!SelfMade(v)' = IF v = u THEN K!SelfMade(v) \cup {k} ELSE K!SelfMade(v)
      /\ k \notin DOMAIN keys
      /\ DOMAIN keys' = DOMAIN keys \cup {k} /\ \A j \in DOMAIN keys : keys'[j] = keys[j]
  BY <1>1, Inserted
<1>3. \A d \in Clients : SoundCall(caller[d])'
  BY <1>0, <1>1, CallsAfterInsert DEF KeysInv
<1>4. \A v : Promised(v) = {} /\ Promised(v)' = {}
  BY <1>0 DEF KeysInv, SoundCall, Promised, Creating
<1>5. /\ Cardinality(K!SelfMade(u)) < MaxKeys /\ Cardinality(K!SelfMade(u)) \in Nat
      /\ IsFiniteSet(K!SelfMade(u))
  BY <1>0, Counts, Bounds DEF KeysInv
<1>6. Cardinality(K!SelfMade(u)') <= MaxKeys /\ Cardinality(K!SelfMade(u)') \in Nat
  <2>1. k \notin K!SelfMade(u)
    BY <1>2 DEF K!SelfMade, K!Owned
  <2>2. Cardinality(K!SelfMade(u) \cup {k}) = Cardinality(K!SelfMade(u)) + 1
    BY <1>5, <2>1, FS_AddElement
  <2>3. QED
    <3>1. K!SelfMade(u)' = K!SelfMade(u) \cup {k}
      BY <1>2
    <3>2. QED
      BY <1>5, <2>2, <3>1, Bounds
<1>7. \A v \in Users : Cardinality(K!SelfMade(v)) <= MaxKeys
  BY <1>0, SameFiniteSets DEF KeysInv, K!MemoryCapped, K!KeysCapped
<1>8. K!MemoryCapped'
  BY <1>2, <1>6, <1>7, SameFiniteSets DEF K!MemoryCapped, K!KeysCapped
<1>9. PromisesKept'
  <2>1. Cardinality(Clients) >= 1
    BY Bounds, FS_EmptySet
  <2>2. \A v : Cardinality(Promised(v)') = 0
    BY <1>4, FS_EmptySet
  <2>3. ASSUME NEW v \in Users PROVE Cardinality(K!SelfMade(v)') <= MaxKeys /\ Cardinality(K!SelfMade(v)') \in Nat
    BY <1>2, <1>6, <1>7, Counts DEF KeysInv
  <2>4. QED
    BY <2>1, <2>2, <2>3, Bounds DEF PromisesKept
<1>10. GateSound' /\ LocksSound'
  BY <1>0 DEF KeysInv, GateSound, Resolving, LocksSound
<1>11. QED
  BY <1>0, <1>2, <1>3, <1>8, <1>9, <1>10 DEF KeysInv, K!ChangesOwn

\* A key switched on or off, or deleted.
LEMMA Altered ==
  ASSUME KeysInv, NEW k, NEW on \in BOOLEAN, K!SetAPIKeyEnabled(k, on) \/ K!DeleteAPIKey(k), UNCHANGED <<used, store>>
  PROVE  /\ TableTyped' /\ \A v : K!SelfMade(v)' \subseteq K!SelfMade(v)
         /\ \A s : SoundCall(s) => SoundCall(s)'
         /\ \A j \in DOMAIN keys \ {k} : j \in DOMAIN keys' /\ keys'[j] = keys[j]
<1>1. /\ DOMAIN keys' \subseteq DOMAIN keys
      /\ \A j \in DOMAIN keys \ {k} : j \in DOMAIN keys' /\ keys'[j] = keys[j]
  BY DEF K!SetAPIKeyEnabled, K!DeleteAPIKey, K!Restrict, Restrict
<1>2. ASSUME NEW j \in DOMAIN keys'
      PROVE  /\ keys'[j] \in [user : Users, enabled : BOOLEAN, self : BOOLEAN]
             /\ keys'[j].user = keys[j].user /\ keys'[j].self = keys[j].self
  <2>1. keys[j] \in [user : Users, enabled : BOOLEAN, self : BOOLEAN]
    BY <1>1, <1>2 DEF KeysInv, TableTyped
  <2>2. keys'[j] = keys[j] \/ keys'[j] = [keys[j] EXCEPT !.enabled = on]
    BY <1>1, <1>2 DEF K!SetAPIKeyEnabled, K!DeleteAPIKey, K!Restrict, Restrict
  <2>3. QED
    BY <2>1, <2>2
<1>3. TableTyped'
  <2>1. IsFiniteSet(DOMAIN keys')
    BY <1>1, FS_Subset DEF KeysInv, TableTyped
  <2>2. QED
    BY <1>1, <1>2, <2>1 DEF KeysInv, TableTyped
<1>4. \A v : K!SelfMade(v)' \subseteq K!SelfMade(v)
  BY <1>1, <1>2 DEF K!SelfMade, K!Owned
<1>5. \A s : SoundCall(s) => SoundCall(s)'
  BY <1>1, <1>2 DEF SoundCall
<1>6. QED
  BY <1>1, <1>3, <1>4, <1>5

\* A change of a key whose owner was looked up before.
LEMMA ChangeKeyKeeps ==
  ASSUME K!ConstantsOK, KeysInv, NEW c \in Clients, K!ChangeKey(c), UNCHANGED store
  PROVE  KeysInv' /\ K!ChangesOwn
<1>k. PICK k : k = caller[c].key
  OBVIOUS
<1>0. /\ K!Moves(c, K!Idle) /\ UNCHANGED <<enabled, lock, gate, used>> /\ caller[c].at = "owns"
  BY DEF K!ChangeKey
<1>1. PICK on \in BOOLEAN : K!SetAPIKeyEnabled(k, on) \/ K!DeleteAPIKey(k)
  BY <1>k DEF K!ChangeKey
<1>2. /\ TableTyped' /\ \A v : K!SelfMade(v)' \subseteq K!SelfMade(v)
      /\ \A s : SoundCall(s) => SoundCall(s)'
      /\ \A j \in DOMAIN keys \ {k} : j \in DOMAIN keys' /\ keys'[j] = keys[j]
  BY <1>0, <1>1, Altered
<1>3. /\ DOMAIN caller' = Clients /\ caller'[c] = K!Idle
      /\ \A d \in Clients \ {c} : caller'[d] = caller[d]
      /\ \A v : Promised(v)' \ {c} = Promised(v) \ {c}
  BY <1>0, OneMoves DEF KeysInv
<1>4. \A d \in Clients : SoundCall(caller[d])'
  <2>1. SoundCall(K!Idle)'
    BY DEF SoundCall, K!Idle
  <2>2. QED
    BY <1>2, <1>3, <2>1 DEF KeysInv
<1>5. PromisesKept' /\ K!MemoryCapped'
  <2>1. ASSUME NEW v \in Users
        PROVE  /\ Cardinality(K!SelfMade(v)') + Cardinality(Promised(v)') <= MaxKeys - 1 + Cardinality(Clients)
               /\ Cardinality(K!SelfMade(v)') <= Cardinality(K!SelfMade(v))
               /\ Cardinality(K!SelfMade(v)) \in Nat /\ Cardinality(K!SelfMade(v)') \in Nat
    <3>1. Promised(v)' \subseteq Promised(v)
      BY <1>3 DEF Promised, Creating, K!Idle
    <3>2. IsFiniteSet(K!SelfMade(v)) /\ Cardinality(K!SelfMade(v)) \in Nat
      BY Counts DEF KeysInv
    <3>3. Cardinality(K!SelfMade(v)') \in Nat
      BY <1>2, <3>2, FS_Subset, FS_CardinalityType
    <3>4. QED
      BY <1>2, <3>1, <3>2, <3>3, NoMore DEF KeysInv
  <2>2. K!MemoryCapped'
    BY <2>1, Bounds, SameFiniteSets DEF KeysInv, K!MemoryCapped, K!KeysCapped
  <2>3. QED
    BY <2>1, <2>2 DEF PromisesKept
<1>6. LocksSound'
  BY <1>0, <1>3 DEF KeysInv, LocksSound, K!Idle
<1>7. GateSound'
  BY <1>0, GateMoves DEF KeysInv, K!Idle
<1>8. K!ChangesOwn
  <2>1. SUFFICES ASSUME NEW d \in Clients, NEW j \in DOMAIN keys, caller[d].at = "owns", caller'[d] = K!Idle,
                        j \notin K!Owned(keys, caller[d].user)
                 PROVE  j \in DOMAIN keys' /\ keys'[j] = keys[j]
    BY DEF K!ChangesOwn
  <2>2. d = c
    BY <1>3, <2>1 DEF K!Idle
  <2>3. j # k
    BY <1>k, <1>0, <2>1, <2>2 DEF KeysInv, SoundCall, K!Owned
  <2>4. QED
    BY <1>2, <2>1, <2>3
<1>9. QED
  BY <1>0, <1>2, <1>3, <1>4, <1>5, <1>6, <1>7, <1>8 DEF KeysInv

\* The administration.
LEMMA AdministrateKeeps ==
  ASSUME K!ConstantsOK, KeysInv, K!Administrate, UNCHANGED store
  PROVE  KeysInv' /\ K!ChangesOwn
<1>0. UNCHANGED <<lock, caller, gate>>
  BY DEF K!Administrate
<1>1. \A v : Promised(v)' = Promised(v)
  BY <1>0 DEF Promised, Creating, K!Room
<1>2. ASSUME TableTyped', \A v \in Users : K!SelfMade(v)' \subseteq K!SelfMade(v),
             \A s : SoundCall(s) => SoundCall(s)', enabled' \subseteq Users
      PROVE  KeysInv' /\ K!ChangesOwn
  <2>1. ASSUME NEW v \in Users
        PROVE  /\ Cardinality(K!SelfMade(v)') + Cardinality(Promised(v)') <= MaxKeys - 1 + Cardinality(Clients)
               /\ Cardinality(K!SelfMade(v)') <= Cardinality(K!SelfMade(v))
               /\ Cardinality(K!SelfMade(v)) \in Nat /\ Cardinality(K!SelfMade(v)') \in Nat
    <3>1. IsFiniteSet(K!SelfMade(v)) /\ Cardinality(K!SelfMade(v)) \in Nat
      BY Counts DEF KeysInv
    <3>2. Cardinality(K!SelfMade(v)') \in Nat
      BY <1>2, <3>1, FS_Subset, FS_CardinalityType
    <3>3. QED
      BY <1>1, <1>2, <3>1, <3>2, NoMore DEF KeysInv
  <2>2. K!MemoryCapped'
    BY <2>1, Bounds, SameFiniteSets DEF KeysInv, K!MemoryCapped, K!KeysCapped
  <2>3. PromisesKept'
    BY <2>1 DEF PromisesKept
  <2>4. LocksSound' /\ GateSound'
    BY <1>0 DEF KeysInv, LocksSound, GateSound, Resolving
  <2>5. K!ChangesOwn
    BY <1>0 DEF K!ChangesOwn, K!Idle
  <2>6. QED
    BY <1>0, <1>2, <2>2, <2>3, <2>4, <2>5 DEF KeysInv
<1>3. ASSUME NEW u \in Users, NEW k \in Secrets, K!Insert(k, u, FALSE), UNCHANGED enabled
      PROVE  KeysInv' /\ K!ChangesOwn
  <2>1. /\ TableTyped' /\ \A v : K!SelfMade(v)' = K!SelfMade(v)
    BY <1>3, Inserted
  <2>2. \A s : SoundCall(s) => SoundCall(s)'
    BY <1>3, CallsAfterInsert
  <2>3. QED
    BY <1>2, <1>3, <2>1, <2>2 DEF KeysInv
<1>4. ASSUME NEW k \in DOMAIN keys, NEW on \in BOOLEAN, K!SetAPIKeyEnabled(k, on), UNCHANGED <<enabled, used>>
      PROVE  KeysInv' /\ K!ChangesOwn
  BY <1>2, <1>4, Altered DEF KeysInv
<1>5. ASSUME NEW u \in Users, enabled' \in {enabled \cup {u}, enabled \ {u}}, UNCHANGED <<keys, used>>
      PROVE  KeysInv' /\ K!ChangesOwn
  <2>1. TableTyped' /\ \A v : K!SelfMade(v)' = K!SelfMade(v)
    BY <1>5 DEF KeysInv, TableTyped, K!SelfMade, K!Owned
  <2>2. \A s : SoundCall(s) => SoundCall(s)'
    BY <1>5 DEF SoundCall
  <2>3. QED
    BY <1>2, <1>5, <2>1, <2>2 DEF KeysInv
<1>6. QED
  BY <1>3, <1>4, <1>5 DEF K!Administrate

\* Every step keeps the invariant, and changes nothing of another user.
LEMMA KeysStep ==
  ASSUME K!ConstantsOK, KeysInv, [K!Next]_(K!vars)
  PROVE  KeysInv' /\ [K!ChangesOwn]_(K!vars)
<1>1. ASSUME NEW c \in Clients, K!ClientStep(c), UNCHANGED store PROVE KeysInv' /\ K!ChangesOwn
  <2>1. ASSUME NEW u \in Users, K!BeginCreate(c, u) PROVE KeysInv' /\ K!ChangesOwn
    BY <1>1, <2>1, BeginKeeps
  <2>2. ASSUME NEW u \in Users, K!AdminCreateKeyLimited(c, u) PROVE KeysInv' /\ K!ChangesOwn
    BY <1>1, <2>2, LimitedKeeps
  <2>3. CASE K!AcquireLock(c)
    BY <1>1, <2>3, AcquireKeeps
  <2>4. CASE K!CommitCreate(c)
    BY <1>1, <2>4, CommitKeeps
  <2>5. CASE K!CreateFails(c)
    BY <1>1, <2>5, CreateFailsKeeps
  <2>6. ASSUME NEW u \in Users, NEW k \in Secrets, K!FindKey(c, u, k) PROVE KeysInv' /\ K!ChangesOwn
    <3>. DEFINE state == [at |-> "owns", user |-> u, key |-> k]
    <3>1. /\ K!Moves(c, state) /\ UNCHANGED <<keys, enabled, lock, gate, used>>
          /\ caller[c].at = "idle" /\ k \in DOMAIN keys /\ keys[k].user = u
      BY <2>6 DEF K!FindKey, K!ownedKey, K!Owned, K!Idle
    <3>2. SoundCall(state)
      BY <3>1 DEF SoundCall, KeysInv, TableTyped
    <3>3. GateSound'
      BY <3>1, GateMoves DEF KeysInv
    <3>4. QED
      BY <1>1, <3>1, <3>2, <3>3, CallMoves
  <2>7. CASE K!ChangeKey(c)
    BY <1>1, <2>7, ChangeKeyKeeps
  <2>8. ASSUME NEW k \in Secrets, K!Authenticate(c, k) PROVE KeysInv' /\ K!ChangesOwn
    <3>. DEFINE state == [at |-> "resolving", key |-> k]
    <3>1. /\ K!Moves(c, state) /\ UNCHANGED <<keys, enabled, lock, used>>
          /\ caller[c].at = "idle" /\ gate' = gate + 1 /\ gate < GateSize
      BY <2>8 DEF K!Authenticate, K!Idle
    <3>2. SoundCall(state)
      BY DEF SoundCall
    <3>3. GateSound'
      BY <3>1, GateMoves DEF KeysInv
    <3>4. QED
      BY <1>1, <3>1, <3>2, <3>3, CallMoves
  <2>9. CASE K!ResolveKey(c)
    <3>1. /\ UNCHANGED <<keys, enabled, lock, used>> /\ caller[c].at = "resolving" /\ gate' = gate - 1
      BY <2>9 DEF K!ResolveKey
    <3>2. PICK state : K!Moves(c, state) /\ SoundCall(state) /\ state.at \in {"identified", "idle"}
      BY <2>9 DEF K!ResolveKey, K!Idle, SoundCall
    <3>3. GateSound'
      BY <3>1, <3>2, GateMoves DEF KeysInv
    <3>4. QED
      BY <1>1, <3>1, <3>2, <3>3, CallMoves
  <2>10. CASE K!Serve(c)
    <3>1. /\ K!Moves(c, K!Idle) /\ UNCHANGED <<keys, enabled, lock, gate, used>> /\ caller[c].at = "identified"
      BY <2>10 DEF K!Serve
    <3>2. SoundCall(K!Idle) /\ K!Idle.at = "idle"
      BY DEF SoundCall, K!Idle
    <3>3. GateSound'
      BY <3>1, <3>2, GateMoves DEF KeysInv
    <3>4. QED
      BY <1>1, <3>1, <3>2, <3>3, CallMoves
  <2>11. QED
    BY <1>1, <2>1, <2>2, <2>3, <2>4, <2>5, <2>6, <2>7, <2>8, <2>9, <2>10 DEF K!ClientStep
<1>2. CASE UNCHANGED K!vars
  <2>1. UNCHANGED <<store, keys, enabled, lock, caller, gate, used>>
    BY <1>2 DEF K!vars
  <2>2. \A v : K!SelfMade(v)' = K!SelfMade(v) /\ Promised(v)' = Promised(v)
    BY <2>1 DEF K!SelfMade, K!Owned, Promised, Creating, K!Room
  <2>3. QED
    BY <1>2, <2>1, <2>2 DEF KeysInv, TableTyped, SoundCall, LocksSound, PromisesKept, K!MemoryCapped,
                            K!KeysCapped, GateSound, Resolving
<1>3. QED
  BY <1>1, <1>2, AdministrateKeeps DEF K!Next

\* The invariant holds at first.
LEMMA KeysStart == ASSUME K!ConstantsOK, K!Init PROVE KeysInv
<1>1. /\ DOMAIN keys = {} /\ \A v : K!SelfMade(v) = {} /\ Promised(v) = {}
      /\ Resolving = {}
  BY DEF K!Init, K!SelfMade, K!Owned, Promised, Creating, Resolving, K!Idle
<1>2. Cardinality({}) = 0 /\ IsFiniteSet({})
  BY FS_EmptySet
<1>3. PromisesKept /\ K!MemoryCapped
  <2>1. \A v : Cardinality(K!SelfMade(v)) = 0 /\ Cardinality(Promised(v)) = 0
    BY <1>1, <1>2
  <2>2. QED
    BY <2>1, Bounds, SameFiniteSets DEF PromisesKept, K!MemoryCapped, K!KeysCapped
<1>4. TableTyped /\ GateSound
  BY <1>1, <1>2, Bounds DEF K!Init, TableTyped, GateSound
<1>5. LocksSound /\ \A c \in Clients : SoundCall(caller[c])
  BY Bounds DEF K!Init, K!Idle, LocksSound, SoundCall
<1>6. QED
  BY <1>3, <1>4, <1>5 DEF KeysInv, K!Init

\* In PostgreSQL a user never has more keys than the cap and one less than the calls that create at a
\* time, in memory never more than the cap; who is not an administrator changes only keys of his own,
\* and the gate of key resolution is given back (store/postgres.go, store/memory.go, auth.go).
THEOREM KeysAreSound == ASSUME K!ConstantsOK PROVE K!Spec => K!KeysSound /\ []K!TypeOK
<1>1. K!Init => KeysInv
  BY KeysStart
<1>2. KeysInv /\ [K!Next]_(K!vars) => KeysInv' /\ [K!ChangesOwn]_(K!vars)
  BY KeysStep
<1>3. KeysInv => K!OverrunBounded /\ K!MemoryCapped /\ K!GateReturns /\ K!TypeOK
  <2>. SUFFICES ASSUME KeysInv PROVE K!OverrunBounded /\ K!MemoryCapped /\ K!GateReturns /\ K!TypeOK
    OBVIOUS
  <2>1. K!OverrunBounded
    <3>1. ASSUME NEW u \in Users PROVE Cardinality(K!SelfMade(u)) <= MaxKeys - 1 + Cardinality(Clients)
      <4>1. Cardinality(K!SelfMade(u)) \in Nat /\ Cardinality(Promised(u)) \in Nat
        BY Counts, Bounds DEF KeysInv, Promised
      <4>2. QED
        BY <4>1, Bounds DEF KeysInv, PromisesKept
    <3>2. QED
      BY <3>1, SameFiniteSets DEF K!OverrunBounded
  <2>2. K!GateReturns
    BY SameFiniteSets DEF KeysInv, GateSound, Resolving, K!GateReturns
  <2>3. K!TypeOK
    BY DEF KeysInv, TableTyped, LocksSound, K!TypeOK
  <2>4. QED
    BY <2>1, <2>2, <2>3 DEF KeysInv
<1>4. QED
  BY <1>1, <1>2, <1>3, PTL DEF K!Spec, K!KeysSound, K!OwnKeysOnly

-----------------------------------------------------------------------------
(* Limits.                                                                 *)

\* Rows of buckets: a time to be forgotten that has not come is a full Ttl after the last question.
BucketOK(b) ==
  /\ bucket[b] \in [tokens : 0 .. Full(b), ts : 0 .. now, expires : Nat]
  /\ bucket[b].expires <= now \/ bucket[b].expires = bucket[b].ts + Ttl(b)

\* What was granted since the i-th request and what is left in the bucket now were there then
\* or have been filled in since: a bucket that is forgotten does not gain by it.
SpanOK(b) ==
  /\ grants[b] \in Seq(0 .. now)
  /\ \A i \in DOMAIN grants[b] :
       (Len(grants[b]) - i + 1) * Minute + Refilled(b, now) <= Full(b) + (now - grants[b][i]) * PerMin[b]

\* RateHeld for one bucket.
RateOf(b) ==
  \A i, j \in DOMAIN grants[b] :
    i <= j => (j - i + 1) * Minute <= Full(b) + (grants[b][j] - grants[b][i]) * PerMin[b]

\* The part of the invariant about the buckets.
BucketsInv ==
  /\ now \in 0 .. MaxTime
  /\ DOMAIN bucket = Buckets /\ DOMAIN grants = Buckets
  /\ \A b \in Buckets : BucketOK(b) /\ SpanOK(b) /\ RateOf(b)
  /\ RetryHonest

\* The inductive invariant of the limits.
LimitsInv == BucketsInv /\ client \in [Clients -> {Idle} \cup [at : {"key"}, key : Keys]]

-----------------------------------------------------------------------------
(* Arithmetic.                                                             *)

\* Division that rounds up leaves nothing over.
LEMMA RoundedUp ==
  ASSUME NEW p \in Nat \ {0}, NEW a \in Nat
  PROVE  LET q == (a + p - 1) \div p IN q \in Nat /\ q * p >= a /\ (a > 0 => q > 0)
<1>. DEFINE q == (a + p - 1) \div p
<1>1. q \in Nat /\ a + p - 1 < p * q + p
  OBVIOUS
<1>. HIDE DEF q
<1>2. p * q = q * p /\ p * q \in Nat
  BY <1>1
<1>3. q * p >= a
  BY <1>1, <1>2
<1>4. q = 0 => q * p = 0
  OBVIOUS
<1>5. QED
  BY <1>1, <1>3, <1>4 DEF q

\* Arithmetic of the products in the spans.
LEMMA OneMore ==
  ASSUME NEW n \in Int, NEW m \in Int
  PROVE  (n + 1) * m = n * m + m /\ n * m \in Int
OBVIOUS

\* Multiplication by a natural number keeps the order.
LEMMA TimesMonotone ==
  ASSUME NEW m \in Nat, NEW a \in Int, NEW b \in Int, a <= b
  PROVE  a * m <= b * m /\ a * m \in Int /\ b * m \in Int
<1>1. b = a + (b - a) /\ b - a \in Nat
  OBVIOUS
<1>2. \A d \in Nat : (a + d) * m = a * m + d * m /\ d * m \in Nat
  OBVIOUS
<1>3. QED
  BY <1>1, <1>2

\* A sequence with one more element.
LEMMA Appended ==
  ASSUME NEW T, NEW s \in Seq(T), NEW e \in T
  PROVE  /\ Append(s, e) \in Seq(T)
         /\ Len(Append(s, e)) = Len(s) + 1 /\ DOMAIN Append(s, e) = 1 .. Len(s) + 1
         /\ DOMAIN s = 1 .. Len(s) /\ Len(s) \in Nat
         /\ \A i \in DOMAIN s : Append(s, e)[i] = s[i]
         /\ Append(s, e)[Len(s) + 1] = e
OBVIOUS

\* An element of a sequence of naturals.
LEMMA Element ==
  ASSUME NEW T, NEW s \in Seq(T), NEW i \in DOMAIN s
  PROVE  Len(s) \in Nat /\ i \in Int /\ s[i] \in T
OBVIOUS

-----------------------------------------------------------------------------
(* Buckets.                                                                *)

\* A bucket's capacity and its span of life.
LEMMA Capacity ==
  ASSUME ConstantsOK, NEW b \in Buckets
  PROVE  /\ PerMin[b] \in Nat \ {0} /\ Minute \in Nat \ {0}
         /\ Full(b) \in Nat /\ Full(b) >= Minute
         /\ Ttl(b) \in Nat /\ Ttl(b) > 0 /\ Ttl(b) * PerMin[b] >= Full(b)
<1>1. PerMin[b] \in Nat \ {0} /\ Minute \in Nat \ {0}
  BY DEF ConstantsOK
<1>2. Full(b) \in Nat /\ Full(b) >= Minute
  <2>1. 1 * Minute <= PerMin[b] * Minute /\ 1 * Minute = Minute
    BY <1>1, TimesMonotone
  <2>2. QED
    BY <1>1, <2>1 DEF Full
<1>. DEFINE q == (Full(b) + PerMin[b] - 1) \div PerMin[b]
<1>3. q \in Nat /\ q * PerMin[b] >= Full(b) /\ q > 0
  BY <1>1, <1>2, RoundedUp
<1>4. Ttl(b) = 2 * q
  BY DEF Ttl
<1>. HIDE DEF q
<1>5. (2 * q) * PerMin[b] = q * PerMin[b] + q * PerMin[b] /\ q * PerMin[b] \in Nat
  BY <1>1, <1>3
<1>6. QED
  BY <1>1, <1>2, <1>3, <1>4, <1>5

\* What is in a bucket is between nothing and its capacity.
LEMMA RefilledType ==
  ASSUME ConstantsOK, now \in Nat, NEW b \in Buckets, BucketOK(b), NEW t \in Nat, t >= now
  PROVE  Refilled(b, t) \in 0 .. Full(b)
<1>1. /\ bucket[b].tokens \in 0 .. Full(b) /\ bucket[b].ts \in 0 .. now /\ bucket[b].expires \in Nat
  BY DEF BucketOK
<1>2. PerMin[b] \in Nat /\ Full(b) \in Nat
  BY Capacity
<1>3. (t - bucket[b].ts) \in Nat
  BY <1>1
<1>4. (t - bucket[b].ts) * PerMin[b] \in Nat
  BY <1>2, <1>3
<1>5. QED
  BY <1>1, <1>2, <1>4 DEF Refilled, AtMost

\* In a tick a bucket gains no more than its rate, even if it is forgotten in it.
LEMMA TickGains ==
  ASSUME ConstantsOK, now \in Nat, NEW b \in Buckets, BucketOK(b)
  PROVE  Refilled(b, now + 1) <= Refilled(b, now) + PerMin[b]
<1>. DEFINE p == PerMin[b]
            f == Full(b)
            k == bucket[b].tokens
            s == bucket[b].ts
            e == bucket[b].expires
            x == (now - s) * p
            y == ((now + 1) - s) * p
<1>1. k \in 0 .. f /\ s \in 0 .. now /\ e \in Nat /\ (e <= now \/ e = s + Ttl(b))
  BY DEF BucketOK
<1>2. p \in Nat /\ f \in Nat /\ Ttl(b) \in Nat /\ Ttl(b) * p >= f
  BY Capacity
<1>3. Refilled(b, now) = IF e <= now THEN f ELSE AtMost(k + x, f)
  BY DEF Refilled
<1>4. Refilled(b, now + 1) = IF e <= now + 1 THEN f ELSE AtMost(k + y, f)
  BY DEF Refilled
<1>5. e = now + 1 /\ ~ e <= now => y >= f
  <2>. SUFFICES ASSUME e = now + 1, ~ e <= now PROVE y >= f
    OBVIOUS
  <2>. HIDE DEF e, s, k
  <2>1. Ttl(b) = (now + 1) - s
    BY <1>1, <1>2
  <2>2. QED
    BY <1>2, <2>1
<1>6. y = x + p /\ x \in Nat
  <2>. HIDE DEF s, p
  <2>1. now - s \in Nat /\ (now + 1) - s = (now - s) + 1
    BY <1>1
  <2>2. ((now - s) + 1) * p = (now - s) * p + p /\ (now - s) * p \in Nat
    BY <1>2, <2>1
  <2>3. QED
    BY <2>1, <2>2
<1>. HIDE DEF p, f, k, s, e, x, y
<1>7. QED
  <2>1. k \in Nat /\ e \in Nat /\ f \in Nat /\ p \in Nat
    BY <1>1, <1>2
  <2>2. CASE e <= now
    BY <1>3, <1>4, <2>1, <2>2 DEF p
  <2>3. CASE e = now + 1
    <3>1. ~ e <= now
      BY <2>1, <2>3
    <3>2. Refilled(b, now + 1) = f
      BY <1>4, <2>1, <2>3
    <3>3. Refilled(b, now) + p >= f
      BY <1>3, <1>5, <1>6, <2>1, <2>3, <3>1 DEF AtMost
    <3>4. Refilled(b, now) \in Int
      BY <1>3, <1>6, <2>1 DEF AtMost
    <3>5. QED
      BY <2>1, <3>2, <3>3, <3>4 DEF p
  <2>4. CASE e > now + 1
    <3>1. Refilled(b, now) = AtMost(k + x, f) /\ Refilled(b, now + 1) = AtMost(k + y, f)
      BY <1>3, <1>4, <2>1, <2>4
    <3>2. AtMost(k + y, f) <= AtMost(k + x, f) + p
      BY <1>6, <2>1 DEF AtMost
    <3>3. QED
      BY <3>1, <3>2 DEF p
  <2>5. QED
    BY <2>1, <2>2, <2>3, <2>4

-----------------------------------------------------------------------------
(* The script.                                                             *)

\* What a question leaves in the bucket's row.
LEMMA AskLeaves ==
  ASSUME ConstantsOK, now \in Nat, DOMAIN bucket = Buckets, DOMAIN grants = Buckets,
         NEW b \in Buckets, BucketOK(b), NEW allowed \in BOOLEAN, Ask(b, allowed), now' = now
  PROVE  LET k    == Refilled(b, now)
             left == IF allowed THEN k - Minute ELSE k
         IN  /\ allowed = (k >= Minute)
             /\ k \in 0 .. Full(b) /\ left \in 0 .. Full(b)
             /\ bucket'[b] = [tokens |-> left, ts |-> now, expires |-> now + Ttl(b)]
             /\ BucketOK(b)' /\ Refilled(b, now)' = left
             /\ grants'[b] = IF allowed THEN Append(grants[b], now) ELSE grants[b]
<1>. DEFINE k    == Refilled(b, now)
            left == IF allowed THEN k - Minute ELSE k
<1>1. Minute \in Nat /\ PerMin[b] \in Nat /\ Full(b) \in Nat /\ Ttl(b) \in Nat /\ Ttl(b) > 0
  BY Capacity
<1>2. k \in 0 .. Full(b)
  BY RefilledType
<1>3. /\ allowed = (k >= Minute)
      /\ bucket'[b] = [tokens |-> left, ts |-> now, expires |-> now + Ttl(b)]
      /\ grants'[b] = IF allowed THEN Append(grants[b], now) ELSE grants[b]
  BY DEF Ask
<1>. HIDE DEF k
<1>4. left \in 0 .. Full(b)
  <2>1. CASE allowed
    <3>1. left = k - Minute /\ k >= Minute
      BY <1>3, <2>1
    <3>. HIDE DEF left
    <3>2. QED
      BY <1>1, <1>2, <3>1
  <2>2. CASE ~ allowed
    BY <1>2, <2>2
  <2>3. QED
    BY <2>1, <2>2
<1>. HIDE DEF left
<1>5. bucket'[b] \in [tokens : 0 .. Full(b), ts : 0 .. now, expires : Nat]
  BY <1>1, <1>3, <1>4
<1>6. BucketOK(b)'
  BY <1>1, <1>3, <1>5 DEF BucketOK, Ttl, Full
<1>7. Refilled(b, now)' = left
  <2>1. ~ bucket'[b].expires <= now
    BY <1>1, <1>3
  <2>2. (now - bucket'[b].ts) * PerMin[b] = 0
    BY <1>1, <1>3
  <2>3. Refilled(b, now)' = AtMost(bucket'[b].tokens + (now - bucket'[b].ts) * PerMin[b], Full(b))
    BY <2>1 DEF Refilled, Full
  <2>4. bucket'[b].tokens = left
    BY <1>3
  <2>5. QED
    BY <1>1, <1>4, <2>2, <2>3, <2>4 DEF AtMost
<1>8. QED
  BY <1>2, <1>3, <1>4, <1>6, <1>7 DEF k, left

\* The other rows stay.
LEMMA AskOthers ==
  ASSUME DOMAIN bucket = Buckets, DOMAIN grants = Buckets,
         NEW b \in Buckets, NEW allowed \in BOOLEAN, Ask(b, allowed), now' = now
  PROVE  /\ DOMAIN bucket' = Buckets /\ DOMAIN grants' = Buckets
         /\ \A c \in Buckets \ {b} : bucket'[c] = bucket[c] /\ grants'[c] = grants[c]
BY DEF Ask

\* A bucket whose row and grants stay keeps its part of the invariant.
LEMMA RowKept ==
  ASSUME NEW b \in Buckets, bucket'[b] = bucket[b], grants'[b] = grants[b], now' = now,
         BucketOK(b), SpanOK(b), RateOf(b)
  PROVE  BucketOK(b)' /\ SpanOK(b)' /\ RateOf(b)'
<1>1. BucketOK(b)'
  BY DEF BucketOK, Full, Ttl
<1>2. Refilled(b, now)' = Refilled(b, now)
  BY DEF Refilled, Full
<1>3. SpanOK(b)'
  BY <1>2 DEF SpanOK, Full
<1>4. RateOf(b)'
  BY DEF RateOf, Full
<1>5. QED
  BY <1>1, <1>3, <1>4

\* A request granted is paid with what was in the bucket.
LEMMA SpanKept ==
  ASSUME ConstantsOK, now \in Nat, DOMAIN bucket = Buckets, DOMAIN grants = Buckets,
         NEW b \in Buckets, BucketOK(b), SpanOK(b),
         NEW allowed \in BOOLEAN, Ask(b, allowed), now' = now
  PROVE  SpanOK(b)'
<1>. DEFINE k == Refilled(b, now)
            g == grants[b]
            f == Full(b)
            p == PerMin[b]
<1>1. Minute \in Nat /\ p \in Nat /\ f \in Nat
  BY Capacity
<1>2. /\ allowed = (k >= Minute) /\ k \in 0 .. f
      /\ Refilled(b, now)' = IF allowed THEN k - Minute ELSE k
      /\ grants'[b] = IF allowed THEN Append(g, now) ELSE g
  BY AskLeaves
<1>3. /\ g \in Seq(0 .. now) /\ now \in 0 .. now
      /\ \A i \in DOMAIN g : (Len(g) - i + 1) * Minute + k <= f + (now - g[i]) * p
  BY DEF SpanOK
<1>4. SpanOK(b)' = (/\ grants'[b] \in Seq(0 .. now)
                    /\ \A i \in DOMAIN grants'[b] :
                         (Len(grants'[b]) - i + 1) * Minute + Refilled(b, now)' <= f + (now - grants'[b][i]) * p)
  BY DEF SpanOK, Full
<1>. HIDE DEF k, g, f, p
<1>5. CASE ~ allowed
  BY <1>2, <1>3, <1>4, <1>5
<1>6. CASE allowed
  <2>1. /\ grants'[b] = Append(g, now) /\ grants'[b] \in Seq(0 .. now)
        /\ Len(grants'[b]) = Len(g) + 1 /\ DOMAIN grants'[b] = 1 .. Len(g) + 1
        /\ DOMAIN g = 1 .. Len(g) /\ Len(g) \in Nat
        /\ \A i \in DOMAIN g : grants'[b][i] = g[i]
        /\ grants'[b][Len(g) + 1] = now
    <3>1. grants'[b] = Append(g, now)
      BY <1>2, <1>6
    <3>2. QED
      BY <1>3, <3>1, Appended
  <2>2. ASSUME NEW i \in DOMAIN g
        PROVE  ((Len(g) + 1) - i + 1) * Minute + (k - Minute) <= f + (now - g[i]) * p
    <3>1. i \in Int /\ Len(g) - i + 1 \in Int /\ (Len(g) + 1) - i + 1 = (Len(g) - i + 1) + 1
      BY <2>1, <2>2
    <3>2. ((Len(g) - i + 1) + 1) * Minute = (Len(g) - i + 1) * Minute + Minute
          /\ (Len(g) - i + 1) * Minute \in Int
      <4>. DEFINE n == Len(g) - i + 1
      <4>1. n \in Int
        BY <3>1
      <4>. HIDE DEF n
      <4>2. (n + 1) * Minute = n * Minute + Minute /\ n * Minute \in Int
        BY <1>1, <4>1, OneMore
      <4>3. QED
        BY <4>2 DEF n
    <3>3. (Len(g) - i + 1) * Minute + k <= f + (now - g[i]) * p
      BY <1>3, <2>2
    <3>. DEFINE y == (Len(g) - i + 1) * Minute
                z == f + (now - g[i]) * p
    <3>4. ((Len(g) + 1) - i + 1) * Minute = y + Minute /\ y \in Int /\ y + k <= z
      BY <3>1, <3>2, <3>3
    <3>. HIDE DEF y, z
    <3>5. (y + Minute) + (k - Minute) = y + k
      BY <1>1, <1>2, <3>4
    <3>6. QED
      BY <3>4, <3>5 DEF z
  <2>3. ((Len(g) + 1) - (Len(g) + 1) + 1) * Minute + (k - Minute) <= f + (now - now) * p
    <3>1. (Len(g) + 1) - (Len(g) + 1) + 1 = 1 /\ now - now = 0
      BY <2>1
    <3>2. 1 * Minute = Minute /\ 0 * p = 0
      BY <1>1
    <3>3. Minute + (k - Minute) <= f + 0
      BY <1>1, <1>2
    <3>4. QED
      BY <3>1, <3>2, <3>3
  <2>4. ASSUME NEW i \in DOMAIN grants'[b]
        PROVE  (Len(grants'[b]) - i + 1) * Minute + Refilled(b, now)' <= f + (now - grants'[b][i]) * p
    <3>1. Refilled(b, now)' = k - Minute
      BY <1>2, <1>6
    <3>2. CASE i \in DOMAIN g
      BY <2>1, <2>2, <3>1, <3>2
    <3>3. CASE i = Len(g) + 1
      BY <2>1, <2>3, <3>1, <3>3
    <3>4. QED
      BY <2>1, <2>4, <3>2, <3>3
  <2>5. QED
    BY <1>4, <2>1, <2>4
<1>7. QED
  BY <1>5, <1>6

\* So no span of requests has more than the bucket could hold and gain in it.
LEMMA RateKept ==
  ASSUME ConstantsOK, now \in Nat, DOMAIN bucket = Buckets, DOMAIN grants = Buckets,
         NEW b \in Buckets, BucketOK(b), SpanOK(b), RateOf(b),
         NEW allowed \in BOOLEAN, Ask(b, allowed), now' = now
  PROVE  RateOf(b)'
<1>. DEFINE g == grants[b]
            f == Full(b)
            p == PerMin[b]
<1>1. Minute \in Nat /\ p \in Nat /\ f \in Nat
  BY Capacity
<1>2. /\ Refilled(b, now)' \in Nat
      /\ grants'[b] = IF allowed THEN Append(g, now) ELSE g
  <2>. DEFINE left == IF allowed THEN Refilled(b, now) - Minute ELSE Refilled(b, now)
  <2>1. /\ left \in 0 .. f /\ Refilled(b, now)' = left
        /\ grants'[b] = IF allowed THEN Append(g, now) ELSE g
    BY AskLeaves
  <2>. HIDE DEF left, f, g
  <2>2. QED
    BY <1>1, <2>1
<1>3. /\ g \in Seq(0 .. now) /\ now \in 0 .. now
      /\ \A i, j \in DOMAIN g : i <= j => (j - i + 1) * Minute <= f + (g[j] - g[i]) * p
  BY DEF SpanOK, RateOf
<1>4. \A i \in DOMAIN grants'[b] :
        (Len(grants'[b]) - i + 1) * Minute + Refilled(b, now)' <= f + (now - grants'[b][i]) * p
  BY SpanKept DEF SpanOK, Full
<1>5. RateOf(b)' = (\A i, j \in DOMAIN grants'[b] :
                      i <= j => (j - i + 1) * Minute <= f + (grants'[b][j] - grants'[b][i]) * p)
  BY DEF RateOf, Full
<1>. HIDE DEF g, f, p
<1>6. CASE ~ allowed
  BY <1>2, <1>3, <1>5, <1>6
<1>7. CASE allowed
  <2>. DEFINE h == grants'[b]
              n == Len(g) + 1
  <2>1. h = Append(g, now)
    BY <1>2, <1>7
  <2>2. /\ h \in Seq(0 .. now) /\ Len(h) = n /\ DOMAIN h = 1 .. n
        /\ DOMAIN g = 1 .. Len(g) /\ Len(g) \in Nat
        /\ (\A i \in DOMAIN g : h[i] = g[i]) /\ h[n] = now
    BY <1>3, <2>1, Appended
  <2>. HIDE DEF h
  <2>3. ASSUME NEW i \in DOMAIN h, NEW j \in DOMAIN h, i <= j
        PROVE  (j - i + 1) * Minute <= f + (h[j] - h[i]) * p
    <3>1. CASE j \in DOMAIN g
      <4>1. i \in DOMAIN g
        BY <2>2, <2>3, <3>1
      <4>2. QED
        BY <1>3, <2>2, <2>3, <3>1, <4>1
    <3>2. CASE j = n
      <4>1. (n - i + 1) * Minute + Refilled(b, now)' <= f + (now - h[i]) * p
        BY <1>4, <2>2, <2>3 DEF h
      <4>2. n - i + 1 \in Int /\ now - h[i] \in Int
        BY <2>2, <2>3
      <4>. DEFINE x == (n - i + 1) * Minute
                  y == (now - h[i]) * p
      <4>3. x \in Int /\ y \in Int
        BY <1>1, <4>2, TimesMonotone
      <4>4. x + Refilled(b, now)' <= f + y
        BY <4>1
      <4>. HIDE DEF x, y
      <4>5. x <= f + y
        BY <1>1, <1>2, <4>3, <4>4
      <4>6. QED
        BY <2>2, <3>2, <4>5 DEF x, y
    <3>3. QED
      BY <2>2, <2>3, <3>1, <3>2
  <2>4. QED
    BY <1>5, <2>3 DEF h
<1>8. QED
  BY <1>6, <1>7

\* A refused client is told a time after which there is a token.
LEMMA RetryKept ==
  ASSUME ConstantsOK, now \in Nat, DOMAIN bucket = Buckets, DOMAIN grants = Buckets,
         NEW b \in Buckets, BucketOK(b), NEW allowed \in BOOLEAN, Ask(b, allowed), now' = now
  PROVE  RetryHonest'
<1>. DEFINE k == Refilled(b, now)
            f == Full(b)
            p == PerMin[b]
<1>1. Minute \in Nat /\ p \in Nat \ {0} /\ f \in Nat /\ f >= Minute
  BY Capacity
<1>2. CASE allowed
  BY <1>2 DEF Ask, RetryHonest, None
<1>3. CASE ~ allowed
  <2>0. PICK r : r = RetryAfter(b, k)
    OBVIOUS
  <2>1. told' = [bucket |-> b, retry |-> r]
    BY <1>3, <2>0 DEF Ask
  <2>2. /\ (k >= Minute) = FALSE /\ k \in 0 .. f
        /\ bucket'[b] = [tokens |-> k, ts |-> now, expires |-> now + Ttl(b)]
    BY <1>3, AskLeaves
  <2>3. Refilled(b, now + r)' = IF now + Ttl(b) <= now + r THEN f ELSE AtMost(k + ((now + r) - now) * p, f)
    <3>1. bucket'[b].tokens = k /\ bucket'[b].ts = now /\ bucket'[b].expires = now + Ttl(b)
      BY <2>2
    <3>. HIDE DEF k
    <3>2. QED
      BY <3>1 DEF Refilled, Full
  <2>4. r \in Nat /\ r * p >= Minute - k
    <3>1. Minute - k \in Nat
      BY <1>1, <2>2
    <3>. DEFINE a == Minute - k
    <3>2. r = (a + p - 1) \div p
      BY <2>0 DEF RetryAfter
    <3>3. a \in Nat
      BY <3>1
    <3>. HIDE DEF a, p, k
    <3>4. r \in Nat /\ r * p >= a
      BY <1>1, <3>2, <3>3, RoundedUp
    <3>5. QED
      BY <3>4 DEF a
  <2>. HIDE DEF k, f, p
  <2>5. (now + r) - now = r
    BY <2>4
  <2>6. Refilled(b, now + r)' >= Minute
    <3>. DEFINE x == r * p
    <3>1. x \in Int /\ k + x >= Minute /\ k \in Int
      BY <1>1, <2>2, <2>4
    <3>2. Refilled(b, now + r)' = IF now + Ttl(b) <= now + r THEN f ELSE AtMost(k + x, f)
      BY <2>3, <2>5
    <3>. HIDE DEF x
    <3>3. AtMost(k + x, f) >= Minute
      BY <1>1, <3>1 DEF AtMost
    <3>4. QED
      BY <1>1, <3>2, <3>3
  <2>7. told'.bucket = b /\ told'.retry = r
    BY <2>1
  <2>8. Refilled(told.bucket, now + told.retry)' = Refilled(b, now + r)'
    BY <2>7 DEF Refilled, Full
  <2>9. QED
    BY <2>6, <2>8 DEF RetryHonest
<1>4. QED
  BY <1>2, <1>3

-----------------------------------------------------------------------------
(* The invariant.                                                          *)

\* A question keeps what is said of the buckets.
LEMMA AskKeeps ==
  ASSUME ConstantsOK, BucketsInv,
         NEW b \in Buckets, NEW allowed \in BOOLEAN, Ask(b, allowed), now' = now
  PROVE  BucketsInv'
<1>1. /\ now \in Nat /\ now \in 0 .. MaxTime /\ DOMAIN bucket = Buckets /\ DOMAIN grants = Buckets
      /\ \A c \in Buckets : BucketOK(c) /\ SpanOK(c) /\ RateOf(c)
  BY DEF BucketsInv, ConstantsOK
<1>2. /\ DOMAIN bucket' = Buckets /\ DOMAIN grants' = Buckets
      /\ \A c \in Buckets \ {b} : bucket'[c] = bucket[c] /\ grants'[c] = grants[c]
  BY <1>1, AskOthers
<1>3. BucketOK(b)' /\ SpanOK(b)' /\ RateOf(b)'
  BY <1>1, AskLeaves, SpanKept, RateKept
<1>4. ASSUME NEW c \in Buckets \ {b}
      PROVE  BucketOK(c)' /\ SpanOK(c)' /\ RateOf(c)'
  <2>1. bucket'[c] = bucket[c] /\ grants'[c] = grants[c] /\ BucketOK(c) /\ SpanOK(c) /\ RateOf(c)
    BY <1>1, <1>2
  <2>2. QED
    BY <2>1, RowKept
<1>5. RetryHonest'
  BY <1>1, RetryKept
<1>6. now' \in 0 .. MaxTime
  BY <1>1
<1>7. \A c \in Buckets : BucketOK(c)' /\ SpanOK(c)' /\ RateOf(c)'
  BY <1>3, <1>4
<1>8. QED
  BY <1>2, <1>5, <1>6, <1>7 DEF BucketsInv, Buckets

\* So does a step that leaves the buckets and the clock alone.
LEMMA StutterKeeps ==
  ASSUME BucketsInv, UNCHANGED <<bucket, now, grants, told>>
  PROVE  BucketsInv'
<1>1. \A c \in Buckets : BucketOK(c)' /\ SpanOK(c)' /\ RateOf(c)'
  BY RowKept DEF BucketsInv
<1>2. RetryHonest'
  BY DEF BucketsInv, RetryHonest, Refilled, Full
<1>3. QED
  BY <1>1, <1>2 DEF BucketsInv, Buckets

\* And a tick: each bucket gains no more than the span it lengthens allows.
LEMMA TickKeeps ==
  ASSUME ConstantsOK, BucketsInv, Tick
  PROVE  BucketsInv'
<1>1. /\ now \in Nat /\ now \in 0 .. MaxTime /\ DOMAIN bucket = Buckets /\ DOMAIN grants = Buckets
      /\ \A c \in Buckets : BucketOK(c) /\ SpanOK(c) /\ RateOf(c)
  BY DEF BucketsInv, ConstantsOK
<1>2. /\ now' = now + 1 /\ now' \in 0 .. MaxTime /\ bucket' = bucket /\ grants' = grants /\ told' = None
  BY <1>1 DEF Tick, ConstantsOK
<1>3. ASSUME NEW b \in Buckets
      PROVE  BucketOK(b)' /\ SpanOK(b)' /\ RateOf(b)'
  <2>1. BucketOK(b) /\ SpanOK(b) /\ RateOf(b)
    BY <1>1
  <2>2. Minute \in Nat /\ PerMin[b] \in Nat /\ Full(b) \in Nat /\ Ttl(b) \in Nat
    BY Capacity
  <2>3. BucketOK(b)'
    <3>1. bucket[b] \in [tokens : 0 .. Full(b), ts : 0 .. now, expires : Nat]
          /\ (bucket[b].expires <= now \/ bucket[b].expires = bucket[b].ts + Ttl(b))
      BY <2>1 DEF BucketOK
    <3>2. 0 .. now \subseteq 0 .. now + 1
      BY <1>1
    <3>3. bucket[b] \in [tokens : 0 .. Full(b), ts : 0 .. now + 1, expires : Nat]
      BY <3>1, <3>2
    <3>4. bucket[b].expires <= now + 1 \/ bucket[b].expires = bucket[b].ts + Ttl(b)
      BY <1>1, <3>1
    <3>5. QED
      BY <1>2, <3>3, <3>4 DEF BucketOK, Full, Ttl
  <2>4. RateOf(b)'
    BY <1>2, <2>1 DEF RateOf, Full
  <2>5. SpanOK(b)'
    <3>. DEFINE g == grants[b]
                k == Refilled(b, now)
    <3>1. /\ g \in Seq(0 .. now)
          /\ \A i \in DOMAIN g : (Len(g) - i + 1) * Minute + k <= Full(b) + (now - g[i]) * PerMin[b]
      BY <2>1 DEF SpanOK
    <3>2. g \in Seq(0 .. now + 1)
      BY <1>1, <3>1
    <3>3. k \in Int /\ Refilled(b, now + 1) <= k + PerMin[b] /\ Refilled(b, now + 1) \in Int
      <4>1. k \in 0 .. Full(b) /\ Refilled(b, now + 1) \in 0 .. Full(b)
        BY <1>1, <2>1, RefilledType
      <4>2. Refilled(b, now + 1) <= k + PerMin[b]
        BY <1>1, <2>1, TickGains
      <4>3. QED
        BY <2>2, <4>1, <4>2
    <3>. HIDE DEF g, k
    <3>4. ASSUME NEW i \in DOMAIN g
          PROVE  (Len(g) - i + 1) * Minute + Refilled(b, now + 1) <= Full(b) + ((now + 1) - g[i]) * PerMin[b]
      <4>. DEFINE n == Len(g) - i + 1
                  d == now - g[i]
                  x == n * Minute
                  y == d * PerMin[b]
      <4>1. n \in Int /\ d \in Int /\ (now + 1) - g[i] = d + 1
        <5>1. Len(g) \in Nat /\ i \in Int /\ g[i] \in 0 .. now
          <6>1. g \in Seq(0 .. now)
            BY <3>1
          <6>2. QED
            BY <3>4, <6>1, Element
        <5>2. QED
          BY <1>1, <5>1
      <4>2. x + k <= Full(b) + y
        BY <3>1, <3>4
      <4>. HIDE DEF n, d
      <4>3. x \in Int /\ y \in Int /\ (d + 1) * PerMin[b] = y + PerMin[b]
        BY <2>2, <4>1, OneMore
      <4>. HIDE DEF x, y
      <4>4. x + Refilled(b, now + 1) <= Full(b) + (y + PerMin[b])
        BY <2>2, <3>3, <4>2, <4>3
      <4>5. QED
        BY <4>1, <4>3, <4>4 DEF x, n
    <3>5. SpanOK(b)' = (/\ g \in Seq(0 .. now + 1)
                        /\ \A i \in DOMAIN g : (Len(g) - i + 1) * Minute + Refilled(b, now + 1)
                                                <= Full(b) + ((now + 1) - g[i]) * PerMin[b])
      BY <1>2 DEF SpanOK, g, Full, Refilled
    <3>6. QED
      BY <3>2, <3>4, <3>5
  <2>6. QED
    BY <2>3, <2>4, <2>5
<1>4. RetryHonest'
  BY <1>2 DEF RetryHonest, None
<1>5. QED
  BY <1>1, <1>2, <1>3, <1>4 DEF BucketsInv, Buckets

\* The invariant holds at first, every step keeps it, and it says what is promised.
THEOREM LimitsKept ==
  ASSUME ConstantsOK
  PROVE  Spec => []LimitsHonest /\ []TypeOK
<1>1. Init => LimitsInv
  <2>. SUFFICES ASSUME Init PROVE LimitsInv
    OBVIOUS
  <2>1. now = 0 /\ DOMAIN bucket = Buckets /\ DOMAIN grants = Buckets /\ told = None
    BY DEF Init
  <2>2. ASSUME NEW b \in Buckets
        PROVE  BucketOK(b) /\ SpanOK(b) /\ RateOf(b)
    <3>1. bucket[b] = [tokens |-> 0, ts |-> 0, expires |-> 0] /\ grants[b] = <<>>
      BY DEF Init
    <3>2. Full(b) \in Nat
      BY Capacity
    <3>3. BucketOK(b)
      BY <2>1, <3>1, <3>2 DEF BucketOK
    <3>4. SpanOK(b) /\ RateOf(b)
      BY <3>1 DEF SpanOK, RateOf
    <3>5. QED
      BY <3>3, <3>4
  <2>3. RetryHonest
    BY <2>1 DEF RetryHonest
  <2>4. now \in 0 .. MaxTime
    BY <2>1 DEF ConstantsOK
  <2>5. BucketsInv
    BY <2>1, <2>2, <2>3, <2>4 DEF BucketsInv
  <2>6. client \in [Clients -> {Idle} \cup [at : {"key"}, key : Keys]]
    BY DEF Init
  <2>7. QED
    BY <2>5, <2>6 DEF LimitsInv
<1>2. LimitsInv /\ [Next]_vars => LimitsInv'
  <2>. SUFFICES ASSUME LimitsInv, [Next]_vars PROVE LimitsInv'
    OBVIOUS
  <2>1. BucketsInv /\ client \in [Clients -> {Idle} \cup [at : {"key"}, key : Keys]]
    BY DEF LimitsInv
  <2>2. ASSUME NEW c \in Clients, Middleware(c) PROVE LimitsInv'
    <3>1. client[c].at = "key"
      BY <2>2 DEF Middleware
    <3>2. client[c].key \in Keys
      BY <2>1, <3>1 DEF Idle
    <3>3. client[c].key \in Buckets /\ now' = now /\ Moves(c, Idle)
      BY <2>2, <3>2 DEF Middleware, Buckets
    <3>4. \/ \E allowed \in BOOLEAN : Ask(client[c].key, allowed)
          \/ UNCHANGED <<bucket, grants, told>>
      BY <2>2 DEF Middleware
    <3>5. BucketsInv'
      BY <2>1, <3>3, <3>4, AskKeeps, StutterKeeps
    <3>6. client' \in [Clients -> {Idle} \cup [at : {"key"}, key : Keys]]
      BY <2>1, <3>3 DEF Moves
    <3>7. QED
      BY <3>5, <3>6 DEF LimitsInv
  <2>3. ASSUME NEW c \in Clients, NEW k \in Keys, AccountMiddleware(c, k) PROVE LimitsInv'
    <3>1. Account \in Buckets /\ now' = now
      BY <2>3 DEF AccountMiddleware, Buckets
    <3>2. \/ \E allowed \in BOOLEAN : Ask(Account, allowed)
          \/ UNCHANGED <<bucket, grants, told>>
      BY <2>3 DEF AccountMiddleware
    <3>3. Moves(c, Idle) \/ Moves(c, [at |-> "key", key |-> k])
      BY <2>3 DEF AccountMiddleware
    <3>4. BucketsInv'
      BY <2>1, <3>1, <3>2, AskKeeps, StutterKeeps
    <3>5. client' \in [Clients -> {Idle} \cup [at : {"key"}, key : Keys]]
      BY <2>1, <3>3 DEF Moves
    <3>6. QED
      BY <3>4, <3>5 DEF LimitsInv
  <2>4. CASE Tick
    BY <2>1, <2>4, TickKeeps DEF LimitsInv, Tick
  <2>5. CASE UNCHANGED vars
    BY <2>1, <2>5, StutterKeeps DEF LimitsInv, vars
  <2>6. QED
    BY <2>2, <2>3, <2>4, <2>5 DEF Next
<1>3. LimitsInv => LimitsHonest /\ TypeOK
  <2>. SUFFICES ASSUME LimitsInv PROVE LimitsHonest /\ TypeOK
    OBVIOUS
  <2>1. RateHeld /\ RetryHonest
    BY DEF LimitsInv, BucketsInv, RateHeld, RateOf
  <2>2. TypeOK
    BY DEF LimitsInv, BucketsInv, BucketOK, TypeOK
  <2>3. QED
    BY <2>1, <2>2 DEF LimitsHonest
<1>4. QED
  BY <1>1, <1>2, <1>3, PTL DEF Spec

-----------------------------------------------------------------------------
(* The whole.                                                              *)

\* Every step of the composition is a step of one part, or of none.
LEMMA PartsStep ==
  ASSUME [AccessNext]_allVars
  PROVE  [S!Next]_(S!vars) /\ [W!Next]_(W!vars) /\ [K!Next]_(K!vars) /\ [Next]_vars
<1>1. CASE S!Next /\ Logs
  BY <1>1 DEF Logs, accountVars, keyVars, limitVars, W!vars, K!vars
<1>2. CASE W!Next /\ Registers
  BY <1>2 DEF Registers, sessionVars, keyVars, limitVars, S!vars, K!vars
<1>3. CASE K!Next /\ Resolves
  BY <1>3 DEF Resolves, sessionVars, accountVars, limitVars, S!vars, W!vars
<1>4. CASE Next /\ Limiting
  BY <1>4 DEF Limiting, sessionVars, accountVars, keyVars, S!vars, W!vars, K!vars
<1>5. CASE UNCHANGED allVars
  BY <1>5 DEF allVars, sessionVars, accountVars, keyVars, limitVars, S!vars, W!vars, K!vars
<1>6. QED
  BY <1>1, <1>2, <1>3, <1>4, <1>5 DEF AccessNext

\* A behaviour of the composition is one of each part.
LEMMA PartsApart == AccessSpec => S!Spec /\ W!Spec /\ K!Spec /\ Spec
<1>1. AccessInit => S!Init /\ W!Init /\ K!Init /\ Init
  BY DEF AccessInit
<1>2. QED
  BY <1>1, PartsStep, PTL DEF AccessSpec, S!Spec, W!Spec, K!Spec, Spec

\* In the gateway as composed the sessions keep what they promise: the index is true, the cap
\* holds and a confirmed logout is final; and nobody is admitted or turned away on stale grounds.
THEOREM AccessSessions ==
  ASSUME S!ConstantsOK
  PROVE  AccessSpec => []SessionsTrue /\ AnswersCurrent
BY PartsApart, SessionsSound, PTL DEF SessionsTrue, AnswersCurrent

\* Accounts and billing users are made together, registrations bring no money, and passwords and
\* slots are kept.
THEOREM AccessAccounts ==
  ASSUME W!ConstantsOK
  PROVE  AccessSpec => AccountsSound
BY PartsApart, AccountsAreSound, PTL DEF AccountsSound

\* Keys stay within their caps and with their owners, and the gate is given back.
THEOREM AccessKeys ==
  ASSUME K!ConstantsOK
  PROVE  AccessSpec => KeysSound
BY PartsApart, KeysAreSound, PTL DEF KeysSound

\* No span of time sees more requests than its limit, and a refused client is told when to return.
THEOREM AccessLimits ==
  ASSUME ConstantsOK
  PROVE  AccessSpec => []LimitsHonest
BY PartsApart, LimitsKept, PTL

\* The variables of all parts have their types.
THEOREM AccessTypes ==
  ASSUME S!ConstantsOK, W!ConstantsOK, K!ConstantsOK, ConstantsOK
  PROVE  AccessSpec => []TypesOK
BY PartsApart, SessionsSound, AccountsAreSound, KeysAreSound, LimitsKept, PTL DEF TypesOK
=============================================================================

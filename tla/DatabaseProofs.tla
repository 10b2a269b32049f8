-------------------------- MODULE DatabaseProofs --------------------------
(***************************************************************************)
(* Proofs about the ledgers.  Of Ledger, for any set of users,             *)
(* reservations and channels: holds, spending and locks are sound, and it  *)
(* implements the wallet.  Of MemoryLedger, for any users, reservations,   *)
(* channels and sums: a recovery that reports success is complete, no      *)
(* money is lost, and the ledger in memory implements the same wallet.  Of *)
(* Startup, for any instances and migrations: the schema is kept.  Then of *)
(* the three as composed.                                                  *)
(***************************************************************************)
EXTENDS Database, Sequences, FiniteSetTheorems, TLAPS

(* The ledger in PostgreSQL.                                               *)

\* Typing needs the owner of a placed reservation to be a user, since Finalize
\* and Refund index users by it; CostWithinHold says so.
TypeInv == TypeOK /\ CostWithinHold

\* A step of the ledger is one committed transaction, one step of the
\* administration plane or of the clock, or it changes nothing.
LEMMA NextCommits ==
  ASSUME [Next]_vars
  PROVE  \/ \E r \in Ids, u \in Users, a \in Amounts : CommitReserve(r, u, a)
         \/ \E r \in Ids, ch \in Channels : CommitMark(r, ch)
         \/ \E r \in Ids : CommitRelease(r)
         \/ \E r \in Ids, ch \in Channels, c \in Costs : CommitConsumption(r, ch, c)
         \/ \E r \in Ids : CommitFinalize(r)
         \/ \E r \in Ids : CommitRefund(r)
         \/ \E u \in Users, d \in Deltas : AddBalance(u, d)
         \/ \E u \in Users, e \in BOOLEAN : SetUserEnabled(u, e)
         \/ \E r \in Ids : GrowStale(r)
         \/ UNCHANGED vars
<1>1. CASE UNCHANGED vars
  BY <1>1
<1>2. CASE Administration
  BY <1>2 DEF Administration
<1>3. CASE \E r \in Ids : GrowStale(r)
  BY <1>3
<1>4. ASSUME NEW r \in Ids, NEW reply \in Replies, Operation(r, reply), ~UNCHANGED vars
      PROVE  \/ \E u \in Users, a \in Amounts : CommitReserve(r, u, a)
             \/ \E ch \in Channels : CommitMark(r, ch)
             \/ CommitRelease(r)
             \/ \E ch \in Channels, c \in Costs : CommitConsumption(r, ch, c)
             \/ CommitFinalize(r)
             \/ CommitRefund(r)
  <2>1. ASSUME NEW u \in Users, NEW a \in Amounts, Reserve(r, u, a, reply)
        PROVE  CommitReserve(r, u, a)
    BY <2>1, <1>4 DEF Reserve, NoCommit
  <2>2. ASSUME NEW ch \in Channels, MarkInFlight(r, ch, reply)
        PROVE  CommitMark(r, ch)
    BY <2>2, <1>4 DEF MarkInFlight, NoCommit
  <2>3. ASSUME ReleaseAttempt(r, reply)
        PROVE  CommitRelease(r)
    BY <2>3, <1>4 DEF ReleaseAttempt, NoCommit
  <2>4. ASSUME NEW ch \in Channels, NEW c \in Costs, RecordConsumption(r, ch, c, reply)
        PROVE  CommitConsumption(r, ch, c)
    BY <2>4, <1>4 DEF RecordConsumption, NoCommit
  <2>5. ASSUME Finalize(r, reply)
        PROVE  CommitFinalize(r)
    BY <2>5, <1>4 DEF Finalize, NoCommit
  <2>6. ASSUME Refund(r, reply)
        PROVE  CommitRefund(r)
    BY <2>6, <1>4 DEF Refund, NoCommit
  <2>7. QED
    BY <1>4, <2>1, <2>2, <2>3, <2>4, <2>5, <2>6 DEF Operation
<1>5. QED
  BY <1>1, <1>2, <1>3, <1>4 DEF Next

-----------------------------------------------------------------------------
(* Typing, and the cost of every reservation within what was withheld.     *)

LEMMA PostType ==
  ASSUME TypeOK, NEW r \in Ids, NEW kind \in Kinds, NEW u \in Users, NEW d \in Int,
         Post(r, kind, u, d)
  PROVE  balance' \in [Users -> Int] /\ version' \in [Users -> Nat] /\ entries' \subseteq Entry
<1>1. balance[u] + d \in Int /\ version[u] + 1 \in Nat
  BY DEF TypeOK
<1>2. [id |-> r, kind |-> kind, user |-> u, amount |-> d,
       after |-> balance[u] + d, version |-> version[u] + 1] \in Entry
  BY <1>1 DEF Entry
<1>3. QED
  BY <1>1, <1>2 DEF Post, TypeOK

LEMMA AbsentRowType == AbsentRow \in Row
  BY DEF AbsentRow, Row, Statuses

LEMMA InitType == Init => TypeInv
<1> SUFFICES ASSUME Init PROVE TypeInv
  OBVIOUS
<1>1. balance \in [Users -> Int] /\ deposited \in [Users -> Int]
  <2>1. Openings \subseteq Int
    BY OtherSums
  <2>2. QED
    BY <2>1 DEF Init
<1>2. version \in [Users -> Nat] /\ enabled \in [Users -> BOOLEAN]
  BY DEF Init
<1>3. row \in [Ids -> Row]
  BY AbsentRowType DEF Init
<1>4. CostWithinHold
  BY DEF Init, CostWithinHold, AbsentRow
<1>5. QED
  BY <1>1, <1>2, <1>3, <1>4 DEF TypeInv, TypeOK, Init

LEMMA NextType == TypeInv /\ [Next]_vars => TypeInv'
<1> SUFFICES ASSUME TypeInv, [Next]_vars PROVE TypeInv'
  OBVIOUS
<1> USE AmountsAssumption, CostsAssumption, OtherSums DEF TypeInv
<1>1. ASSUME NEW r \in Ids, NEW u \in Users, NEW a \in Amounts, CommitReserve(r, u, a)
      PROVE  TypeInv'
  <2>1. balance' \in [Users -> Int] /\ version' \in [Users -> Nat] /\ entries' \subseteq Entry
    BY <1>1, PostType, -a \in Int DEF CommitReserve, Kinds
  <2>2. row'[r] = [status |-> "reserved", user |-> u, amount |-> a,
                   channel |-> NoChannel, cost |-> 0, stale |-> FALSE]
    BY <1>1 DEF CommitReserve, AbsentRow, TypeOK
  <2>3. row' \in [Ids -> Row]
    <3>1. a \in Int
      OBVIOUS
    <3>2. row'[r] \in Row
      BY <2>2, <3>1 DEF Row, Statuses
    <3>3. QED
      BY <1>1, <3>2 DEF CommitReserve, TypeOK
  <2>4. CostWithinHold'
    <3>1. a \in Nat /\ a > 0
      OBVIOUS
    <3>2. \A q \in Ids \ {r} : row'[q] = row[q]
      BY <1>1 DEF CommitReserve, TypeOK
    <3>3. row'[r].user \in Users /\ row'[r].amount > 0 /\ row'[r].cost \in 0..row'[r].amount
      BY <2>2, <3>1
    <3>4. QED
      BY <3>2, <3>3 DEF CostWithinHold
  <2>5. QED
    BY <1>1, <2>1, <2>3, <2>4 DEF CommitReserve, TypeOK
<1>2. ASSUME NEW r \in Ids, NEW ch \in Channels, CommitMark(r, ch)
      PROVE  TypeInv'
  <2>1. row' \in [Ids -> Row]
    <3>1. row[r] \in Row
      BY DEF TypeOK
    <3>2. [row[r] EXCEPT !.status = "in_flight", !.channel = ch, !.stale = FALSE] \in Row
      BY <3>1 DEF Row, Statuses
    <3>3. QED
      BY <1>2, <3>2 DEF CommitMark, TypeOK
  <2>2. CostWithinHold'
    BY <1>2 DEF CommitMark, TypeOK, CostWithinHold, Row
  <2>3. QED
    BY <1>2, <2>1, <2>2 DEF CommitMark, TypeOK
<1>3. ASSUME NEW r \in Ids, CommitRelease(r)
      PROVE  TypeInv'
  BY <1>3, ZenonT(40) DEF CommitRelease, TypeOK, CostWithinHold, Row, Statuses
<1>4. ASSUME NEW r \in Ids, NEW ch \in Channels, NEW c \in Costs, CommitConsumption(r, ch, c)
      PROVE  TypeInv'
  <2>1. row' \in [Ids -> Row]
    <3>1. row[r] \in Row /\ c \in Int
      BY DEF TypeOK
    <3>2. [row[r] EXCEPT !.status = "consumed_unsettled", !.cost = c, !.stale = FALSE] \in Row
      BY <3>1 DEF Row, Statuses
    <3>3. QED
      BY <1>4, <3>2 DEF CommitConsumption, TypeOK
  <2>2. CostWithinHold'
    BY <1>4 DEF CommitConsumption, TypeOK, CostWithinHold, Row
  <2>3. QED
    BY <1>4, <2>1, <2>2 DEF CommitConsumption, TypeOK
<1>5. ASSUME NEW r \in Ids, CommitFinalize(r)
      PROVE  TypeInv'
  <2>1. row[r].user \in Users /\ row[r].amount - row[r].cost \in Int /\ row[r].cost \in Int
    BY <1>5 DEF CommitFinalize, TypeOK, CostWithinHold, Row
  <2>2. balance' \in [Users -> Int] /\ version' \in [Users -> Nat] /\ entries' \subseteq Entry
    BY <1>5, <2>1, PostType DEF CommitFinalize, Kinds
  <2>3. usage' \subseteq UsageLog
    BY <1>5, <2>1 DEF CommitFinalize, TypeOK, UsageLog
  <2>4. row' \in [Ids -> Row] /\ CostWithinHold'
    BY <1>5, ZenonT(40) DEF CommitFinalize, TypeOK, CostWithinHold, Row, Statuses
  <2>5. QED
    BY <1>5, <2>2, <2>3, <2>4 DEF CommitFinalize, TypeOK
<1>6. ASSUME NEW r \in Ids, CommitRefund(r)
      PROVE  TypeInv'
  <2>1. row[r].user \in Users /\ row[r].amount \in Int
    BY <1>6 DEF CommitRefund, TypeOK, CostWithinHold, Row
  <2>2. balance' \in [Users -> Int] /\ version' \in [Users -> Nat] /\ entries' \subseteq Entry
    BY <1>6, <2>1, PostType DEF CommitRefund, Kinds
  <2>3. row' \in [Ids -> Row] /\ CostWithinHold'
    BY <1>6, ZenonT(40) DEF CommitRefund, TypeOK, CostWithinHold, Row, Statuses
  <2>4. QED
    BY <1>6, <2>2, <2>3 DEF CommitRefund, TypeOK
<1>7. ASSUME NEW u \in Users, NEW d \in Deltas, AddBalance(u, d)
      PROVE  TypeInv'
  BY <1>7 DEF AddBalance, TypeOK, CostWithinHold
<1>8. ASSUME NEW u \in Users, NEW e \in BOOLEAN, SetUserEnabled(u, e)
      PROVE  TypeInv'
  BY <1>8 DEF SetUserEnabled, TypeOK, CostWithinHold
<1>9. ASSUME NEW r \in Ids, GrowStale(r)
      PROVE  TypeInv'
  BY <1>9, ZenonT(40) DEF GrowStale, TypeOK, CostWithinHold, Row, Statuses
<1>10. CASE UNCHANGED vars
  BY <1>10 DEF vars, TypeOK, CostWithinHold
<1>11. QED
  BY NextCommits, <1>1, <1>2, <1>3, <1>4, <1>5, <1>6, <1>7, <1>8, <1>9, <1>10

\* The type invariant of the ledger, and that a reservation always belongs to a
\* user and is settled for no more than was withheld for it.
THEOREM LedgerTypes == Spec => []TypeOK /\ []CostWithinHold
<1>1. TypeInv => TypeOK /\ CostWithinHold
  BY DEF TypeInv
<1>2. QED
  BY InitType, NextType, <1>1, PTL DEF Spec

-----------------------------------------------------------------------------
(* What was consumed stays recorded.                                       *)

\* Once RecordConsumption has committed, a reservation can only be settled, with
\* the same cost, channel, amount and owner, and a terminal row is never written.
THEOREM LedgerConsumptionIsFinal == Spec => ConsumptionIsFinal
<1>1. ASSUME TypeInv, [Next]_vars, NEW q \in Ids PROVE KeepsConsumption(q)
  <2>1. row \in [Ids -> Row]
    BY <1>1 DEF TypeInv, TypeOK
  <2>2. CASE row' = row
    BY <2>2 DEF KeepsConsumption, Facts
  <2>3. ASSUME NEW r \in Ids, row[r].status \notin {"consumed_unsettled", "settled", "refunded"},
               \A p \in Ids \ {r} : row'[p] = row[p]
        PROVE  KeepsConsumption(q)
    BY <2>3 DEF KeepsConsumption, Facts
  <2>4. ASSUME NEW r \in Ids, CommitFinalize(r) PROVE KeepsConsumption(q)
    BY <2>1, <2>4 DEF CommitFinalize, KeepsConsumption, Facts, Row
  <2>5. ASSUME NEW r \in Ids, NEW u \in Users, NEW a \in Amounts, CommitReserve(r, u, a)
        PROVE  KeepsConsumption(q)
    BY <2>1, <2>3, <2>5 DEF CommitReserve
  <2>6. ASSUME NEW r \in Ids, NEW ch \in Channels, CommitMark(r, ch)
        PROVE  KeepsConsumption(q)
    BY <2>1, <2>3, <2>6 DEF CommitMark
  <2>7. ASSUME NEW r \in Ids, CommitRelease(r) PROVE KeepsConsumption(q)
    BY <2>1, <2>3, <2>7 DEF CommitRelease
  <2>8. ASSUME NEW r \in Ids, NEW ch \in Channels, NEW c \in Costs, CommitConsumption(r, ch, c)
        PROVE  KeepsConsumption(q)
    BY <2>1, <2>3, <2>8 DEF CommitConsumption
  <2>9. ASSUME NEW r \in Ids, CommitRefund(r) PROVE KeepsConsumption(q)
    BY <2>1, <2>3, <2>9 DEF CommitRefund
  <2>10. ASSUME NEW r \in Ids, GrowStale(r) PROVE KeepsConsumption(q)
    BY <2>1, <2>3, <2>10 DEF GrowStale
  <2>11. QED
    BY <1>1, NextCommits, <2>2, <2>4, <2>5, <2>6, <2>7, <2>8, <2>9, <2>10
    DEF AddBalance, SetUserEnabled, vars
<1>2. TypeInv /\ [Next]_vars => [\A r \in Ids : KeepsConsumption(r)]_vars
  BY <1>1
<1>3. QED
  BY <1>2, InitType, NextType, PTL DEF Spec, ConsumptionIsFinal

-----------------------------------------------------------------------------
(* The append-only ledger says what the status says.                       *)

\* The part of Reconciled that speaks of one reservation.
ReconciledAt(r) ==
  /\ Postings(r) = ExpectedPostings(r)
  /\ \A e \in entries : e.id = r => e.user = row[r].user
  /\ {l \in usage : l.id = r} =
       IF row[r].status = "settled" THEN {[id |-> r, cost |-> row[r].cost]} ELSE {}

\* Posting adds one pair to its own reservation and none to the others.
LEMMA PostPostings ==
  ASSUME NEW r \in Ids, NEW kind, NEW u, NEW d, Post(r, kind, u, d)
  PROVE  /\ Postings(r)' = Postings(r) \cup {<<kind, d>>}
         /\ \A q \in Ids \ {r} : Postings(q)' = Postings(q)
         /\ \A e \in entries' : e \in entries \/ (e.id = r /\ e.user = u)
<1> DEFINE new == [id |-> r, kind |-> kind, user |-> u, amount |-> d,
                   after |-> balance[u] + d, version |-> version[u] + 1]
<1>1. entries' = entries \cup {new}
  BY DEF Post
<1>2. new.id = r /\ new.kind = kind /\ new.amount = d /\ new.user = u
  OBVIOUS
<1> HIDE DEF new
<1>3. Postings(r)' = Postings(r) \cup {<<kind, d>>}
  BY <1>1, <1>2 DEF Postings
<1>4. ASSUME NEW q \in Ids \ {r} PROVE Postings(q)' = Postings(q)
  BY <1>1, <1>2 DEF Postings
<1>5. QED
  BY <1>1, <1>2, <1>3, <1>4

\* A row that keeps its status class, owner and sums needs no new entry.
LEMMA SameBooks ==
  ASSUME NEW q \in Ids, ReconciledAt(q), entries' = entries, usage' = usage,
         row'[q].user = row[q].user, row'[q].amount = row[q].amount, row'[q].cost = row[q].cost,
         \/ row'[q].status = row[q].status
         \/ {row[q].status, row'[q].status} \subseteq {"reserved", "in_flight", "consumed_unsettled"}
  PROVE  ReconciledAt(q)'
BY DEF ReconciledAt, Postings, ExpectedPostings

LEMMA InitReconciled == Init => \A r \in Ids : ReconciledAt(r)
  BY DEF Init, ReconciledAt, Postings, ExpectedPostings, AbsentRow

LEMMA NextReconciled ==
  ASSUME TypeInv, \A r \in Ids : ReconciledAt(r), [Next]_vars, NEW q \in Ids
  PROVE  ReconciledAt(q)'
<1> USE DEF TypeInv
<1>0. row \in [Ids -> Row]
  BY DEF TypeOK
<1>1. ASSUME NEW r \in Ids, NEW u \in Users, NEW a \in Amounts, CommitReserve(r, u, a)
      PROVE  ReconciledAt(q)'
  <2>1. Postings(r) = {}
    BY <1>1 DEF CommitReserve, ReconciledAt, ExpectedPostings
  <2>2. \A e \in entries : e.id # r
    BY <2>1 DEF Postings
  <2>3. /\ Postings(r)' = Postings(r) \cup {<<"reserve", -a>>}
        /\ \A p \in Ids \ {r} : Postings(p)' = Postings(p)
        /\ \A e \in entries' : e \in entries \/ (e.id = r /\ e.user = u)
    BY <1>1, PostPostings DEF CommitReserve
  <2>4. /\ row'[r].status = "reserved" /\ row'[r].amount = a /\ row'[r].user = u
        /\ \A p \in Ids \ {r} : row'[p] = row[p]
    BY <1>0, <1>1 DEF CommitReserve, AbsentRow
  <2>5. CASE q = r
    BY <1>1, <2>1, <2>2, <2>3, <2>4, <2>5 DEF CommitReserve, ReconciledAt, ExpectedPostings
  <2>6. CASE q # r
    BY <1>1, <2>3, <2>4, <2>6 DEF CommitReserve, ReconciledAt, ExpectedPostings
  <2>7. QED
    BY <2>5, <2>6
<1>2. ASSUME NEW r \in Ids, CommitFinalize(r)
      PROVE  ReconciledAt(q)'
  <2>1. /\ Postings(r)' = Postings(r) \cup {<<"settle", row[r].amount - row[r].cost>>}
        /\ \A p \in Ids \ {r} : Postings(p)' = Postings(p)
        /\ \A e \in entries' : e \in entries \/ (e.id = r /\ e.user = row[r].user)
    BY <1>2, PostPostings DEF CommitFinalize
  <2>2. /\ row'[r] = [row[r] EXCEPT !.status = "settled", !.stale = FALSE]
        /\ \A p \in Ids \ {r} : row'[p] = row[p]
    BY <1>0, <1>2 DEF CommitFinalize
  <2>3. /\ row'[r].status = "settled" /\ row'[r].user = row[r].user
        /\ row'[r].amount = row[r].amount /\ row'[r].cost = row[r].cost
    BY <1>0, <2>2 DEF Row
  <2>4. \A l \in usage' : l \in usage \/ l = [id |-> r, cost |-> row[r].cost]
    BY <1>2 DEF CommitFinalize
  <2>5. CASE q = r
    <3>1. Postings(q)' = ExpectedPostings(q)'
      <4>1. Postings(r) = {<<"reserve", -row[r].amount>>}
        BY <1>2 DEF CommitFinalize, ReconciledAt, ExpectedPostings
      <4>2. ExpectedPostings(r)' = {<<"reserve", -row[r].amount>>,
                                    <<"settle", row[r].amount - row[r].cost>>}
        BY <2>3 DEF ExpectedPostings
      <4>3. QED
        BY <2>1, <2>5, <4>1, <4>2
    <3>2. {l \in usage' : l.id = q} = {[id |-> r, cost |-> row[r].cost]}
      BY <1>2, <2>5 DEF CommitFinalize
    <3>3. QED
      BY <2>1, <2>3, <2>5, <3>1, <3>2 DEF ReconciledAt
  <2>6. CASE q # r
    <3>1. {l \in usage' : l.id = q} = {l \in usage : l.id = q}
      BY <1>2, <2>6 DEF CommitFinalize
    <3>2. QED
      BY <2>1, <2>2, <2>6, <3>1 DEF ReconciledAt, ExpectedPostings
  <2>7. QED
    BY <2>5, <2>6
<1>3. ASSUME NEW r \in Ids, CommitRefund(r)
      PROVE  ReconciledAt(q)'
  <2>1. /\ Postings(r)' = Postings(r) \cup {<<"refund", row[r].amount>>}
        /\ \A p \in Ids \ {r} : Postings(p)' = Postings(p)
        /\ \A e \in entries' : e \in entries \/ (e.id = r /\ e.user = row[r].user)
    BY <1>3, PostPostings DEF CommitRefund
  <2>2. /\ row'[r] = [row[r] EXCEPT !.status = "refunded", !.stale = FALSE]
        /\ \A p \in Ids \ {r} : row'[p] = row[p]
    BY <1>0, <1>3 DEF CommitRefund
  <2>3. /\ row'[r].status = "refunded" /\ row'[r].user = row[r].user
        /\ row'[r].amount = row[r].amount /\ row'[r].cost = row[r].cost
    BY <1>0, <2>2 DEF Row
  <2>4. CASE q = r
    <3>1. Postings(r) = {<<"reserve", -row[r].amount>>} /\ {l \in usage : l.id = r} = {}
      BY <1>3 DEF CommitRefund, ReconciledAt, ExpectedPostings
    <3>2. ExpectedPostings(r)' = {<<"reserve", -row[r].amount>>, <<"refund", row[r].amount>>}
      BY <2>3 DEF ExpectedPostings
    <3>3. Postings(r)' = ExpectedPostings(r)'
      BY <2>1, <3>1, <3>2
    <3>4. {l \in usage' : l.id = r} = {}
      BY <1>3, <3>1 DEF CommitRefund
    <3>5. \A e \in entries' : e.id = r => e.user = row'[r].user
      BY <2>1, <2>3 DEF ReconciledAt
    <3>6. QED
      BY <2>3, <2>4, <3>3, <3>4, <3>5 DEF ReconciledAt
  <2>5. CASE q # r
    <3>1. {l \in usage' : l.id = q} = {l \in usage : l.id = q}
      BY <1>3 DEF CommitRefund
    <3>2. QED
      BY <2>1, <2>2, <2>5, <3>1 DEF ReconciledAt, ExpectedPostings
  <2>6. QED
    BY <2>4, <2>5
<1>4. ASSUME NEW r \in Ids, NEW ch \in Channels, CommitMark(r, ch)
      PROVE  ReconciledAt(q)'
  <2>1. /\ row'[q].user = row[q].user
        /\ row'[q].amount = row[q].amount
        /\ row'[q].cost = row[q].cost
    BY <1>0, <1>4 DEF CommitMark, Row
  <2>2. \/ row'[q].status = row[q].status
        \/ row[q].status = "reserved" /\ row'[q].status = "in_flight"
    BY <1>0, <1>4 DEF CommitMark, Row
  <2>3. QED
    BY <1>4, <2>1, <2>2, SameBooks DEF CommitMark
<1>5. ASSUME NEW r \in Ids, CommitRelease(r)
      PROVE  ReconciledAt(q)'
  <2>1. /\ row'[q].user = row[q].user
        /\ row'[q].amount = row[q].amount
        /\ row'[q].cost = row[q].cost
    BY <1>0, <1>5 DEF CommitRelease, Row
  <2>2. \/ row'[q].status = row[q].status
        \/ row[q].status = "in_flight" /\ row'[q].status = "reserved"
    BY <1>0, <1>5 DEF CommitRelease, Row
  <2>3. QED
    BY <1>5, <2>1, <2>2, SameBooks DEF CommitRelease
<1>6. ASSUME NEW r \in Ids, NEW ch \in Channels, NEW c \in Costs, CommitConsumption(r, ch, c)
      PROVE  ReconciledAt(q)'
  <2>1. row'[q].user = row[q].user /\ row'[q].amount = row[q].amount
    BY <1>0, <1>6 DEF CommitConsumption, Row
  <2>2. \/ row'[q].status = row[q].status /\ row'[q].cost = row[q].cost
        \/ row[q].status = "in_flight" /\ row'[q].status = "consumed_unsettled"
    BY <1>0, <1>6 DEF CommitConsumption, Row
  <2>3. QED
    BY <1>6, <2>1, <2>2 DEF CommitConsumption, ReconciledAt, Postings, ExpectedPostings
<1>7. ASSUME NEW r \in Ids, GrowStale(r)
      PROVE  ReconciledAt(q)'
  BY <1>0, <1>7, SameBooks DEF GrowStale, Row
<1>8. CASE /\ UNCHANGED <<row, entries, usage>>
  BY <1>8 DEF ReconciledAt, Postings, ExpectedPostings
<1>9. QED
  BY NextCommits, <1>1, <1>2, <1>3, <1>4, <1>5, <1>6, <1>7, <1>8
  DEF AddBalance, SetUserEnabled, vars

\* One debit, and at most one settlement or refund, for every reservation: the
\* rows of billing_ledger and usage_logs are exactly those its status calls for.
THEOREM LedgerReconciled == Spec => []Reconciled
<1>1. TypeInv /\ (\A r \in Ids : ReconciledAt(r)) /\ [Next]_vars
        => (\A r \in Ids : ReconciledAt(r))'
  BY NextReconciled
<1>2. (\A r \in Ids : ReconciledAt(r)) => Reconciled
  BY DEF Reconciled, ReconciledAt
<1>3. QED
  BY InitType, NextType, InitReconciled, <1>1, <1>2, PTL DEF Spec

-----------------------------------------------------------------------------
(* Every balance can be audited from the ledger.                           *)

\* The entry a posting appends continues the chain of its user.
LEMMA PostAudit ==
  ASSUME TypeOK, AuditChain, NEW r \in Ids, NEW kind \in Kinds, NEW u \in Users, NEW d \in Int,
         Post(r, kind, u, d)
  PROVE  AuditChain'
<1> DEFINE new == [id |-> r, kind |-> kind, user |-> u, amount |-> d,
                   after |-> balance[u] + d, version |-> version[u] + 1]
<1>1. new.user = u /\ new.amount = d /\ new.after = balance[u] + d /\ new.version = version[u] + 1
  OBVIOUS
<1>2. entries' = entries \cup {new}
  BY DEF Post
<1> HIDE DEF new
<1>3. /\ balance \in [Users -> Int] /\ version \in [Users -> Nat]
      /\ \A e \in entries : e.user \in Users /\ e.version \in Nat /\ e.after \in Int
  BY DEF TypeOK, Entry
<1>4. /\ balance'[u] = balance[u] + d /\ version'[u] = version[u] + 1
      /\ \A w \in Users \ {u} : balance'[w] = balance[w] /\ version'[w] = version[w]
  BY <1>3 DEF Post
<1>5. /\ balance[u] \in Int /\ version[u] \in Nat
      /\ \A e \in entries : /\ e.version \in 1..version[e.user]
                            /\ e.version = version[e.user] => e.after = balance[e.user]
  BY <1>3 DEF AuditChain
<1>6. \A e \in entries : e.user = u =>
        /\ e.version < new.version
        /\ new.version = e.version + 1 => new.after = e.after + new.amount
  BY <1>1, <1>3, <1>5
<1>7. ASSUME NEW e \in entries'
      PROVE  /\ e.version \in 1..version'[e.user]
             /\ e.version = version'[e.user] => e.after = balance'[e.user]
  <2>1. CASE e = new
    BY <1>1, <1>4, <1>5, <2>1
  <2>2. CASE e \in entries /\ e.user = u
    BY <1>3, <1>4, <1>5, <2>2
  <2>3. CASE e \in entries /\ e.user # u
    BY <1>3, <1>4, <1>5, <2>3
  <2>4. QED
    BY <1>2, <2>1, <2>2, <2>3
<1>8. ASSUME NEW e \in entries', NEW f \in entries', e.user = f.user
      PROVE  /\ e.version = f.version => e = f
             /\ f.version = e.version + 1 => f.after = e.after + f.amount
  <2>1. CASE e \in entries /\ f \in entries
    BY <1>8, <2>1 DEF AuditChain
  <2>2. CASE e \in entries /\ f = new
    BY <1>1, <1>3, <1>5, <1>6, <1>8, <2>2
  <2>3. CASE e = new /\ f \in entries
    BY <1>1, <1>3, <1>5, <1>6, <1>8, <2>3
  <2>4. CASE e = new /\ f = new
    BY <1>1, <1>5, <2>4
  <2>5. QED
    BY <1>2, <2>1, <2>2, <2>3, <2>4
<1>9. QED
  BY <1>7, <1>8 DEF AuditChain

LEMMA NextAudit ==
  ASSUME TypeInv, AuditChain, [Next]_vars
  PROVE  AuditChain'
<1> USE DEF TypeInv
<1>1. ASSUME NEW r \in Ids, NEW u \in Users, NEW a \in Amounts, CommitReserve(r, u, a)
      PROVE  AuditChain'
  <2>1. -a \in Int /\ "reserve" \in Kinds
    BY AmountsAssumption DEF Kinds
  <2>2. QED
    BY <1>1, <2>1, PostAudit DEF CommitReserve
<1>2. ASSUME NEW r \in Ids, CommitFinalize(r)
      PROVE  AuditChain'
  <2>1. row[r].user \in Users /\ row[r].amount - row[r].cost \in Int /\ "settle" \in Kinds
    BY <1>2 DEF CommitFinalize, TypeOK, CostWithinHold, Row, Kinds
  <2>2. QED
    BY <1>2, <2>1, PostAudit DEF CommitFinalize
<1>3. ASSUME NEW r \in Ids, CommitRefund(r)
      PROVE  AuditChain'
  <2>1. row[r].user \in Users /\ row[r].amount \in Int /\ "refund" \in Kinds
    BY <1>3 DEF CommitRefund, TypeOK, CostWithinHold, Row, Kinds
  <2>2. QED
    BY <1>3, <2>1, PostAudit DEF CommitRefund
<1>4. ASSUME NEW u \in Users, NEW d \in Deltas, AddBalance(u, d)
      PROVE  AuditChain'
  <2>1. /\ entries' = entries /\ balance \in [Users -> Int] /\ version \in [Users -> Nat]
        /\ \A e \in entries : e.user \in Users /\ e.version \in Nat
    BY <1>4 DEF AddBalance, TypeOK, Entry
  <2>2. /\ version'[u] = version[u] + 1
        /\ \A w \in Users \ {u} : balance'[w] = balance[w] /\ version'[w] = version[w]
    BY <1>4, <2>1 DEF AddBalance
  <2>3. ASSUME NEW e \in entries
        PROVE  /\ e.version \in 1..version'[e.user]
               /\ e.version = version'[e.user] => e.after = balance'[e.user]
    <3>1. e.version \in 1..version[e.user] /\ version[u] \in Nat
      BY <2>1 DEF AuditChain
    <3>2. CASE e.user = u
      BY <2>1, <2>2, <3>1, <3>2
    <3>3. CASE e.user # u
      BY <2>1, <2>2, <3>3 DEF AuditChain
    <3>4. QED
      BY <3>2, <3>3
  <2>4. QED
    BY <2>1, <2>3 DEF AuditChain
<1>5. CASE UNCHANGED <<balance, version, entries>>
  BY <1>5 DEF AuditChain
<1>6. QED
  BY NextCommits, <1>1, <1>2, <1>3, <1>4, <1>5
  DEF CommitMark, CommitRelease, CommitConsumption, SetUserEnabled, GrowStale, vars

\* The entries of a user form a chain ordered by balance_version, and the latest
\* one carries the balance the user has.
THEOREM LedgerAuditChain == Spec => []AuditChain
<1>1. Init => AuditChain
  BY DEF Init, AuditChain
<1>2. TypeInv /\ AuditChain /\ [Next]_vars => AuditChain'
  BY NextAudit
<1>3. QED
  BY InitType, NextType, <1>1, <1>2, PTL DEF Spec
-----------------------------------------------------------------------------
(* Module Ledger implements module Wallet: a committed transaction is one  *)
(* step of the wallet, or does not show in it.                             *)

\* The hold a row stands for, as a value of row alone.
LEMMA OneRowOneHold ==
  ASSUME NEW r \in Ids, NEW s, row \in [Ids -> Row], row' = [row EXCEPT ![r] = s]
  PROVE  [q \in Ids |-> HoldOf(q)]' = [[q \in Ids |-> HoldOf(q)] EXCEPT ![r] =
           [fate |-> FateOf(s.status), user |-> s.user, amount |-> s.amount, cost |-> s.cost]]
<1> DEFINE h == [q \in Ids |-> HoldOf(q)]
           new == [fate |-> FateOf(s.status), user |-> s.user, amount |-> s.amount, cost |-> s.cost]
<1>1. row'[r] = s /\ \A q \in Ids \ {r} : row'[q] = row[q]
  OBVIOUS
<1>2. HoldOf(r)' = new
  BY <1>1 DEF HoldOf, FateOf
<1>3. \A q \in Ids \ {r} : HoldOf(q)' = HoldOf(q)
  BY <1>1 DEF HoldOf, FateOf
<1>4. h' = [q \in Ids |-> HoldOf(q)']
  OBVIOUS
<1>5. QED
  BY <1>2, <1>3, <1>4

LEMMA InitRefines == Init => W!WInit
<1> SUFFICES ASSUME Init PROVE W!WInit
  OBVIOUS
<1>1. balance \in [Users -> Nat]
  <2>1. Openings \subseteq Nat
    BY OtherSums
  <2>2. QED
    BY <2>1 DEF Init
<1>2. \A r \in Ids : HoldOf(r) = W!Absent
  BY DEF Init, HoldOf, FateOf, AbsentRow, W!Absent
<1>3. QED
  BY <1>1, <1>2 DEF W!WInit

\* A row that keeps its fate and its sums keeps the wallet's view of every hold.
LEMMA SameFateSameHold ==
  ASSUME row \in [Ids -> Row], NEW r \in Ids, NEW s, row' = [row EXCEPT ![r] = s],
         FateOf(s.status) = FateOf(row[r].status),
         s.user = row[r].user, s.amount = row[r].amount, s.cost = row[r].cost
  PROVE  [q \in Ids |-> HoldOf(q)]' = [q \in Ids |-> HoldOf(q)]
<1>1. row'[r] = s /\ \A q \in Ids \ {r} : row'[q] = row[q]
  OBVIOUS
<1>2. \A q \in Ids : HoldOf(q)' = HoldOf(q)
  BY <1>1 DEF HoldOf, FateOf
<1>3. QED
  BY <1>2

LEMMA NextRefines ==
  ASSUME TypeInv, [Next]_vars
  PROVE  [W!WNext]_W!wvars
<1> DEFINE h == [q \in Ids |-> HoldOf(q)]
<1>0. row \in [Ids -> Row] /\ balance \in [Users -> Int] /\ \A q \in Ids : row[q] \in Row
  BY DEF TypeInv, TypeOK
<1>1. ASSUME NEW r \in Ids, NEW u \in Users, NEW a \in Amounts, CommitReserve(r, u, a)
      PROVE  W!WNext
  <2>1. h[r].fate = "absent"
    BY <1>1 DEF CommitReserve, HoldOf, FateOf
  <2>2. h' = [h EXCEPT ![r] = [fate |-> "held", user |-> u, amount |-> a, cost |-> 0]]
    <3>1. DEFINE s == [AbsentRow EXCEPT !.status = "reserved", !.user = u, !.amount = a]
    <3>2. s.status = "reserved" /\ s.user = u /\ s.amount = a /\ s.cost = 0
      BY DEF AbsentRow
    <3>3. row' = [row EXCEPT ![r] = s]
      BY <1>1 DEF CommitReserve
    <3> HIDE DEF s
    <3>4. h' = [h EXCEPT ![r] = [fate |-> FateOf(s.status), user |-> s.user,
                                 amount |-> s.amount, cost |-> s.cost]]
      BY <1>0, <3>3, OneRowOneHold
    <3>5. QED
      BY <3>2, <3>4 DEF FateOf
  <2>3. a \in Nat /\ a > 0 /\ balance[u] \in Int /\ balance[u] >= a
    BY <1>0, <1>1, AmountsAssumption DEF CommitReserve, CanDebit
  <2>4. balance' = [balance EXCEPT ![u] = @ - a]
    BY <1>0, <1>1, <2>3 DEF CommitReserve, Post
  <2>5. W!Place(r, u, a)
    BY <2>1, <2>2, <2>3, <2>4 DEF W!Place
  <2>6. QED
    BY <2>5 DEF W!WNext
<1>2. ASSUME NEW r \in Ids, NEW ch \in Channels, NEW c \in Costs, CommitConsumption(r, ch, c)
      PROVE  W!WNext
  <2>1. /\ h[r].fate = "held" /\ h[r].amount = row[r].amount
        /\ h[r].user = row[r].user /\ c \in 0..h[r].amount
    BY <1>2 DEF CommitConsumption, HoldOf, FateOf
  <2>2. h' = [h EXCEPT ![r] = [fate |-> "owed", user |-> h[r].user,
                              amount |-> h[r].amount, cost |-> c]]
    <3>1. DEFINE s == [row[r] EXCEPT !.status = "consumed_unsettled", !.cost = c, !.stale = FALSE]
    <3>2. s.status = "consumed_unsettled" /\ s.user = row[r].user
          /\ s.amount = row[r].amount /\ s.cost = c
      BY <1>0 DEF Row
    <3>3. row' = [row EXCEPT ![r] = s]
      BY <1>0, <1>2 DEF CommitConsumption
    <3> HIDE DEF s
    <3>4. h' = [h EXCEPT ![r] = [fate |-> FateOf(s.status), user |-> s.user,
                                 amount |-> s.amount, cost |-> s.cost]]
      BY <1>0, <3>3, OneRowOneHold
    <3>5. FateOf(s.status) = "owed"
      BY <3>2 DEF FateOf
    <3> HIDE DEF h
    <3>6. QED
      BY <2>1, <3>2, <3>4, <3>5
  <2>3. balance' = balance
    BY <1>2 DEF CommitConsumption
  <2>4. W!Owe(r, c)
    BY <2>1, <2>2, <2>3 DEF W!Owe
  <2>5. QED
    BY <2>1, <2>4 DEF W!WNext
<1>3. ASSUME NEW r \in Ids, CommitFinalize(r)
      PROVE  W!WNext
  <2>1. /\ h[r] = [fate |-> "owed", user |-> row[r].user, amount |-> row[r].amount,
                    cost |-> row[r].cost]
    BY <1>3 DEF CommitFinalize, HoldOf, FateOf
  <2>2. h' = [h EXCEPT ![r].fate = "charged"]
    <3>1. DEFINE s == [row[r] EXCEPT !.status = "settled", !.stale = FALSE]
    <3>2. s.status = "settled" /\ s.user = row[r].user
          /\ s.amount = row[r].amount /\ s.cost = row[r].cost
      BY <1>0 DEF Row
    <3>3. row' = [row EXCEPT ![r] = s]
      BY <1>0, <1>3 DEF CommitFinalize
    <3> HIDE DEF s
    <3>4. h' = [h EXCEPT ![r] = [fate |-> FateOf(s.status), user |-> s.user,
                                 amount |-> s.amount, cost |-> s.cost]]
      BY <1>0, <3>3, OneRowOneHold
    <3>5. [fate |-> FateOf(s.status), user |-> s.user, amount |-> s.amount, cost |-> s.cost]
            = [h[r] EXCEPT !.fate = "charged"]
      BY <2>1, <3>2 DEF FateOf
    <3>6. QED
      BY <3>4, <3>5
  <2>3. balance' = [balance EXCEPT ![h[r].user] = @ + (h[r].amount - h[r].cost)]
    <3>1. balance' = [balance EXCEPT ![row[r].user] = @ + (row[r].amount - row[r].cost)]
      BY <1>3 DEF CommitFinalize, Post
    <3>2. h[r].user = row[r].user /\ h[r].amount = row[r].amount /\ h[r].cost = row[r].cost
      BY <2>1
    <3> HIDE DEF h
    <3>3. QED
      BY <3>1, <3>2
  <2>4. W!Charge(r)
    BY <2>1, <2>2, <2>3 DEF W!Charge
  <2>5. QED
    BY <2>4 DEF W!WNext
<1>4. ASSUME NEW r \in Ids, CommitRefund(r)
      PROVE  W!WNext
  <2>1. /\ h[r] = [fate |-> "held", user |-> row[r].user, amount |-> row[r].amount,
                    cost |-> row[r].cost]
    BY <1>4 DEF CommitRefund, HoldOf, FateOf
  <2>2. h' = [h EXCEPT ![r].fate = "returned"]
    <3>1. DEFINE s == [row[r] EXCEPT !.status = "refunded", !.stale = FALSE]
    <3>2. s.status = "refunded" /\ s.user = row[r].user
          /\ s.amount = row[r].amount /\ s.cost = row[r].cost
      BY <1>0 DEF Row
    <3>3. row' = [row EXCEPT ![r] = s]
      BY <1>0, <1>4 DEF CommitRefund
    <3> HIDE DEF s
    <3>4. h' = [h EXCEPT ![r] = [fate |-> FateOf(s.status), user |-> s.user,
                                 amount |-> s.amount, cost |-> s.cost]]
      BY <1>0, <3>3, OneRowOneHold
    <3>5. [fate |-> FateOf(s.status), user |-> s.user, amount |-> s.amount, cost |-> s.cost]
            = [h[r] EXCEPT !.fate = "returned"]
      BY <2>1, <3>2 DEF FateOf
    <3>6. QED
      BY <3>4, <3>5
  <2>3. balance' = [balance EXCEPT ![h[r].user] = @ + h[r].amount]
    <3>1. balance' = [balance EXCEPT ![row[r].user] = @ + row[r].amount]
      BY <1>4 DEF CommitRefund, Post
    <3>2. h[r].user = row[r].user /\ h[r].amount = row[r].amount
      BY <2>1
    <3> HIDE DEF h
    <3>3. QED
      BY <3>1, <3>2
  <2>4. W!Return(r)
    BY <2>1, <2>2, <2>3 DEF W!Return
  <2>5. QED
    BY <2>4 DEF W!WNext
<1>5. ASSUME NEW u \in Users, NEW d \in Deltas, AddBalance(u, d)
      PROVE  W!WNext
  <2>1. h' = h
    BY <1>5 DEF AddBalance, HoldOf, FateOf
  <2>2. balance' = [balance EXCEPT ![u] = balance'[u]]
    BY <1>0, <1>5 DEF AddBalance
  <2>3. W!Adjust(u)
    BY <2>1, <2>2 DEF W!Adjust
  <2>4. QED
    BY <2>3 DEF W!WNext
<1>6. ASSUME NEW r \in Ids, NEW ch \in Channels, CommitMark(r, ch)
      PROVE  h' = h /\ balance' = balance
  <2> DEFINE s == [row[r] EXCEPT !.status = "in_flight", !.channel = ch, !.stale = FALSE]
  <2>1. /\ s.user = row[r].user /\ s.amount = row[r].amount /\ s.cost = row[r].cost
        /\ FateOf(s.status) = FateOf(row[r].status)
    BY <1>0, <1>6 DEF CommitMark, Row, FateOf
  <2>2. row' = [row EXCEPT ![r] = s] /\ balance' = balance
    BY <1>0, <1>6 DEF CommitMark
  <2> HIDE DEF s
  <2>3. QED
    BY <1>0, <2>1, <2>2, SameFateSameHold
<1>7. ASSUME NEW r \in Ids, CommitRelease(r)
      PROVE  h' = h /\ balance' = balance
  <2> DEFINE s == [row[r] EXCEPT !.status = "reserved", !.stale = FALSE]
  <2>1. /\ s.user = row[r].user /\ s.amount = row[r].amount /\ s.cost = row[r].cost
        /\ FateOf(s.status) = FateOf(row[r].status)
    BY <1>0, <1>7 DEF CommitRelease, Row, FateOf
  <2>2. row' = [row EXCEPT ![r] = s] /\ balance' = balance
    BY <1>0, <1>7 DEF CommitRelease
  <2> HIDE DEF s
  <2>3. QED
    BY <1>0, <2>1, <2>2, SameFateSameHold
<1>8. ASSUME NEW r \in Ids, GrowStale(r)
      PROVE  h' = h /\ balance' = balance
  <2> DEFINE s == [row[r] EXCEPT !.stale = TRUE]
  <2>1. /\ s.user = row[r].user /\ s.amount = row[r].amount /\ s.cost = row[r].cost
        /\ FateOf(s.status) = FateOf(row[r].status)
    BY <1>0 DEF Row
  <2>2. row' = [row EXCEPT ![r] = s] /\ balance' = balance
    BY <1>0, <1>8 DEF GrowStale
  <2> HIDE DEF s
  <2>3. QED
    BY <1>0, <2>1, <2>2, SameFateSameHold
<1>9. CASE UNCHANGED <<row, balance>>
  BY <1>9 DEF HoldOf, FateOf, W!wvars
<1>10. CASE W!WNext
  BY <1>10
<1>11. CASE h' = h /\ balance' = balance
  BY <1>11 DEF W!wvars
<1>12. QED
  BY NextCommits, <1>1, <1>2, <1>3, <1>4, <1>5, <1>6, <1>7, <1>8, <1>9, <1>10, <1>11
  DEF SetUserEnabled, vars

\* Every behaviour of the ledger is a behaviour of the wallet: no retry, replay,
\* lost acknowledgement or administrator makes a hold be charged and returned, or
\* returned twice.
THEOREM LedgerImplementsWallet == Spec => ImplementsWallet
<1>1. TypeInv /\ [Next]_vars => [W!WNext]_W!wvars
  BY NextRefines
<1>2. QED
  BY InitType, NextType, InitRefines, <1>1, PTL DEF Spec, ImplementsWallet, W!WSpec

-----------------------------------------------------------------------------
(* Sums over finite sets.                                                  *)

\* g is the sum of w over every subset of S.
SumsUp(g, w, S) ==
  /\ g \in [SUBSET S -> Int] /\ g[{}] = 0
  /\ \A s \in SUBSET S : \A x \in s : g[s] = w[x] + g[s \ {x}]

TotalOf(w, S) == (CHOOSE g : SumsUp(g, w, S))[S]

\* No smallest set is without a sum, so none is.
LEMMA SumsExist ==
  ASSUME NEW S, IsFiniteSet(S), NEW w \in [S -> Int]
  PROVE  \E g : SumsUp(g, w, S)
<1> DEFINE Bad == {s \in SUBSET S : ~ \E g : SumsUp(g, w, s)}
<1> SUFFICES ASSUME Bad # {} PROVE FALSE
  BY Zenon DEF Bad
<1>1. Bad \subseteq FiniteSubsetsOf(S)
  BY FS_Subset DEF FiniteSubsetsOf
<1>2. PICK s \in Bad : \A t \in Bad : <<t, s>> \notin StrictSubsetOrdering(S)
  <2>. HIDE DEF Bad
  <2>1. QED
    BY <1>1, FS_StrictSubsetOrderingWellFounded, WFMin
<1>3. CASE s = {}
  <2>1. SumsUp([t \in SUBSET {} |-> 0], w, {})
    BY DEF SumsUp
  <2>2. QED
    BY <1>3, <2>1 DEF Bad
<1>4. CASE s # {}
  <2>1. PICK x \in s : TRUE
    BY <1>4
  <2>2. s \ {x} \notin Bad
    BY <1>2, <2>1 DEF StrictSubsetOrdering
  <2>3. PICK f : SumsUp(f, w, s \ {x})
    BY <2>2 DEF Bad
  <2> DEFINE g == [t \in SUBSET s |-> IF x \in t THEN w[x] + f[t \ {x}] ELSE f[t]]
  <2>4. \A t \in SUBSET s : t \ {x} \in SUBSET (s \ {x}) /\ (x \notin t => t \in SUBSET (s \ {x}))
    OBVIOUS
  <2>5. \A y \in s : w[y] \in Int
    OBVIOUS
  <2>6. g \in [SUBSET s -> Int] /\ g[{}] = 0
    BY <2>3, <2>4, <2>5 DEF SumsUp
  <2>7. ASSUME NEW t \in SUBSET s, NEW y \in t PROVE g[t] = w[y] + g[t \ {y}]
    <3>1. CASE x \notin t
      BY <2>3, <2>4, <3>1 DEF SumsUp
    <3>2. CASE x = y
      BY <2>3, <2>4, <3>2 DEF SumsUp
    <3>3. CASE x \in t /\ x # y
      <4>1. f[t \ {x}] = w[y] + f[(t \ {x}) \ {y}]
        BY <2>3, <2>4, <3>3 DEF SumsUp
      <4>2. (t \ {x}) \ {y} = (t \ {y}) \ {x} /\ x \in t \ {y} /\ t \ {y} \in SUBSET s
        BY <3>3
      <4>3. g[t \ {y}] = w[x] + f[(t \ {x}) \ {y}]
        BY <4>2
      <4>4. f[(t \ {x}) \ {y}] \in Int
        BY <2>3, <2>4, <4>2 DEF SumsUp
      <4>5. g[t] = w[x] + f[t \ {x}]
        BY <3>3
      <4>6. QED
        BY <2>5, <4>1, <4>3, <4>4, <4>5
    <3>4. QED
      BY <3>1, <3>2, <3>3
  <2>8. SumsUp(g, w, s)
    BY <2>6, <2>7 DEF SumsUp
  <2>9. QED
    BY <2>8 DEF Bad
<1>5. QED
  BY <1>3, <1>4

\* h adds up element by element, in the order e.
Steps(h, e, w, S) ==
  /\ \A s \in SUBSET S : s # {} => e[s] \in s
  /\ h = [s \in SUBSET S |-> IF s = {} THEN 0 ELSE w[e[s]] + h[s \ {e[s]}]]

\* What is computed element by element, in any order, is the sum.
LEMMA SumsUnique ==
  ASSUME NEW S, IsFiniteSet(S), NEW w \in [S -> Int], NEW g, SumsUp(g, w, S),
         NEW h, NEW e, Steps(h, e, w, S)
  PROVE  h = g
<1>. USE DEF Steps
<1> DEFINE Bad == {s \in SUBSET S : h[s] # g[s]}
<1>1. CASE Bad = {}
  BY <1>1 DEF SumsUp
<1>2. CASE Bad # {}
  <2>1. Bad \subseteq FiniteSubsetsOf(S)
    BY FS_Subset DEF FiniteSubsetsOf
  <2>2. PICK s \in Bad : \A t \in Bad : <<t, s>> \notin StrictSubsetOrdering(S)
    <3>. HIDE DEF Bad
    <3>1. QED
      BY <1>2, <2>1, FS_StrictSubsetOrderingWellFounded, WFMin
  <2>3. s # {}
    BY DEF SumsUp
  <2>4. PICK x \in s : x = e[s]
    BY <2>3
  <2>5. s \ {x} \notin Bad
    <3>1. <<s \ {x}, s>> \in StrictSubsetOrdering(S)
      BY <2>4 DEF StrictSubsetOrdering
    <3>. HIDE DEF Bad
    <3>2. QED
      BY <2>2, <3>1
  <2>6. h[s \ {x}] = g[s \ {x}]
    BY <2>5
  <2>7. h[s] = w[x] + h[s \ {x}]
    BY <2>3, <2>4
  <2>8. g[s] = w[x] + g[s \ {x}]
    BY <2>4 DEF SumsUp
  <2>9. QED
    BY <2>6, <2>7, <2>8
<1>3. QED
  BY <1>1, <1>2

LEMMA TotalIs ==
  ASSUME NEW S, IsFiniteSet(S), NEW w \in [S -> Int], NEW g, SumsUp(g, w, S)
  PROVE  TotalOf(w, S) = g[S]
<1> DEFINE f == CHOOSE f : SumsUp(f, w, S)
           e == [s \in SUBSET S |-> CHOOSE x \in s : TRUE]
<1>1. SumsUp(f, w, S)
  BY SumsExist
<1>. HIDE DEF f
<1>2. \A s \in SUBSET S : s # {} => e[s] \in s
  OBVIOUS
<1>3. f = [s \in SUBSET S |-> IF s = {} THEN 0 ELSE w[e[s]] + f[s \ {e[s]}]]
  <2>. HIDE DEF e
  <2>1. \A s \in SUBSET S : s # {} => f[s] = w[e[s]] + f[s \ {e[s]}]
    BY <1>1, <1>2 DEF SumsUp
  <2>2. QED
    BY <1>1, <2>1 DEF SumsUp
<1>4. f = g
  <2>1. Steps(f, e, w, S)
    BY <1>2, <1>3 DEF Steps
  <2>. HIDE DEF e
  <2>2. QED
    BY <1>1, <2>1, SumsUnique
<1>5. QED
  BY <1>4 DEF TotalOf, f

\* The laws of sums.
LEMMA TotalType ==
  ASSUME NEW S, IsFiniteSet(S), NEW w \in [S -> Int] PROVE TotalOf(w, S) \in Int
<1>1. PICK g : SumsUp(g, w, S)
  BY SumsExist
<1>2. TotalOf(w, S) = g[S]
  BY <1>1, TotalIs
<1>3. QED
  BY <1>1, <1>2 DEF SumsUp

\* Only the weights of the elements count.
LEMMA TotalAgrees ==
  ASSUME NEW S, NEW v, NEW w, \A x \in S : v[x] = w[x] PROVE TotalOf(v, S) = TotalOf(w, S)
<1>1. ASSUME NEW g PROVE SumsUp(g, v, S) = SumsUp(g, w, S)
  BY DEF SumsUp
<1>2. QED
  BY <1>1, Zenon DEF TotalOf

LEMMA TotalIsInt ==
  ASSUME NEW R, NEW S \in SUBSET R, IsFiniteSet(S), NEW w \in [R -> Int]
  PROVE  TotalOf(w, S) \in Int
<1> DEFINE v == [q \in S |-> w[q]]
<1>1. v \in [S -> Int] /\ \A q \in S : v[q] = w[q]
  OBVIOUS
<1>. HIDE DEF v
<1>2. TotalOf(v, S) \in Int /\ TotalOf(v, S) = TotalOf(w, S)
  BY <1>1, TotalType, TotalAgrees
<1>3. QED
  BY <1>2

LEMMA TotalOfNone == \A w : TotalOf(w, {}) = 0
<1>1. ASSUME NEW w PROVE TotalOf(w, {}) = 0
  <2>1. SumsUp([s \in SUBSET {} |-> 0], w, {})
    BY DEF SumsUp
  <2>2. SumsUp(CHOOSE g : SumsUp(g, w, {}), w, {})
    BY <2>1
  <2>3. QED
    BY <2>2 DEF TotalOf, SumsUp
<1>2. QED
  BY <1>1

LEMMA TotalAdds ==
  ASSUME NEW S, IsFiniteSet(S), NEW x, x \notin S, NEW w \in [S \cup {x} -> Int]
  PROVE  TotalOf(w, S \cup {x}) = TotalOf(w, S) + w[x]
<1> DEFINE T == S \cup {x}
<1>1. IsFiniteSet(T)
  BY FS_AddElement
<1>2. PICK g : SumsUp(g, w, T)
  BY <1>1, SumsExist
<1>3. TotalOf(w, T) = g[T]
  BY <1>1, <1>2, TotalIs
<1>4. g[T] = w[x] + g[S] /\ g[S] \in Int /\ w[x] \in Int
  <2>1. T \ {x} = S
    OBVIOUS
  <2>2. QED
    BY <1>2, <2>1 DEF SumsUp
<1> DEFINE f == [s \in SUBSET S |-> g[s]]
           v == [y \in S |-> w[y]]
<1>5. SumsUp(f, v, S)
  BY <1>2 DEF SumsUp
<1>6. TotalOf(v, S) = f[S]
  <2>. v \in [S -> Int]
    OBVIOUS
  <2>. HIDE DEF f, v
  <2>1. QED
    BY <1>5, TotalIs
<1>7. TotalOf(v, S) = TotalOf(w, S)
  <2>. \A y \in S : v[y] = w[y]
    OBVIOUS
  <2>. HIDE DEF v
  <2>1. QED
    BY TotalAgrees
<1>8. QED
  BY <1>3, <1>4, <1>6, <1>7

\* One element gets another weight.
LEMMA TotalChanges ==
  ASSUME NEW S, IsFiniteSet(S), NEW x \in S, NEW v \in [S -> Int], NEW w \in [S -> Int],
         \A y \in S \ {x} : v[y] = w[y]
  PROVE  TotalOf(w, S) = TotalOf(v, S) - v[x] + w[x]
<1> DEFINE R == S \ {x}
<1>1. IsFiniteSet(R) /\ x \notin R /\ S = R \cup {x}
  BY FS_Subset
<1>. v[x] \in Int /\ w[x] \in Int
  OBVIOUS
<1>2. /\ TotalOf(v, S) = TotalOf(v, R) + v[x]
      /\ TotalOf(w, S) = TotalOf(w, R) + w[x]
  <2>. HIDE DEF R
  <2>1. QED
    BY <1>1, TotalAdds
<1>3. TotalOf(v, R) = TotalOf(w, R)
  BY TotalAgrees
<1>4. TotalOf(v, R) \in Int
  <2>1. [y \in R |-> v[y]] \in [R -> Int]
    OBVIOUS
  <2>2. TotalOf([y \in R |-> v[y]], R) \in Int
    BY <1>1, <2>1, TotalType
  <2>3. \A y \in R : [z \in R |-> v[z]][y] = v[y]
    OBVIOUS
  <2>4. TotalOf([y \in R |-> v[y]], R) = TotalOf(v, R)
    <3> DEFINE u == [y \in R |-> v[y]]
    <3>. HIDE DEF u, R
    <3>1. QED
      BY <2>3, TotalAgrees DEF u
  <2>5. QED
    BY <2>2, <2>4
<1>5. QED
  BY <1>2, <1>3, <1>4

\* The sum as FiniteSetsExt computes it, with any choice of the next element.
LEMMA Computed ==
  ASSUME NEW S, IsFiniteSet(S), NEW w \in [S -> Int],
         NEW e, \A s \in SUBSET S : s # {} => e[s] \in s
  PROVE  /\ \E h : Steps(h, e, w, S)
         /\ \A h : Steps(h, e, w, S) => h[S] = TotalOf(w, S)
<1>1. PICK g : SumsUp(g, w, S)
  BY SumsExist
<1>2. Steps(g, e, w, S)
  <2>1. \A s \in SUBSET S : s # {} => g[s] = w[e[s]] + g[s \ {e[s]}]
    BY <1>1 DEF SumsUp
  <2>2. QED
    BY <1>1, <2>1 DEF SumsUp, Steps
<1>3. ASSUME NEW h, Steps(h, e, w, S) PROVE h[S] = TotalOf(w, S)
  BY <1>1, <1>3, SumsUnique, TotalIs
<1>4. QED
  BY <1>2, <1>3

\* What belongs to u.
Owned(owner, u) == {q \in Ids : owner[q] = u}

\* The owner and the weight of r change, of a thing that is somebody's only the weight.
Changes(o, v, p, w, r, nobody) ==
  /\ v \in [Ids -> Int] /\ w \in [Ids -> Int] /\ r \in Ids
  /\ \A q \in Ids \ {r} : p[q] = o[q] /\ w[q] = v[q]
  /\ o[r] \in {nobody, p[r]} /\ (o[r] = nobody => v[r] = 0)

LEMMA OwnedChanges ==
  ASSUME NEW o, NEW v, NEW p, NEW w, NEW r, NEW nobody, Changes(o, v, p, w, r, nobody),
         NEW u, u # nobody, IsFiniteSet(Owned(o, u))
  PROVE  /\ IsFiniteSet(Owned(p, u))
         /\ TotalOf(v, Owned(o, u)) \in Int
         /\ TotalOf(w, Owned(p, u)) =
              TotalOf(v, Owned(o, u)) + (IF u = p[r] THEN w[r] - v[r] ELSE 0)
<1> DEFINE S == Owned(o, u)
           T == Owned(p, u)
<1>. USE DEF Changes
<1>. \A q \in Ids : v[q] \in Int /\ w[q] \in Int
  OBVIOUS
<1>1. ASSUME NEW R \in SUBSET Ids, IsFiniteSet(R), NEW x \in [Ids -> Int]
      PROVE  TotalOf(x, R) \in Int /\ TotalOf(x, R) = TotalOf([q \in R |-> x[q]], R)
  <2> DEFINE y == [q \in R |-> x[q]]
  <2>1. y \in [R -> Int] /\ \A q \in R : y[q] = x[q]
    OBVIOUS
  <2>. HIDE DEF y
  <2>2. TotalOf(y, R) \in Int /\ TotalOf(y, R) = TotalOf(x, R)
    BY <1>1, <2>1, TotalType, TotalAgrees
  <2>3. QED
    BY <2>2 DEF y
<1>2. TotalOf(v, S) \in Int
  BY <1>1 DEF Owned
<1>3. CASE u # p[r]
  <2>1. S = T /\ \A q \in S : v[q] = w[q]
    BY <1>3 DEF Owned
  <2>2. TotalOf(v, S) = TotalOf(w, S)
    BY <2>1, TotalAgrees
  <2>3. QED
    BY <1>2, <1>3, <2>1, <2>2
<1>4. CASE u = p[r] /\ o[r] = u
  <2>1. S = T /\ r \in S /\ S \subseteq Ids /\ \A q \in S \ {r} : v[q] = w[q]
    BY <1>4 DEF Owned
  <2>2. TotalOf(w, S) = TotalOf(v, S) - v[r] + w[r]
    <3> DEFINE a == [q \in S |-> v[q]]
               b == [q \in S |-> w[q]]
    <3>1. a \in [S -> Int] /\ b \in [S -> Int] /\ (\A q \in S \ {r} : a[q] = b[q])
          /\ a[r] = v[r] /\ b[r] = w[r]
      BY <2>1
    <3>2. TotalOf(a, S) = TotalOf(v, S) /\ TotalOf(b, S) = TotalOf(w, S)
      BY <1>1, <2>1
    <3>. HIDE DEF a, b, S
    <3>3. TotalOf(b, S) = TotalOf(a, S) - a[r] + b[r]
      BY <2>1, <3>1, TotalChanges DEF S
    <3>4. QED
      BY <3>1, <3>2, <3>3
  <2>3. QED
    BY <1>2, <1>4, <2>1, <2>2
<1>5. CASE u = p[r] /\ o[r] # u
  <2>1. o[r] = nobody /\ v[r] = 0
    BY <1>5
  <2>2. T = S \cup {r} /\ r \notin S /\ \A q \in S : v[q] = w[q]
    BY <1>5 DEF Owned
  <2>3. IsFiniteSet(T)
    BY <2>2, FS_AddElement
  <2>4. TotalOf(w, T) = TotalOf(w, S) + w[r]
    <3> DEFINE b == [q \in T |-> w[q]]
    <3>1. b \in [T -> Int] /\ b[r] = w[r] /\ \A q \in S : b[q] = w[q]
      BY <2>2 DEF Owned
    <3>2. TotalOf(b, T) = TotalOf(w, T)
      BY <1>1, <2>3 DEF Owned
    <3>. HIDE DEF b, S, T
    <3>3. TotalOf(b, S) = TotalOf(w, S)
      BY <3>1, TotalAgrees
    <3>4. TotalOf(b, T) = TotalOf(b, S) + b[r]
      BY <2>2, <3>1, TotalAdds DEF S
    <3>5. QED
      BY <3>1, <3>2, <3>3, <3>4
  <2>5. TotalOf(v, S) = TotalOf(w, S)
    BY <2>2, TotalAgrees
  <2>6. QED
    BY <1>2, <1>5, <2>1, <2>3, <2>4, <2>5
<1>6. QED
  BY <1>3, <1>4, <1>5
-----------------------------------------------------------------------------
(* Money.                                                                  *)

Weights == [r \in Ids |-> Withheld(r)]
Owners  == [r \in Ids |-> row[r].user]

\* The library's sum is the sum.
LEMMA SumIsTotal ==
  ASSUME NEW S \in SUBSET Ids, IsFiniteSet(S), Weights \in [Ids -> Int]
  PROVE  MapThenSumSet(Withheld, S) = TotalOf(Weights, S)
<1> DEFINE e == [s \in SUBSET S |-> CHOOSE x \in s : TRUE]
           F(h) == [s \in SUBSET S |-> IF s = {} THEN 0 ELSE
                       Withheld(CHOOSE x \in s : TRUE) + h[s \ {CHOOSE x \in s : TRUE}]]
           H == CHOOSE h : h = F(h)
           w == [r \in S |-> Weights[r]]
<1>1. MapThenSumSet(Withheld, S) = H[S]
  BY DEF MapThenSumSet, MapThenFoldSet
<1>2. /\ \A s \in SUBSET S : s # {} => e[s] \in s /\ w[e[s]] = Withheld(e[s])
      /\ w \in [S -> Int] /\ \A r \in S : w[r] = Weights[r]
  BY DEF Weights
<1>3. \A h : Steps(h, e, w, S) <=> h = F(h)
  <2>. HIDE DEF w
  <2>1. ASSUME NEW h
        PROVE  F(h) = [s \in SUBSET S |-> IF s = {} THEN 0 ELSE w[e[s]] + h[s \ {e[s]}]]
    <3>1. \A s \in SUBSET S : s # {} =>
            w[e[s]] = Withheld(CHOOSE x \in s : TRUE) /\ e[s] = CHOOSE x \in s : TRUE
      BY <1>2
    <3>. HIDE DEF e
    <3>2. QED
      BY <3>1, ZenonT(40)
  <2>2. \A s \in SUBSET S : s # {} => e[s] \in s
    BY <1>2
  <2>. HIDE DEF e, F
  <2>3. ASSUME NEW h PROVE Steps(h, e, w, S) <=> h = F(h)
    BY <2>1, <2>2 DEF Steps
  <2>4. QED
    BY <2>3
<1>. HIDE DEF w, e, F
<1>4. PICK g : g = F(g)
  BY <1>2, <1>3, Computed
<1>5. H = F(H)
  BY <1>4
<1>. HIDE DEF H
<1>6. H[S] = TotalOf(w, S)
  BY <1>2, <1>3, <1>5, Computed
<1>7. TotalOf(w, S) = TotalOf(Weights, S)
  BY <1>2, TotalAgrees
<1>8. QED
  BY <1>1, <1>6, <1>7

MoneyAt(u) ==
  /\ IsFiniteSet(Owned(Owners, u))
  /\ balance[u] = deposited[u] - TotalOf(Weights, Owned(Owners, u))

\* A balance is what was deposited less what is withheld, and an absent reservation is nobody's.
MoneyInv ==
  /\ \A u \in Users : MoneyAt(u)
  /\ \A r \in Ids : row[r].status = "absent" => row[r].user = NoUser

LEMMA WeightsType == TypeOK => Weights \in [Ids -> Int]
  BY DEF TypeOK, Row, Weights, Withheld

LEMMA InitMoney == Init => MoneyInv
<1> SUFFICES ASSUME Init PROVE MoneyInv
  OBVIOUS
<1>1. \A r \in Ids : row[r].status = "absent" /\ row[r].user = NoUser
  BY DEF Init, AbsentRow
<1>2. \A u \in Users : Owned(Owners, u) = {}
  BY <1>1, NullAssumption DEF Owned, Owners
<1>3. \A u \in Users : balance[u] \in Int /\ deposited[u] = balance[u]
  <2>1. Openings \subseteq Int
    BY OtherSums
  <2>2. QED
    BY <2>1 DEF Init
<1>4. \A u \in Users : MoneyAt(u)
  BY <1>2, <1>3, TotalOfNone, FS_EmptySet DEF MoneyAt
<1>5. QED
  BY <1>1, <1>4 DEF MoneyInv

\* A transaction that moves money moves it between the balance and what is withheld.
LEMMA MoneyMoves ==
  ASSUME TypeInv, TypeInv', MoneyInv, NEW r \in Ids, NEW u \in Users, NEW s,
         row' = [row EXCEPT ![r] = s], s.status # "absent", s.user = u, row[r].user \in {NoUser, u},
         row[r].user = NoUser => Withheld(r) = 0,
         balance' = [balance EXCEPT ![u] = @ + (Withheld(r) - Withheld(r)')],
         deposited' = deposited
  PROVE  MoneyInv'
<1>1. row \in [Ids -> Row] /\ balance \in [Users -> Int] /\ deposited \in [Users -> Int]
  BY DEF TypeInv, TypeOK
<1>2. row'[r] = s /\ \A q \in Ids \ {r} : row'[q] = row[q]
  BY <1>1
<1>3. Weights \in [Ids -> Int] /\ Weights' \in [Ids -> Int]
  BY WeightsType DEF TypeInv, TypeOK, Weights, Withheld, Row
<1>4. \A q \in Ids \ {r} : Owners'[q] = Owners[q] /\ Weights'[q] = Weights[q]
  BY <1>2 DEF Owners, Weights, Withheld
<1>5. /\ Owners[r] = row[r].user /\ Owners'[r] = u
      /\ Weights[r] = Withheld(r) /\ Weights'[r] = Withheld(r)'
  BY <1>2 DEF Owners, Weights
<1>6. ASSUME NEW x \in Users PROVE MoneyAt(x)'
  <2>1. x # NoUser /\ MoneyAt(x)
    BY NullAssumption DEF MoneyInv
  <2>2. PICK o, p, v, w : o = Owners /\ p = Owners' /\ v = Weights /\ w = Weights'
    OBVIOUS
  <2>3. /\ Changes(o, v, p, w, r, NoUser)
        /\ IsFiniteSet(Owned(o, x)) /\ p[r] = u /\ v[r] \in Int /\ w[r] \in Int
    BY <1>3, <1>4, <1>5, <2>1, <2>2 DEF MoneyAt, Changes
  <2>4. /\ IsFiniteSet(Owned(p, x)) /\ TotalOf(v, Owned(o, x)) \in Int
        /\ TotalOf(w, Owned(p, x)) =
             TotalOf(v, Owned(o, x)) + (IF x = p[r] THEN w[r] - v[r] ELSE 0)
    BY <2>1, <2>3, OwnedChanges
  <2>5. balance[x] = deposited[x] - TotalOf(v, Owned(o, x)) /\ balance[x] \in Int /\ deposited[x] \in Int
    BY <1>1, <2>1, <2>2 DEF MoneyAt
  <2>6. balance'[x] = balance[x] + (IF x = u THEN v[r] - w[r] ELSE 0)
    BY <1>1, <1>5, <2>2
  <2>7. balance'[x] = deposited[x] - TotalOf(w, Owned(p, x))
    BY <2>3, <2>4, <2>5, <2>6
  <2>8. QED
    BY <2>2, <2>4, <2>7 DEF MoneyAt
<1>7. QED
  BY <1>2, <1>6 DEF MoneyInv

\* One that does not, leaves all as it is.
LEMMA MoneyRests ==
  ASSUME TypeInv, MoneyInv, NEW r \in Ids, NEW s,
         row' = [row EXCEPT ![r] = s], s.status # "absent", s.user = row[r].user,
         row[r].status # "absent", Withheld(r)' = Withheld(r),
         UNCHANGED <<balance, deposited>>
  PROVE  MoneyInv'
<1>1. row \in [Ids -> Row]
  BY DEF TypeInv, TypeOK
<1>2. row'[r] = s /\ \A q \in Ids \ {r} : row'[q] = row[q]
  BY <1>1
<1>3. Weights' = Weights /\ Owners' = Owners
  BY <1>2 DEF Weights, Owners, Withheld
<1>4. QED
  BY <1>2, <1>3 DEF MoneyInv, MoneyAt

LEMMA NextMoney == ASSUME TypeInv, TypeInv', MoneyInv, [Next]_vars PROVE MoneyInv'
<1>0. /\ \A r \in Ids : row[r] \in Row
      /\ row \in [Ids -> Row] /\ balance \in [Users -> Int] /\ deposited \in [Users -> Int]
      /\ \A r \in Ids : row[r].status \notin {"absent"} => row[r].user \in Users
  BY DEF TypeInv, TypeOK, CostWithinHold
<1>1. ASSUME NEW r \in Ids, NEW u \in Users, NEW a \in Amounts, CommitReserve(r, u, a)
      PROVE  MoneyInv'
  <2> DEFINE s == [AbsentRow EXCEPT !.status = "reserved", !.user = u, !.amount = a]
  <2>1. row' = [row EXCEPT ![r] = s] /\ s.status = "reserved" /\ s.user = u /\ s.amount = a
    BY <1>1 DEF CommitReserve, AbsentRow
  <2>2. row[r].user = NoUser /\ Withheld(r) = 0
    BY <1>1 DEF CommitReserve, MoneyInv, Withheld
  <2>3. Withheld(r)' = a
    BY <1>0, <2>1 DEF Withheld
  <2>4. balance' = [balance EXCEPT ![u] = @ + (Withheld(r) - Withheld(r)')] /\ deposited' = deposited
    <3>1. -a = 0 - a
      BY AmountsAssumption
    <3>2. QED
      BY <1>1, <2>2, <2>3, <3>1 DEF CommitReserve, Post
  <2>. HIDE DEF s
  <2>5. QED
    BY <2>1, <2>2, <2>4, MoneyMoves
<1>2. ASSUME NEW r \in Ids, CommitFinalize(r) PROVE MoneyInv'
  <2> DEFINE s == [row[r] EXCEPT !.status = "settled", !.stale = FALSE]
  <2>1. /\ row' = [row EXCEPT ![r] = s] /\ s.status = "settled"
        /\ s.user = row[r].user /\ s.cost = row[r].cost
    BY <1>0, <1>2 DEF CommitFinalize, Row
  <2>2. row[r].user \in Users /\ Withheld(r) = row[r].amount /\ row[r].user # NoUser
    BY <1>0, <1>2, NullAssumption DEF CommitFinalize, Withheld
  <2>3. Withheld(r)' = row[r].cost
    BY <1>0, <2>1 DEF Withheld
  <2>4. balance' = [balance EXCEPT ![row[r].user] = @ + (Withheld(r) - Withheld(r)')] /\ deposited' = deposited
    BY <1>2, <2>2, <2>3 DEF CommitFinalize, Post
  <2>. HIDE DEF s
  <2>5. QED
    BY <2>1, <2>2, <2>4, MoneyMoves
<1>3. ASSUME NEW r \in Ids, CommitRefund(r) PROVE MoneyInv'
  <2> DEFINE s == [row[r] EXCEPT !.status = "refunded", !.stale = FALSE]
  <2>1. row' = [row EXCEPT ![r] = s] /\ s.status = "refunded" /\ s.user = row[r].user
    BY <1>0, <1>3 DEF CommitRefund, Row
  <2>2. /\ row[r].user \in Users /\ Withheld(r) = row[r].amount /\ row[r].user # NoUser
        /\ row[r].amount \in Int
    BY <1>0, <1>3, NullAssumption DEF CommitRefund, Withheld, Row
  <2>3. Withheld(r)' = 0
    BY <1>0, <2>1 DEF Withheld
  <2>4. balance' = [balance EXCEPT ![row[r].user] = @ + (Withheld(r) - Withheld(r)')] /\ deposited' = deposited
    <3>1. row[r].amount = row[r].amount - 0
      BY <2>2
    <3>2. QED
      BY <1>3, <2>2, <2>3, <3>1 DEF CommitRefund, Post
  <2>. HIDE DEF s
  <2>5. QED
    BY <2>1, <2>2, <2>4, MoneyMoves
<1>4. ASSUME NEW u \in Users, NEW d \in Deltas, AddBalance(u, d) PROVE MoneyInv'
  <2>1. d \in Int
    BY OtherSums
  <2>2. Weights' = Weights /\ Owners' = Owners /\ row' = row
    BY <1>4 DEF AddBalance, Weights, Owners, Withheld
  <2>3. ASSUME NEW x \in Users PROVE MoneyAt(x)'
    <3>1. /\ IsFiniteSet(Owned(Owners, x)) /\ balance[x] = deposited[x] - TotalOf(Weights, Owned(Owners, x))
          /\ balance[x] \in Int /\ deposited[x] \in Int
      BY <1>0 DEF MoneyInv, MoneyAt
    <3>2. TotalOf(Weights, Owned(Owners, x)) \in Int
      <4>1. PICK v, o : v = Weights /\ o = Owners
        OBVIOUS
      <4>2. v \in [Ids -> Int]
        BY <4>1, WeightsType DEF TypeInv
      <4>3. Owned(o, x) \subseteq Ids /\ IsFiniteSet(Owned(o, x))
        BY <3>1, <4>1 DEF Owned
      <4>4. QED
        BY <4>1, <4>2, <4>3, TotalIsInt
    <3>3. balance'[x] = balance[x] + (IF x = u THEN d ELSE 0)
          /\ deposited'[x] = deposited[x] + (IF x = u THEN d ELSE 0)
      BY <1>0, <1>4, <2>1 DEF AddBalance
    <3>4. balance'[x] = deposited'[x] - TotalOf(Weights, Owned(Owners, x))
      BY <2>1, <3>1, <3>2, <3>3
    <3>5. QED
      BY <2>2, <3>1, <3>4 DEF MoneyAt
  <2>4. QED
    BY <2>2, <2>3 DEF MoneyInv
<1>5. ASSUME NEW r \in Ids,
             (\E ch \in Channels : CommitMark(r, ch) \/ \E c \in Costs : CommitConsumption(r, ch, c))
             \/ CommitRelease(r) \/ GrowStale(r)
      PROVE  MoneyInv'
  <2> DEFINE Kept(s) == /\ row' = [row EXCEPT ![r] = s]
                        /\ s.status \in {"reserved", "in_flight", "consumed_unsettled"}
                        /\ s.user = row[r].user /\ s.amount = row[r].amount
  <2>1. PICK s : Kept(s)
    <3>1. ASSUME NEW ch \in Channels, CommitMark(r, ch) PROVE \E s : Kept(s)
      <4>1. Kept([row[r] EXCEPT !.status = "in_flight", !.channel = ch, !.stale = FALSE])
        BY <1>0, <3>1 DEF CommitMark, Row
      <4>2. QED
        BY <4>1
    <3>2. ASSUME NEW ch \in Channels, NEW c \in Costs, CommitConsumption(r, ch, c) PROVE \E s : Kept(s)
      <4>1. Kept([row[r] EXCEPT !.status = "consumed_unsettled", !.cost = c, !.stale = FALSE])
        BY <1>0, <3>2 DEF CommitConsumption, Row
      <4>2. QED
        BY <4>1
    <3>3. ASSUME CommitRelease(r) PROVE \E s : Kept(s)
      <4>1. Kept([row[r] EXCEPT !.status = "reserved", !.stale = FALSE])
        BY <1>0, <3>3 DEF CommitRelease, Row
      <4>2. QED
        BY <4>1
    <3>4. ASSUME GrowStale(r) PROVE \E s : Kept(s)
      <4>1. Kept([row[r] EXCEPT !.stale = TRUE])
        BY <1>0, <3>4 DEF GrowStale, Row
      <4>2. QED
        BY <4>1
    <3>. HIDE DEF Kept
    <3>5. QED
      BY <1>5, <3>1, <3>2, <3>3, <3>4
  <2>2. row[r].status \in {"reserved", "in_flight"} /\ UNCHANGED <<balance, deposited>>
    BY <1>5 DEF CommitMark, CommitConsumption, CommitRelease, GrowStale
  <2>3. Withheld(r)' = Withheld(r)
    BY <1>0, <2>1, <2>2 DEF Withheld
  <2>4. QED
    BY <2>1, <2>2, <2>3, MoneyRests
<1>6. CASE UNCHANGED <<row, balance, deposited>>
  BY <1>6 DEF MoneyInv, MoneyAt, Weights, Owners, Withheld
<1>7. QED
  BY NextCommits, <1>1, <1>2, <1>3, <1>4, <1>5, <1>6 DEF SetUserEnabled, vars

\* No sequence of calls, corrections and failures creates or loses money: a balance is what
\* was deposited less what the user's reservations withhold, though every transaction moves
\* only its own sum (ledger.go:76-480).
THEOREM LedgerConserves == Spec => []Conservation
<1>1. ASSUME TypeInv, MoneyInv PROVE Conservation
  <2>1. ASSUME NEW u \in Users
        PROVE  balance[u] = deposited[u] - MapThenSumSet(Withheld, {r \in Ids : row[r].user = u})
    <3>1. {r \in Ids : row[r].user = u} = Owned(Owners, u)
      BY DEF Owned, Owners
    <3>2. MapThenSumSet(Withheld, Owned(Owners, u)) = TotalOf(Weights, Owned(Owners, u))
      BY <1>1, WeightsType, SumIsTotal DEF TypeInv, MoneyInv, MoneyAt, Owned
    <3>3. QED
      BY <1>1, <3>1, <3>2 DEF MoneyInv, MoneyAt
  <2>2. QED
    BY <2>1 DEF Conservation
<1>2. TypeInv /\ TypeInv' /\ MoneyInv /\ [Next]_vars => MoneyInv'
  BY NextMoney
<1>3. QED
  BY InitType, NextType, InitMoney, <1>1, <1>2, PTL DEF Spec

-----------------------------------------------------------------------------
(* The ledger in memory.                                                   *)

Record == [status : M!Statuses, user : MemoryUsers \cup {NoUser}, amount : Nat,
           channel : Channels \cup {NoChannel}, cost : Nat, old : BOOLEAN, attemptOld : BOOLEAN]

\* A record has its type; it names its user from the Reserve on, its channel from the attempt
\* on, and has no cost before it is consumed: only so does the refund of a reservation that
\* was sent and released look to the wallet like that of one that never was.
RecordOK(s) ==
  /\ s \in Record
  /\ s.status = "absent" => s = M!AbsentRecord
  /\ s.status # "absent" => s.user \in MemoryUsers /\ s.amount \in Amounts
  /\ s.status \in {"reserved", "in_flight", "refunded"} => s.cost = 0
  /\ s.status \in {"in_flight", "consumed_unsettled", "settled"} => s.channel \in Channels

Final(s) == s.status \in {"settled", "refunded"}

\* What a recovery listed and no longer has on its lists has come to its end.
RecoveryOK ==
  /\ recovery \in [at : {"idle", "running", "failed", "nil", "ambiguous"},
                   settle : SUBSET Ids, refund : SUBSET Ids, listed : SUBSET Ids, ambiguous : BOOLEAN]
  /\ recovery.at \in {"running", "nil"} =>
       \A r \in recovery.listed : r \in recovery.settle \/ r \in recovery.refund \/ Final(record[r])
  /\ recovery.at = "nil" => recovery.settle = {} /\ recovery.refund = {}

RecordsOK ==
  /\ funds \in [MemoryUsers -> Int] /\ active \in [MemoryUsers -> BOOLEAN]
  /\ record \in [Ids -> Record] /\ \A r \in Ids : RecordOK(record[r])

MemoryInv == RecordsOK /\ RecoveryOK

-----------------------------------------------------------------------------
(* Records.                                                                *)

\* The records that the operations write.
LEMMA NewRecords ==
  ASSUME M!ConstantsOK, NEW s, RecordOK(s)
  PROVE  /\ \A u \in MemoryUsers, a \in Amounts :
              LET n == [M!AbsentRecord EXCEPT !.status = "reserved", !.user = u, !.amount = a]
              IN  RecordOK(n) /\ n.status = "reserved" /\ n.user = u /\ n.amount = a /\ n.cost = 0
         /\ s.status = "reserved" =>
              \A ch \in Channels :
                LET n == [s EXCEPT !.status = "in_flight", !.channel = ch, !.attemptOld = FALSE]
                IN  RecordOK(n) /\ n.status = "in_flight" /\ n.user = s.user /\ n.amount = s.amount /\ n.cost = s.cost
         /\ s.status = "in_flight" =>
              LET n == [s EXCEPT !.status = "reserved", !.attemptOld = FALSE]
              IN  RecordOK(n) /\ n.status = "reserved" /\ n.user = s.user /\ n.amount = s.amount /\ n.cost = s.cost
         /\ s.status = "in_flight" =>
              \A c \in Costs :
                LET n == [s EXCEPT !.status = "consumed_unsettled", !.cost = c]
                IN  RecordOK(n) /\ n.status = "consumed_unsettled" /\ n.user = s.user /\ n.amount = s.amount /\ n.cost = c
         /\ s.status = "consumed_unsettled" =>
              LET n == [s EXCEPT !.status = "settled"]
              IN  RecordOK(n) /\ n.status = "settled" /\ n.user = s.user /\ n.amount = s.amount /\ n.cost = s.cost
         /\ s.status = "reserved" =>
              LET n == [s EXCEPT !.status = "refunded"]
              IN  RecordOK(n) /\ n.status = "refunded" /\ n.user = s.user /\ n.amount = s.amount /\ n.cost = s.cost
         /\ s.status \in {"reserved", "in_flight"} =>
              LET n == [s EXCEPT !.old = TRUE]
              IN  RecordOK(n) /\ n.status = s.status /\ n.user = s.user /\ n.amount = s.amount /\ n.cost = s.cost
         /\ s.status = "in_flight" =>
              LET n == [s EXCEPT !.attemptOld = TRUE]
              IN  RecordOK(n) /\ n.status = s.status /\ n.user = s.user /\ n.amount = s.amount /\ n.cost = s.cost
<1>0. s \in Record /\ (s.status # "absent" => s.user \in MemoryUsers /\ s.amount \in Amounts)
      /\ (s.status \in {"reserved", "in_flight", "refunded"} => s.cost = 0)
      /\ (s.status \in {"in_flight", "consumed_unsettled", "settled"} => s.channel \in Channels)
  BY DEF RecordOK
<1>1. ASSUME NEW u \in MemoryUsers, NEW a \in Amounts
      PROVE  LET n == [M!AbsentRecord EXCEPT !.status = "reserved", !.user = u, !.amount = a]
             IN  RecordOK(n) /\ n.status = "reserved" /\ n.user = u /\ n.amount = a /\ n.cost = 0
  <2>. DEFINE n == [M!AbsentRecord EXCEPT !.status = "reserved", !.user = u, !.amount = a]
  <2>1. a \in Nat
    BY DEF M!ConstantsOK
  <2>2. n \in Record
    BY <1>0, <1>1, <2>1 DEF Record, M!Statuses, M!AbsentRecord
  <2>3. n.status = "reserved" /\ n.user = u /\ n.amount = a /\ n.cost = 0 /\ n.channel = NoChannel
    BY <1>0, <1>1 DEF Record, M!AbsentRecord
  <2>. HIDE DEF n
  <2>4. RecordOK(n)
    BY <1>0, <1>1, <2>2, <2>3, <2>1 DEF RecordOK
  <2>5. QED
    BY <2>3, <2>4 DEF n
<1>2. ASSUME NEW ch \in Channels, s.status = "reserved"
      PROVE  LET n == [s EXCEPT !.status = "in_flight", !.channel = ch, !.attemptOld = FALSE]
             IN  RecordOK(n) /\ n.status = "in_flight" /\ n.user = s.user /\ n.amount = s.amount /\ n.cost = s.cost
  <2>. DEFINE n == [s EXCEPT !.status = "in_flight", !.channel = ch, !.attemptOld = FALSE]
  <2>2. n \in Record
    BY <1>0, <1>2 DEF Record, M!Statuses, M!AbsentRecord
  <2>3. n.status = "in_flight" /\ n.user = s.user /\ n.amount = s.amount /\ n.cost = s.cost /\ n.channel = ch
    BY <1>0, <1>2 DEF Record, M!AbsentRecord
  <2>. HIDE DEF n
  <2>4. RecordOK(n)
    BY <1>0, <1>2, <2>2, <2>3 DEF RecordOK
  <2>5. QED
    BY <2>3, <2>4 DEF n
<1>3. ASSUME s.status = "in_flight"
      PROVE  LET n == [s EXCEPT !.status = "reserved", !.attemptOld = FALSE]
             IN  RecordOK(n) /\ n.status = "reserved" /\ n.user = s.user /\ n.amount = s.amount /\ n.cost = s.cost
  <2>. DEFINE n == [s EXCEPT !.status = "reserved", !.attemptOld = FALSE]
  <2>2. n \in Record
    BY <1>0, <1>3 DEF Record, M!Statuses, M!AbsentRecord
  <2>3. n.status = "reserved" /\ n.user = s.user /\ n.amount = s.amount /\ n.cost = s.cost /\ n.channel = s.channel
    BY <1>0, <1>3 DEF Record, M!AbsentRecord
  <2>. HIDE DEF n
  <2>4. RecordOK(n)
    BY <1>0, <1>3, <2>2, <2>3 DEF RecordOK
  <2>5. QED
    BY <2>3, <2>4 DEF n
<1>4. ASSUME NEW c \in Costs, s.status = "in_flight"
      PROVE  LET n == [s EXCEPT !.status = "consumed_unsettled", !.cost = c]
             IN  RecordOK(n) /\ n.status = "consumed_unsettled" /\ n.user = s.user /\ n.amount = s.amount /\ n.cost = c
  <2>. DEFINE n == [s EXCEPT !.status = "consumed_unsettled", !.cost = c]
  <2>1. c \in Nat
    BY DEF M!ConstantsOK
  <2>2. n \in Record
    BY <1>0, <1>4, <2>1 DEF Record, M!Statuses, M!AbsentRecord
  <2>3. n.status = "consumed_unsettled" /\ n.user = s.user /\ n.amount = s.amount /\ n.cost = c /\ n.channel = s.channel
    BY <1>0, <1>4 DEF Record, M!AbsentRecord
  <2>. HIDE DEF n
  <2>4. RecordOK(n)
    BY <1>0, <1>4, <2>2, <2>3, <2>1 DEF RecordOK
  <2>5. QED
    BY <2>3, <2>4 DEF n
<1>5. ASSUME s.status = "consumed_unsettled"
      PROVE  LET n == [s EXCEPT !.status = "settled"]
             IN  RecordOK(n) /\ n.status = "settled" /\ n.user = s.user /\ n.amount = s.amount /\ n.cost = s.cost
  <2>. DEFINE n == [s EXCEPT !.status = "settled"]
  <2>2. n \in Record
    BY <1>0, <1>5 DEF Record, M!Statuses, M!AbsentRecord
  <2>3. n.status = "settled" /\ n.user = s.user /\ n.amount = s.amount /\ n.cost = s.cost /\ n.channel = s.channel
    BY <1>0, <1>5 DEF Record, M!AbsentRecord
  <2>. HIDE DEF n
  <2>4. RecordOK(n)
    BY <1>0, <1>5, <2>2, <2>3 DEF RecordOK
  <2>5. QED
    BY <2>3, <2>4 DEF n
<1>6. ASSUME s.status = "reserved"
      PROVE  LET n == [s EXCEPT !.status = "refunded"]
             IN  RecordOK(n) /\ n.status = "refunded" /\ n.user = s.user /\ n.amount = s.amount /\ n.cost = s.cost
  <2>. DEFINE n == [s EXCEPT !.status = "refunded"]
  <2>2. n \in Record
    BY <1>0, <1>6 DEF Record, M!Statuses, M!AbsentRecord
  <2>3. n.status = "refunded" /\ n.user = s.user /\ n.amount = s.amount /\ n.cost = s.cost /\ n.channel = s.channel
    BY <1>0, <1>6 DEF Record, M!AbsentRecord
  <2>. HIDE DEF n
  <2>4. RecordOK(n)
    BY <1>0, <1>6, <2>2, <2>3 DEF RecordOK
  <2>5. QED
    BY <2>3, <2>4 DEF n
<1>7. ASSUME s.status \in {"reserved", "in_flight"}
      PROVE  LET n == [s EXCEPT !.old = TRUE]
             IN  RecordOK(n) /\ n.status = s.status /\ n.user = s.user /\ n.amount = s.amount /\ n.cost = s.cost
  <2>. DEFINE n == [s EXCEPT !.old = TRUE]
  <2>2. n \in Record
    BY <1>0, <1>7 DEF Record, M!Statuses, M!AbsentRecord
  <2>3. n.status = s.status /\ n.user = s.user /\ n.amount = s.amount /\ n.cost = s.cost /\ n.channel = s.channel
    BY <1>0, <1>7 DEF Record, M!AbsentRecord
  <2>. HIDE DEF n
  <2>4. RecordOK(n)
    BY <1>0, <1>7, <2>2, <2>3 DEF RecordOK
  <2>5. QED
    BY <2>3, <2>4 DEF n
<1>8. ASSUME s.status = "in_flight"
      PROVE  LET n == [s EXCEPT !.attemptOld = TRUE]
             IN  RecordOK(n) /\ n.status = s.status /\ n.user = s.user /\ n.amount = s.amount /\ n.cost = s.cost
  <2>. DEFINE n == [s EXCEPT !.attemptOld = TRUE]
  <2>2. n \in Record
    BY <1>0, <1>8 DEF Record, M!Statuses, M!AbsentRecord
  <2>3. n.status = s.status /\ n.user = s.user /\ n.amount = s.amount /\ n.cost = s.cost /\ n.channel = s.channel
    BY <1>0, <1>8 DEF Record, M!AbsentRecord
  <2>. HIDE DEF n
  <2>4. RecordOK(n)
    BY <1>0, <1>8, <2>2, <2>3 DEF RecordOK
  <2>5. QED
    BY <2>3, <2>4 DEF n
<1>9. QED
  BY <1>1, <1>2, <1>3, <1>4, <1>5, <1>6, <1>7, <1>8

\* Writing one record.
LEMMA OneWritten ==
  ASSUME NEW r \in Ids, NEW s, RecordOK(s), M!Becomes(r, s),
         record \in [Ids -> Record], \A q \in Ids : RecordOK(record[q])
  PROVE  /\ record' \in [Ids -> Record] /\ \A q \in Ids : RecordOK(record'[q])
         /\ record'[r] = s /\ \A q \in Ids \ {r} : record'[q] = record[q]
<1>1. s \in Record
  BY DEF RecordOK
<1>2. record' \in [Ids -> Record] /\ record'[r] = s /\ \A q \in Ids \ {r} : record'[q] = record[q]
  BY <1>1 DEF M!Becomes
<1>3. QED
  BY <1>2

LEMMA Adjusted ==
  ASSUME NEW u \in MemoryUsers, NEW d \in Int, funds \in [MemoryUsers -> Int], M!Adjusts(u, d)
  PROVE  funds' \in [MemoryUsers -> Int]
BY DEF M!Adjusts

\* Where a record is final it stays so.
FinalKept == \A q \in Ids : Final(record[q]) => Final(record'[q])

\* Finalize and Refund, whoever calls them.
LEMMA FinalizeKeeps ==
  ASSUME M!ConstantsOK, RecordsOK, NEW r \in Ids, NEW ok \in BOOLEAN, M!Finalize(r, ok), active' = active
  PROVE  RecordsOK' /\ FinalKept /\ (ok => Final(record'[r]))
<1>1. RecordOK(record[r]) /\ record \in [Ids -> Record] /\ \A q \in Ids : RecordOK(record[q])
  BY DEF RecordsOK
<1>2. CASE M!Settles(r)
  <2>. DEFINE n == [record[r] EXCEPT !.status = "settled"]
  <2>1. record[r].status = "consumed_unsettled" /\ M!Becomes(r, n)
        /\ M!Adjusts(record[r].user, record[r].amount - record[r].cost)
    BY <1>2 DEF M!Finalize, M!Settles
  <2>2. RecordOK(n) /\ n.status = "settled"
    BY <1>1, <2>1, NewRecords
  <2>3. /\ record' \in [Ids -> Record] /\ (\A q \in Ids : RecordOK(record'[q]))
        /\ record'[r].status = "settled" /\ \A q \in Ids \ {r} : record'[q] = record[q]
    BY <1>1, <2>1, <2>2, OneWritten
  <2>4. record[r].user \in MemoryUsers /\ record[r].amount - record[r].cost \in Int
    BY <1>1, <2>1 DEF RecordOK, Record
  <2>5. funds' \in [MemoryUsers -> Int]
    BY <2>1, <2>4, Adjusted DEF RecordsOK
  <2>6. QED
    BY <2>3, <2>5 DEF RecordsOK, FinalKept, Final
<1>3. CASE ~M!Settles(r)
  <2>1. UNCHANGED <<funds, record>>
    BY <1>3 DEF M!Finalize
  <2>2. ok => record[r].status = "settled"
    BY <1>3 DEF M!Finalize
  <2>3. QED
    BY <2>1, <2>2 DEF RecordsOK, FinalKept, Final
<1>4. QED
  BY <1>2, <1>3

LEMMA RefundKeeps ==
  ASSUME M!ConstantsOK, RecordsOK, NEW r \in Ids, NEW ok \in BOOLEAN, M!Refund(r, ok), active' = active
  PROVE  RecordsOK' /\ FinalKept /\ (ok => Final(record'[r]))
<1>1. RecordOK(record[r]) /\ record \in [Ids -> Record] /\ \A q \in Ids : RecordOK(record[q])
  BY DEF RecordsOK
<1>2. CASE M!Refunds(r)
  <2>. DEFINE n == [record[r] EXCEPT !.status = "refunded"]
  <2>1. record[r].status = "reserved" /\ M!Becomes(r, n) /\ M!Adjusts(record[r].user, record[r].amount)
    BY <1>2 DEF M!Refund, M!Refunds
  <2>2. RecordOK(n) /\ n.status = "refunded"
    BY <1>1, <2>1, NewRecords
  <2>3. /\ record' \in [Ids -> Record] /\ (\A q \in Ids : RecordOK(record'[q]))
        /\ record'[r].status = "refunded" /\ \A q \in Ids \ {r} : record'[q] = record[q]
    BY <1>1, <2>1, <2>2, OneWritten
  <2>4. record[r].user \in MemoryUsers /\ record[r].amount \in Int
    BY <1>1, <2>1 DEF RecordOK, Record
  <2>5. funds' \in [MemoryUsers -> Int]
    BY <2>1, <2>4, Adjusted DEF RecordsOK
  <2>6. QED
    BY <2>3, <2>5 DEF RecordsOK, FinalKept, Final
<1>3. CASE ~M!Refunds(r)
  <2>1. UNCHANGED <<funds, record>>
    BY <1>3 DEF M!Refund
  <2>2. ok => record[r].status = "refunded"
    BY <1>3 DEF M!Refund
  <2>3. QED
    BY <2>1, <2>2 DEF RecordsOK, FinalKept, Final
<1>4. QED
  BY <1>2, <1>3

\* A step that writes one record, not a final one, and leaves or adjusts a balance.
LEMMA OtherKeeps ==
  ASSUME RecordsOK, NEW r \in Ids, NEW s, RecordOK(s), M!Becomes(r, s), ~Final(record[r]),
         funds' \in [MemoryUsers -> Int], active' = active
  PROVE  RecordsOK' /\ FinalKept
<1>1. /\ record' \in [Ids -> Record] /\ (\A q \in Ids : RecordOK(record'[q]))
      /\ \A q \in Ids \ {r} : record'[q] = record[q]
  BY OneWritten DEF RecordsOK
<1>2. QED
  BY <1>1 DEF RecordsOK, FinalKept

\* The calls of a request keep the records, and recovery is left alone.
LEMMA RequestKeeps ==
  ASSUME M!ConstantsOK, RecordsOK, NEW r \in Ids, M!Request(r)
  PROVE  RecordsOK' /\ FinalKept /\ recovery' = recovery
<1>1. RecordOK(record[r]) /\ funds \in [MemoryUsers -> Int]
  BY DEF RecordsOK
<1>2. ASSUME NEW u \in MemoryUsers, NEW a \in Amounts, M!Reserve(r, u, a) PROVE RecordsOK' /\ FinalKept /\ recovery' = recovery
  <2>. DEFINE n == [M!AbsentRecord EXCEPT !.status = "reserved", !.user = u, !.amount = a]
  <2>1. /\ record[r].status = "absent" /\ M!Becomes(r, n) /\ M!Adjusts(u, -a)
        /\ active' = active /\ recovery' = recovery
    BY <1>2 DEF M!Reserve, M!Outside
  <2>2. RecordOK(n)
    BY <1>1, NewRecords
  <2>3. -a \in Int
    BY DEF M!ConstantsOK
  <2>4. funds' \in [MemoryUsers -> Int]
    BY <1>1, <2>1, <2>3, Adjusted
  <2>5. ~Final(record[r])
    BY <2>1 DEF Final
  <2>. HIDE DEF n
  <2>6. QED
    BY <2>1, <2>2, <2>4, <2>5, OtherKeeps
<1>3. ASSUME NEW ch \in Channels, M!MarkInFlight(r, ch) PROVE RecordsOK' /\ FinalKept /\ recovery' = recovery
  <2>. DEFINE n == [record[r] EXCEPT !.status = "in_flight", !.channel = ch, !.attemptOld = FALSE]
  <2>1. /\ record[r].status = "reserved" /\ M!Becomes(r, n) /\ funds' = funds
        /\ active' = active /\ recovery' = recovery
    BY <1>3 DEF M!MarkInFlight, M!Outside
  <2>2. RecordOK(n)
    BY <1>1, <2>1, NewRecords
  <2>3. ~Final(record[r])
    BY <2>1 DEF Final
  <2>. HIDE DEF n
  <2>4. QED
    BY <1>1, <2>1, <2>2, <2>3, OtherKeeps
<1>4. ASSUME M!ReleaseAttempt(r) PROVE RecordsOK' /\ FinalKept /\ recovery' = recovery
  <2>. DEFINE n == [record[r] EXCEPT !.status = "reserved", !.attemptOld = FALSE]
  <2>1. /\ record[r].status = "in_flight" /\ M!Becomes(r, n) /\ funds' = funds
        /\ active' = active /\ recovery' = recovery
    BY <1>4 DEF M!ReleaseAttempt, M!Outside
  <2>2. RecordOK(n)
    BY <1>1, <2>1, NewRecords
  <2>3. ~Final(record[r])
    BY <2>1 DEF Final
  <2>. HIDE DEF n
  <2>4. QED
    BY <1>1, <2>1, <2>2, <2>3, OtherKeeps
<1>5. ASSUME NEW ch \in Channels, NEW c \in Costs, M!RecordConsumption(r, ch, c)
      PROVE  RecordsOK' /\ FinalKept /\ recovery' = recovery
  <2>. DEFINE n == [record[r] EXCEPT !.status = "consumed_unsettled", !.cost = c]
  <2>1. /\ record[r].status = "in_flight" /\ M!Becomes(r, n) /\ funds' = funds
        /\ active' = active /\ recovery' = recovery
    BY <1>5 DEF M!RecordConsumption, M!Outside
  <2>2. RecordOK(n)
    BY <1>1, <2>1, NewRecords
  <2>3. ~Final(record[r])
    BY <2>1 DEF Final
  <2>. HIDE DEF n
  <2>4. QED
    BY <1>1, <2>1, <2>2, <2>3, OtherKeeps
<1>6. ASSUME NEW ok \in BOOLEAN, M!Finalize(r, ok) \/ M!Refund(r, ok), UNCHANGED <<M!Outside, recovery>>
      PROVE  RecordsOK' /\ FinalKept /\ recovery' = recovery
  BY <1>6, FinalizeKeeps, RefundKeeps DEF M!Outside
<1>7. QED
  BY <1>2, <1>3, <1>4, <1>5, <1>6 DEF M!Request

\* So does the clock.
LEMMA GrowOldKeeps ==
  ASSUME M!ConstantsOK, RecordsOK, NEW r \in Ids, M!GrowOld(r)
  PROVE  RecordsOK' /\ FinalKept /\ recovery' = recovery
<1>1. RecordOK(record[r]) /\ funds \in [MemoryUsers -> Int]
  BY DEF RecordsOK
<1>2. /\ record[r].status \in {"reserved", "in_flight"} /\ funds' = funds
      /\ active' = active /\ recovery' = recovery
      /\ \/ M!Becomes(r, [record[r] EXCEPT !.old = TRUE])
         \/ record[r].status = "in_flight" /\ M!Becomes(r, [record[r] EXCEPT !.attemptOld = TRUE])
  BY DEF M!GrowOld, M!Outside
<1>3. ~Final(record[r])
  BY <1>2 DEF Final
<1>4. CASE M!Becomes(r, [record[r] EXCEPT !.old = TRUE])
  <2>. DEFINE n == [record[r] EXCEPT !.old = TRUE]
  <2>1. RecordOK(n) /\ M!Becomes(r, n)
    BY <1>1, <1>2, <1>4, NewRecords
  <2>. HIDE DEF n
  <2>2. QED
    BY <1>1, <1>2, <1>3, <2>1, OtherKeeps
<1>5. CASE record[r].status = "in_flight" /\ M!Becomes(r, [record[r] EXCEPT !.attemptOld = TRUE])
  <2>. DEFINE n == [record[r] EXCEPT !.attemptOld = TRUE]
  <2>1. RecordOK(n) /\ M!Becomes(r, n)
    BY <1>1, <1>2, <1>5, NewRecords
  <2>. HIDE DEF n
  <2>2. QED
    BY <1>1, <1>2, <1>3, <2>1, OtherKeeps
<1>6. QED
  BY <1>2, <1>4, <1>5

-----------------------------------------------------------------------------
(* Recover.                                                                *)

Running == [at : {"idle", "running", "failed", "nil", "ambiguous"},
            settle : SUBSET Ids, refund : SUBSET Ids, listed : SUBSET Ids, ambiguous : BOOLEAN]

\* What requests do meanwhile brings listed reservations to their end, never back from it.
LEMMA ListKept ==
  ASSUME RecoveryOK, FinalKept, recovery' = recovery
  PROVE  RecoveryOK'
<1>1. \A r \in Ids : Final(record[r]) => Final(record[r])'
  BY DEF FinalKept, Final
<1>2. recovery.listed \subseteq Ids
  BY DEF RecoveryOK
<1>3. QED
  BY <1>1, <1>2 DEF RecoveryOK

\* One of a list is dealt with.
LEMMA OneDealtWith ==
  ASSUME RecoveryOK, FinalKept, NEW r \in Ids, NEW ok \in BOOLEAN, recovery.at = "running",
         NEW list \in {"settle", "refund"}, M!Goes(list, r, ok), ok => Final(record'[r])
  PROVE  RecoveryOK'
<1>1. recovery \in Running /\ recovery.listed \subseteq Ids
      /\ \A q \in recovery.listed : q \in recovery.settle \/ q \in recovery.refund \/ Final(record[q])
  BY DEF RecoveryOK, Running
<1>2. CASE ~ok
  <2>1. recovery' = [M!NoRecovery EXCEPT !.at = "failed"]
    BY <1>2 DEF M!Goes
  <2>2. recovery' \in Running /\ recovery'.at = "failed"
    BY <2>1 DEF M!NoRecovery, Running
  <2>3. QED
    BY <2>2 DEF RecoveryOK, Running
<1>3. CASE ok /\ list = "settle"
  <2>1. recovery' = [recovery EXCEPT !.settle = @ \ {r}]
    BY <1>3 DEF M!Goes
  <2>2. /\ recovery' \in Running /\ recovery'.at = "running" /\ recovery'.listed = recovery.listed
        /\ recovery'.settle = recovery.settle \ {r} /\ recovery'.refund = recovery.refund
    BY <1>1, <2>1 DEF Running
  <2>3. \A q \in recovery.listed : q \in recovery'.settle \/ q \in recovery'.refund \/ Final(record'[q])
    BY <1>1, <1>3, <2>2 DEF FinalKept
  <2>4. QED
    BY <2>2, <2>3 DEF RecoveryOK, Running, Final
<1>4. CASE ok /\ list = "refund"
  <2>1. recovery' = [recovery EXCEPT !.refund = @ \ {r}]
    BY <1>4 DEF M!Goes
  <2>2. /\ recovery' \in Running /\ recovery'.at = "running" /\ recovery'.listed = recovery.listed
        /\ recovery'.refund = recovery.refund \ {r} /\ recovery'.settle = recovery.settle
    BY <1>1, <2>1 DEF Running
  <2>3. \A q \in recovery.listed : q \in recovery'.settle \/ q \in recovery'.refund \/ Final(record'[q])
    BY <1>1, <1>4, <2>2 DEF FinalKept
  <2>4. QED
    BY <2>2, <2>3 DEF RecoveryOK, Running, Final
<1>5. QED
  BY <1>2, <1>3, <1>4

LEMMA InitMemory == M!ConstantsOK /\ M!Init => MemoryInv
<1>. SUFFICES ASSUME M!ConstantsOK, M!Init PROVE MemoryInv
  OBVIOUS
<1>1. M!AbsentRecord \in Record /\ M!AbsentRecord.status = "absent" /\ M!AbsentRecord.cost = 0
  BY DEF M!AbsentRecord, Record, M!Statuses
<1>2. RecordOK(M!AbsentRecord)
  BY <1>1 DEF RecordOK
<1>3. RecordsOK
  <2>1. funds \in [MemoryUsers -> Int]
    <3>1. MemoryOpenings \subseteq Int
      BY DEF M!ConstantsOK
    <3>2. QED
      BY <3>1 DEF M!Init
  <2>2. active \in [MemoryUsers -> BOOLEAN]
    BY DEF M!Init
  <2>3. record \in [Ids -> Record] /\ \A r \in Ids : RecordOK(record[r])
    BY <1>1, <1>2 DEF M!Init
  <2>4. QED
    BY <2>1, <2>2, <2>3 DEF RecordsOK
<1>4. recovery \in Running /\ recovery.at = "idle"
  BY DEF M!Init, M!NoRecovery, Running
<1>5. QED
  BY <1>3, <1>4 DEF MemoryInv, RecoveryOK, Running

LEMMA NextMemory == M!ConstantsOK /\ MemoryInv /\ [M!Next]_(M!vars) => MemoryInv'
<1>. SUFFICES ASSUME M!ConstantsOK, MemoryInv, [M!Next]_(M!vars) PROVE MemoryInv'
  OBVIOUS
<1>0. RecordsOK /\ RecoveryOK /\ recovery \in Running
  BY DEF MemoryInv, RecoveryOK, Running
<1>1. ASSUME NEW r \in Ids, M!Request(r) PROVE MemoryInv'
  BY <1>0, <1>1, RequestKeeps, ListKept DEF MemoryInv
<1>2. ASSUME NEW r \in Ids, M!GrowOld(r) PROVE MemoryInv'
  BY <1>0, <1>2, GrowOldKeeps, ListKept DEF MemoryInv
<1>3. CASE M!StartRecover
  <2>. DEFINE consumed == { r \in Ids : record[r].status = "consumed_unsettled" }
              stale    == { r \in Ids : record[r].status = "reserved" /\ record[r].old }
              doubt    == \E r \in Ids : record[r].status = "in_flight" /\ record[r].attemptOld
  <2>1. /\ recovery' = [at |-> "running", settle |-> consumed, refund |-> stale, listed |-> consumed \cup stale,
                        ambiguous |-> doubt]
        /\ UNCHANGED <<M!Outside, funds, record>>
    BY <1>3 DEF M!StartRecover
  <2>2. consumed \subseteq Ids /\ stale \subseteq Ids /\ doubt \in BOOLEAN
    OBVIOUS
  <2>. HIDE DEF consumed, stale, doubt
  <2>3. /\ recovery' \in Running /\ recovery'.at = "running" /\ recovery'.settle = consumed
        /\ recovery'.refund = stale /\ recovery'.listed = consumed \cup stale
    BY <2>1, <2>2 DEF Running
  <2>4. RecoveryOK'
    BY <2>3 DEF RecoveryOK, Running
  <2>5. RecordsOK'
    BY <1>0, <2>1 DEF RecordsOK, M!Outside
  <2>6. QED
    BY <2>4, <2>5 DEF MemoryInv
<1>4. CASE M!RecoverNext
  <2>1. PICK r \in Ids, ok \in BOOLEAN :
          \/ M!Finalize(r, ok) /\ M!Goes("settle", r, ok)
          \/ M!Refund(r, ok) /\ M!Goes("refund", r, ok)
    BY <1>4 DEF M!RecoverNext
  <2>2. recovery.at = "running" /\ active' = active
    BY <1>4 DEF M!RecoverNext, M!Outside
  <2>3. CASE M!Finalize(r, ok) /\ M!Goes("settle", r, ok)
    <3>1. RecordsOK' /\ FinalKept /\ (ok => Final(record'[r]))
      BY <1>0, <2>2, <2>3, FinalizeKeeps
    <3>2. RecoveryOK'
      BY <1>0, <2>2, <2>3, <3>1, OneDealtWith
    <3>3. QED
      BY <3>1, <3>2 DEF MemoryInv
  <2>4. CASE M!Refund(r, ok) /\ M!Goes("refund", r, ok)
    <3>1. RecordsOK' /\ FinalKept /\ (ok => Final(record'[r]))
      BY <1>0, <2>2, <2>4, RefundKeeps
    <3>2. RecoveryOK'
      BY <1>0, <2>2, <2>4, <3>1, OneDealtWith
    <3>3. QED
      BY <3>1, <3>2 DEF MemoryInv
  <2>5. QED
    BY <2>1, <2>3, <2>4
<1>5. CASE M!FinishRecover
  <2>. DEFINE e == IF recovery.ambiguous THEN "ambiguous" ELSE "nil"
  <2>1. /\ recovery.at = "running" /\ recovery.settle = {} /\ recovery.refund = {}
        /\ recovery' = [recovery EXCEPT !.at = e] /\ UNCHANGED <<M!Outside, funds, record>>
    BY <1>5 DEF M!FinishRecover
  <2>2. e \in {"ambiguous", "nil"}
    OBVIOUS
  <2>. HIDE DEF e
  <2>3. /\ recovery' \in Running /\ recovery'.settle = {} /\ recovery'.refund = {}
        /\ recovery'.listed = recovery.listed
    BY <1>0, <2>1, <2>2 DEF Running
  <2>4. \A q \in recovery.listed : Final(record[q])
    BY <1>0, <2>1 DEF RecoveryOK
  <2>5. RecoveryOK'
    BY <2>1, <2>3, <2>4 DEF RecoveryOK, Running, Final
  <2>6. RecordsOK'
    BY <1>0, <2>1 DEF RecordsOK, M!Outside
  <2>7. QED
    BY <2>5, <2>6 DEF MemoryInv
<1>6. ASSUME NEW u \in MemoryUsers, NEW d \in MemoryDeltas, M!AdminAddBalance(u, d) PROVE MemoryInv'
  <2>1. M!Adjusts(u, d) /\ UNCHANGED <<active, record, recovery>> /\ d \in Int
    BY <1>6 DEF M!AdminAddBalance, M!ConstantsOK
  <2>2. funds' \in [MemoryUsers -> Int]
    BY <1>0, <2>1, Adjusted DEF RecordsOK
  <2>3. QED
    BY <1>0, <2>1, <2>2, ListKept DEF MemoryInv, RecordsOK, FinalKept
<1>7. ASSUME NEW u \in MemoryUsers, NEW e \in BOOLEAN, M!AdminSetUserEnabled(u, e) PROVE MemoryInv'
  <2>1. active' \in [MemoryUsers -> BOOLEAN] /\ UNCHANGED <<funds, record, recovery>>
    BY <1>0, <1>7 DEF M!AdminSetUserEnabled, RecordsOK
  <2>2. QED
    BY <1>0, <2>1, ListKept DEF MemoryInv, RecordsOK, FinalKept
<1>8. CASE UNCHANGED M!vars
  BY <1>0, <1>8, ListKept DEF MemoryInv, RecordsOK, FinalKept, M!vars
<1>9. QED
  BY <1>1, <1>2, <1>3, <1>4, <1>5, <1>6, <1>7, <1>8 DEF M!Next

\* When Recover returns nil, whatever it listed is settled or refunded; and the records
\* have their types, a channel whenever one was sent to.
THEOREM MemoryRecovers ==
  ASSUME M!ConstantsOK
  PROVE  M!Spec => []M!RecoverComplete /\ []M!TypeOK
<1>1. M!Init => MemoryInv
  BY InitMemory
<1>2. MemoryInv /\ [M!Next]_(M!vars) => MemoryInv'
  BY NextMemory
<1>3. MemoryInv => M!RecoverComplete
  BY DEF MemoryInv, RecoveryOK, M!RecoverComplete, Final
<1>4. MemoryInv => M!TypeOK
  <2>. SUFFICES ASSUME MemoryInv PROVE M!TypeOK
    OBVIOUS
  <2>1. recovery.at \in {"idle", "running", "failed", "nil", "ambiguous"}
    BY DEF MemoryInv, RecoveryOK
  <2>2. QED
    BY <2>1 DEF MemoryInv, RecordsOK, RecordOK, Record, M!TypeOK
<1>5. QED
  BY <1>1, <1>2, <1>3, <1>4, PTL DEF M!Spec

-----------------------------------------------------------------------------
(* The wallet.                                                             *)

\* The hold that a record stands for.
MemoryHold(s) == [fate |-> M!FateOf(s), user |-> s.user, amount |-> s.amount,
              cost |-> IF M!FateOf(s) = "held" THEN 0 ELSE s.cost]

MemoryHolds == [r \in Ids |-> MemoryHold(record[r])]

\* A record written is a hold changed.
LEMMA OneHoldChanged ==
  ASSUME RecordsOK, NEW r \in Ids, NEW s, RecordOK(s), M!Becomes(r, s)
  PROVE  MemoryHolds' = [MemoryHolds EXCEPT ![r] = MemoryHold(s)]
<1>1. record'[r] = s /\ \A q \in Ids \ {r} : record'[q] = record[q]
  BY OneWritten DEF RecordsOK
<1>2. MemoryHolds' = [q \in Ids |-> MemoryHold(record'[q])]
  BY DEF MemoryHolds, MemoryHold, M!FateOf
<1>3. \A q \in Ids : MemoryHold(record'[q]) = IF q = r THEN MemoryHold(s) ELSE MemoryHold(record[q])
  BY <1>1
<1>. HIDE DEF MemoryHold
<1>4. QED
  BY <1>2, <1>3 DEF MemoryHolds

\* A record that stands for the same hold changes none.
LEMMA SameHold ==
  ASSUME RecordsOK, NEW r \in Ids, NEW s, RecordOK(s), M!Becomes(r, s), MemoryHold(s) = MemoryHold(record[r])
  PROVE  MemoryHolds' = MemoryHolds
<1>1. MemoryHolds' = [MemoryHolds EXCEPT ![r] = MemoryHold(s)]
  BY OneHoldChanged
<1>. HIDE DEF MemoryHold
<1>2. QED
  BY <1>1 DEF MemoryHolds

\* The fields of a hold, by the status of its record.
LEMMA Views ==
  ASSUME NEW s, RecordOK(s)
  PROVE  /\ MemoryHold(s).fate = M!FateOf(s) /\ MemoryHold(s).user = s.user /\ MemoryHold(s).amount = s.amount
         /\ s.status = "absent" => MemoryHold(s) = M!W!Absent
         /\ s.status \in {"reserved", "in_flight"} =>
              MemoryHold(s) = [fate |-> "held", user |-> s.user, amount |-> s.amount, cost |-> 0]
         /\ s.status = "consumed_unsettled" /\ s.cost <= s.amount =>
              MemoryHold(s) = [fate |-> "owed", user |-> s.user, amount |-> s.amount, cost |-> s.cost]
         /\ s.status = "consumed_unsettled" /\ ~ s.cost <= s.amount =>
              MemoryHold(s) = [fate |-> "held", user |-> s.user, amount |-> s.amount, cost |-> 0]
         /\ s.status = "settled" =>
              MemoryHold(s) = [fate |-> "charged", user |-> s.user, amount |-> s.amount, cost |-> s.cost]
         /\ s.status = "refunded" =>
              MemoryHold(s) = [fate |-> "returned", user |-> s.user, amount |-> s.amount, cost |-> 0]
<1>1. s.status = "absent" => MemoryHold(s) = M!W!Absent
  BY DEF RecordOK, MemoryHold, M!FateOf, M!AbsentRecord, M!W!Absent
<1>2. s.status = "refunded" => s.cost = 0
  BY DEF RecordOK
<1>3. QED
  BY <1>1, <1>2 DEF MemoryHold, M!FateOf

LEMMA InitWallet == M!ConstantsOK /\ M!Init => M!W!WInit
<1>. SUFFICES ASSUME M!ConstantsOK, M!Init PROVE M!W!WInit
  OBVIOUS
<1>1. funds \in [MemoryUsers -> Nat]
  <2>1. MemoryOpenings \subseteq Nat
    BY DEF M!ConstantsOK
  <2>2. QED
    BY <2>1 DEF M!Init
<1>2. MemoryHold(M!AbsentRecord) = M!W!Absent
  BY DEF MemoryHold, M!FateOf, M!AbsentRecord, M!W!Absent
<1>3. MemoryHolds = [r \in Ids |-> M!W!Absent]
  <2>. HIDE DEF MemoryHold
  <2>1. QED
    BY <1>2 DEF M!Init, MemoryHolds
<1>4. QED
  BY <1>1, <1>3 DEF M!W!WInit, MemoryHolds, MemoryHold

LEMMA FinalizeRefines ==
  ASSUME M!ConstantsOK, RecordsOK, NEW r \in Ids, NEW ok \in BOOLEAN, M!Finalize(r, ok)
  PROVE  M!W!Charge(r) \/ (MemoryHolds' = MemoryHolds /\ funds' = funds)
<1>. DEFINE s == record[r]
            n == [s EXCEPT !.status = "settled"]
<1>1. RecordOK(s)
  BY DEF RecordsOK
<1>2. CASE M!Settles(r)
  <2>1. /\ s.status = "consumed_unsettled" /\ s.cost <= s.amount /\ M!Becomes(r, n)
        /\ M!Adjusts(s.user, s.amount - s.cost)
    BY <1>2 DEF M!Finalize, M!Settles
  <2>2. RecordOK(n) /\ n.status = "settled" /\ n.user = s.user /\ n.amount = s.amount /\ n.cost = s.cost
    BY <1>1, <2>1, NewRecords
  <2>. HIDE DEF n, s
  <2>3. MemoryHold(n) = [fate |-> "charged", user |-> s.user, amount |-> s.amount, cost |-> s.cost]
    BY <2>2, Views
  <2>4. MemoryHold(s) = [fate |-> "owed", user |-> s.user, amount |-> s.amount, cost |-> s.cost]
    BY <1>1, <2>1, Views
  <2>5. MemoryHolds' = [MemoryHolds EXCEPT ![r] = MemoryHold(n)] /\ MemoryHolds[r] = MemoryHold(s)
    BY <2>1, <2>2, OneHoldChanged DEF MemoryHolds, s
  <2>6. MemoryHolds' = [MemoryHolds EXCEPT ![r].fate = "charged"] /\ MemoryHolds[r].fate = "owed"
        /\ MemoryHolds[r].user = s.user /\ MemoryHolds[r].amount = s.amount /\ MemoryHolds[r].cost = s.cost
    <3>. DEFINE h == [fate |-> "owed", user |-> s.user, amount |-> s.amount, cost |-> s.cost]
    <3>1. MemoryHolds[r] = h /\ MemoryHolds' = [MemoryHolds EXCEPT ![r] = [fate |-> "charged", user |-> s.user,
                                                         amount |-> s.amount, cost |-> s.cost]]
      BY <2>3, <2>4, <2>5
    <3>2. [h EXCEPT !.fate = "charged"]
            = [fate |-> "charged", user |-> s.user, amount |-> s.amount, cost |-> s.cost]
      OBVIOUS
    <3>3. MemoryHolds' = [MemoryHolds EXCEPT ![r] = [h EXCEPT !.fate = "charged"]]
      BY <3>1, <3>2
    <3>4. h.fate = "owed" /\ h.user = s.user /\ h.amount = s.amount /\ h.cost = s.cost
      OBVIOUS
    <3>. HIDE DEF h
    <3>5. QED
      BY <3>1, <3>3, <3>4
  <2>7. funds' = [funds EXCEPT ![MemoryHolds[r].user] = @ + (MemoryHolds[r].amount - MemoryHolds[r].cost)]
    BY <2>1, <2>6 DEF M!Adjusts
  <2>8. QED
    BY <2>6, <2>7 DEF M!W!Charge, MemoryHolds, MemoryHold
<1>3. CASE ~M!Settles(r)
  BY <1>3 DEF M!Finalize, MemoryHolds, MemoryHold, M!FateOf
<1>4. QED
  BY <1>2, <1>3

LEMMA RefundRefines ==
  ASSUME M!ConstantsOK, RecordsOK, NEW r \in Ids, NEW ok \in BOOLEAN, M!Refund(r, ok)
  PROVE  M!W!Return(r) \/ (MemoryHolds' = MemoryHolds /\ funds' = funds)
<1>. DEFINE s == record[r]
            n == [s EXCEPT !.status = "refunded"]
<1>1. RecordOK(s)
  BY DEF RecordsOK
<1>2. CASE M!Refunds(r)
  <2>1. s.status = "reserved" /\ M!Becomes(r, n) /\ M!Adjusts(s.user, s.amount)
    BY <1>2 DEF M!Refund, M!Refunds
  <2>2. RecordOK(n) /\ n.status = "refunded" /\ n.user = s.user /\ n.amount = s.amount
    BY <1>1, <2>1, NewRecords
  <2>. HIDE DEF n, s
  <2>3. MemoryHold(n) = [fate |-> "returned", user |-> s.user, amount |-> s.amount, cost |-> 0]
    BY <2>2, Views
  <2>4. MemoryHold(s) = [fate |-> "held", user |-> s.user, amount |-> s.amount, cost |-> 0]
    BY <1>1, <2>1, Views
  <2>5. MemoryHolds' = [MemoryHolds EXCEPT ![r] = MemoryHold(n)] /\ MemoryHolds[r] = MemoryHold(s)
    BY <2>1, <2>2, OneHoldChanged DEF MemoryHolds, s
  <2>6. MemoryHolds' = [MemoryHolds EXCEPT ![r].fate = "returned"] /\ MemoryHolds[r].fate = "held"
        /\ MemoryHolds[r].user = s.user /\ MemoryHolds[r].amount = s.amount
    <3>. DEFINE h == [fate |-> "held", user |-> s.user, amount |-> s.amount, cost |-> 0]
    <3>1. MemoryHolds[r] = h /\ MemoryHolds' = [MemoryHolds EXCEPT ![r] = [fate |-> "returned", user |-> s.user,
                                                         amount |-> s.amount, cost |-> 0]]
      BY <2>3, <2>4, <2>5
    <3>2. [h EXCEPT !.fate = "returned"]
            = [fate |-> "returned", user |-> s.user, amount |-> s.amount, cost |-> 0]
      OBVIOUS
    <3>3. MemoryHolds' = [MemoryHolds EXCEPT ![r] = [h EXCEPT !.fate = "returned"]]
      BY <3>1, <3>2
    <3>4. h.fate = "held" /\ h.user = s.user /\ h.amount = s.amount /\ h.cost = 0
      OBVIOUS
    <3>. HIDE DEF h
    <3>5. QED
      BY <3>1, <3>3, <3>4
  <2>7. funds' = [funds EXCEPT ![MemoryHolds[r].user] = @ + MemoryHolds[r].amount]
    BY <2>1, <2>6 DEF M!Adjusts
  <2>8. QED
    BY <2>6, <2>7 DEF M!W!Return, MemoryHolds, MemoryHold
<1>3. CASE ~M!Refunds(r)
  BY <1>3 DEF M!Refund, MemoryHolds, MemoryHold, M!FateOf
<1>4. QED
  BY <1>2, <1>3

\* A call of a request is one step of the wallet, or does not show in it.
LEMMA RequestRefines ==
  ASSUME M!ConstantsOK, RecordsOK, NEW r \in Ids, M!Request(r)
  PROVE  M!W!WNext \/ (MemoryHolds' = MemoryHolds /\ funds' = funds)
<1>. DEFINE s == record[r]
<1>1. RecordOK(s)
  BY DEF RecordsOK
<1>2. ASSUME NEW u \in MemoryUsers, NEW a \in Amounts, M!Reserve(r, u, a) PROVE M!W!Place(r, u, a)
  <2>. DEFINE n == [M!AbsentRecord EXCEPT !.status = "reserved", !.user = u, !.amount = a]
  <2>1. s.status = "absent" /\ M!Becomes(r, n) /\ funds[u] >= a /\ M!Adjusts(u, -a)
    BY <1>2 DEF M!Reserve, M!CanReserve
  <2>2. RecordOK(n) /\ n.status = "reserved" /\ n.user = u /\ n.amount = a
    <3>1. RecordOK(n)
      BY <1>1, NewRecords
    <3>2. n.status = "reserved" /\ n.user = u /\ n.amount = a
      BY DEF M!AbsentRecord
    <3>3. QED
      BY <3>1, <3>2
  <2>3. a > 0 /\ a \in Nat /\ funds \in [MemoryUsers -> Int]
    BY DEF M!ConstantsOK, RecordsOK
  <2>. HIDE DEF n, s
  <2>4. MemoryHold(n) = [fate |-> "held", user |-> u, amount |-> a, cost |-> 0]
    BY <2>2, Views
  <2>5. MemoryHold(s).fate = "absent"
    BY <1>1, <2>1, Views DEF M!FateOf
  <2>6. MemoryHolds' = [MemoryHolds EXCEPT ![r] = MemoryHold(n)] /\ MemoryHolds[r] = MemoryHold(s)
    BY <2>1, <2>2, OneHoldChanged DEF MemoryHolds, s
  <2>7. /\ MemoryHolds[r].fate = "absent"
        /\ MemoryHolds' = [MemoryHolds EXCEPT ![r] = [fate |-> "held", user |-> u, amount |-> a, cost |-> 0]]
    BY <2>4, <2>5, <2>6
  <2>8. funds' = [funds EXCEPT ![u] = @ - a]
    BY <2>1, <2>3 DEF M!Adjusts
  <2>9. QED
    BY <2>1, <2>3, <2>7, <2>8 DEF M!W!Place, MemoryHolds, MemoryHold
<1>3. ASSUME NEW ch \in Channels, M!MarkInFlight(r, ch) PROVE MemoryHolds' = MemoryHolds /\ funds' = funds
  <2>. DEFINE n == [s EXCEPT !.status = "in_flight", !.channel = ch, !.attemptOld = FALSE]
  <2>1. s.status = "reserved" /\ M!Becomes(r, n) /\ funds' = funds
    BY <1>3 DEF M!MarkInFlight
  <2>2. RecordOK(n) /\ n.status = "in_flight" /\ n.user = s.user /\ n.amount = s.amount
    <3>1. RecordOK(n)
      BY <1>1, <2>1, NewRecords
    <3>2. n.status = "in_flight" /\ n.user = s.user /\ n.amount = s.amount
      <4>1. s \in Record
        BY <1>1 DEF RecordOK
      <4>. HIDE DEF s
      <4>2. QED
        BY <4>1 DEF Record
    <3>3. QED
      BY <3>1, <3>2
  <2>. HIDE DEF n
  <2>3. MemoryHold(n) = MemoryHold(s)
    BY <1>1, <2>1, <2>2, Views
  <2>4. QED
    BY <2>1, <2>2, <2>3, SameHold
<1>4. ASSUME M!ReleaseAttempt(r) PROVE MemoryHolds' = MemoryHolds /\ funds' = funds
  <2>. DEFINE n == [s EXCEPT !.status = "reserved", !.attemptOld = FALSE]
  <2>1. s.status = "in_flight" /\ M!Becomes(r, n) /\ funds' = funds
    BY <1>4 DEF M!ReleaseAttempt
  <2>2. RecordOK(n) /\ n.status = "reserved" /\ n.user = s.user /\ n.amount = s.amount
    <3>1. RecordOK(n)
      BY <1>1, <2>1, NewRecords
    <3>2. n.status = "reserved" /\ n.user = s.user /\ n.amount = s.amount
      <4>1. s \in Record
        BY <1>1 DEF RecordOK
      <4>. HIDE DEF s
      <4>2. QED
        BY <4>1 DEF Record
    <3>3. QED
      BY <3>1, <3>2
  <2>. HIDE DEF n
  <2>3. MemoryHold(n) = MemoryHold(s)
    BY <1>1, <2>1, <2>2, Views
  <2>4. QED
    BY <2>1, <2>2, <2>3, SameHold
<1>5. ASSUME NEW ch \in Channels, NEW c \in Costs, M!RecordConsumption(r, ch, c)
      PROVE  (c \in 0 .. MemoryHolds[r].amount /\ M!W!Owe(r, c)) \/ (MemoryHolds' = MemoryHolds /\ funds' = funds)
  <2>. DEFINE n == [s EXCEPT !.status = "consumed_unsettled", !.cost = c]
  <2>1. s.status = "in_flight" /\ M!Becomes(r, n) /\ funds' = funds
    BY <1>5 DEF M!RecordConsumption
  <2>2. RecordOK(n) /\ n.status = "consumed_unsettled" /\ n.user = s.user /\ n.amount = s.amount /\ n.cost = c
    <3>1. RecordOK(n)
      BY <1>1, <2>1, NewRecords
    <3>2. n.status = "consumed_unsettled" /\ n.user = s.user /\ n.amount = s.amount /\ n.cost = c
      <4>1. s \in Record
        BY <1>1 DEF RecordOK
      <4>. HIDE DEF s
      <4>2. QED
        BY <4>1 DEF Record
    <3>3. QED
      BY <3>1, <3>2
  <2>3. c \in Nat /\ s.amount \in Nat
    BY <1>1 DEF M!ConstantsOK, RecordOK, Record
  <2>. HIDE DEF n, s
  <2>4. MemoryHold(s) = [fate |-> "held", user |-> s.user, amount |-> s.amount, cost |-> 0]
    BY <1>1, <2>1, Views
  <2>5. CASE c <= s.amount
    <3>1. MemoryHold(n) = [fate |-> "owed", user |-> s.user, amount |-> s.amount, cost |-> c]
      BY <2>2, <2>5, Views
    <3>2. MemoryHolds' = [MemoryHolds EXCEPT ![r] = MemoryHold(n)] /\ MemoryHolds[r] = MemoryHold(s)
      BY <2>1, <2>2, OneHoldChanged DEF MemoryHolds, s
    <3>3. /\ MemoryHolds[r].fate = "held" /\ MemoryHolds[r].amount = s.amount /\ MemoryHolds[r].user = s.user
          /\ MemoryHolds' = [MemoryHolds EXCEPT ![r] = [fate |-> "owed", user |-> MemoryHolds[r].user,
                                            amount |-> MemoryHolds[r].amount, cost |-> c]]
      BY <2>4, <3>1, <3>2
    <3>4. c \in 0 .. MemoryHolds[r].amount
      BY <2>3, <2>5, <3>3
    <3>5. QED
      BY <2>1, <3>3, <3>4 DEF M!W!Owe, MemoryHolds, MemoryHold
  <2>6. CASE ~ c <= s.amount
    <3>1. MemoryHold(n) = MemoryHold(s)
      BY <2>2, <2>4, <2>6, Views
    <3>2. QED
      BY <2>1, <2>2, <3>1, SameHold DEF s
  <2>7. QED
    BY <2>5, <2>6
<1>6. QED
  <2>1. ASSUME NEW u \in MemoryUsers, NEW a \in Amounts, M!W!Place(r, u, a) PROVE M!W!WNext
    BY <2>1 DEF M!W!WNext
  <2>2. ASSUME NEW c \in 0 .. MemoryHolds[r].amount, M!W!Owe(r, c) PROVE M!W!WNext
    BY <2>2 DEF M!W!WNext, MemoryHolds, MemoryHold
  <2>3. M!W!Charge(r) \/ M!W!Return(r) => M!W!WNext
    BY DEF M!W!WNext
  <2>4. QED
    BY <1>2, <1>3, <1>4, <1>5, <2>1, <2>2, <2>3, FinalizeRefines, RefundRefines DEF M!Request

LEMMA NextWallet == M!ConstantsOK /\ MemoryInv /\ [M!Next]_(M!vars) => [M!W!WNext]_(M!W!wvars)
<1>. SUFFICES ASSUME M!ConstantsOK, MemoryInv, [M!Next]_(M!vars) PROVE [M!W!WNext]_(M!W!wvars)
  OBVIOUS
<1>0. RecordsOK
  BY DEF MemoryInv
<1>1. MemoryHolds' = MemoryHolds /\ funds' = funds => UNCHANGED M!W!wvars
  BY DEF MemoryHolds, MemoryHold, M!W!wvars
<1>2. record' = record => MemoryHolds' = MemoryHolds
  BY DEF MemoryHolds, MemoryHold, M!FateOf
<1>3. ASSUME NEW r \in Ids, M!Request(r) PROVE [M!W!WNext]_(M!W!wvars)
  BY <1>0, <1>1, <1>3, RequestRefines
<1>4. ASSUME NEW r \in Ids, M!GrowOld(r) PROVE [M!W!WNext]_(M!W!wvars)
  <2>. DEFINE s == record[r]
              n == [s EXCEPT !.old = TRUE]
              m == [s EXCEPT !.attemptOld = TRUE]
  <2>1. /\ s.status \in {"reserved", "in_flight"} /\ funds' = funds
        /\ M!Becomes(r, n) \/ (s.status = "in_flight" /\ M!Becomes(r, m))
    BY <1>4 DEF M!GrowOld
  <2>2. RecordOK(s)
    BY <1>0 DEF RecordsOK
  <2>3. RecordOK(n) /\ n.status = s.status /\ n.user = s.user /\ n.amount = s.amount
    BY <2>1, <2>2, NewRecords, ZenonT(40)
  <2>4. s.status = "in_flight" => RecordOK(m) /\ m.status = s.status /\ m.user = s.user /\ m.amount = s.amount
    BY <2>1, <2>2, NewRecords, ZenonT(40)
  <2>. HIDE DEF n, m
  <2>5. MemoryHold(n) = MemoryHold(s) /\ (s.status = "in_flight" => MemoryHold(m) = MemoryHold(s))
    BY <2>1, <2>2, <2>3, <2>4, Views
  <2>6. MemoryHolds' = MemoryHolds
    BY <1>0, <2>1, <2>3, <2>4, <2>5, SameHold
  <2>7. QED
    BY <1>1, <2>1, <2>6
<1>5. CASE M!StartRecover \/ M!FinishRecover
  BY <1>1, <1>2, <1>5 DEF M!StartRecover, M!FinishRecover
<1>6. CASE M!RecoverNext
  <2>1. PICK r \in Ids, ok \in BOOLEAN : M!Finalize(r, ok) \/ M!Refund(r, ok)
    BY <1>6 DEF M!RecoverNext
  <2>2. M!W!Charge(r) \/ M!W!Return(r) => M!W!WNext
    BY DEF M!W!WNext
  <2>3. QED
    BY <1>0, <1>1, <2>1, <2>2, FinalizeRefines, RefundRefines
<1>7. ASSUME NEW u \in MemoryUsers, NEW d \in MemoryDeltas, M!AdminAddBalance(u, d) PROVE [M!W!WNext]_(M!W!wvars)
  <2>1. funds' = [funds EXCEPT ![u] = funds[u] + d] /\ record' = record
    BY <1>7 DEF M!AdminAddBalance, M!Adjusts
  <2>2. funds' = [funds EXCEPT ![u] = funds'[u]] /\ MemoryHolds' = MemoryHolds
    BY <1>0, <1>2, <2>1 DEF RecordsOK
  <2>3. M!W!Adjust(u)
    BY <2>2 DEF M!W!Adjust, MemoryHolds, MemoryHold
  <2>4. QED
    BY <2>3 DEF M!W!WNext
<1>8. ASSUME NEW u \in MemoryUsers, NEW e \in BOOLEAN, M!AdminSetUserEnabled(u, e) PROVE [M!W!WNext]_(M!W!wvars)
  BY <1>1, <1>2, <1>8 DEF M!AdminSetUserEnabled
<1>9. CASE UNCHANGED M!vars
  BY <1>1, <1>2, <1>9 DEF M!vars
<1>10. QED
  BY <1>3, <1>4, <1>5, <1>6, <1>7, <1>8, <1>9 DEF M!Next

\* Whatever requests, recovery and the administration do in between, the ledger in memory
\* keeps the contract of the wallet: a hold within the balance, disposed of at most once.
THEOREM MemoryKeepsContract ==
  ASSUME M!ConstantsOK
  PROVE  M!Spec => M!ImplementsWallet
<1>1. M!Init => MemoryInv /\ M!W!WInit
  BY InitMemory, InitWallet
<1>2. MemoryInv /\ [M!Next]_(M!vars) => MemoryInv' /\ [M!W!WNext]_(M!W!wvars)
  BY NextMemory, NextWallet
<1>3. QED
  BY <1>1, <1>2, PTL DEF M!Spec, M!ImplementsWallet, M!W!WSpec

-----------------------------------------------------------------------------
(* Money in memory, by the same sums as in PostgreSQL.                     *)

MemoryWeights == [r \in Ids |-> M!Withheld(record[r])]
MemoryOwners  == [r \in Ids |-> record[r].user]

LEMMA MemorySumIsTotal ==
  ASSUME NEW S \in SUBSET Ids, IsFiniteSet(S), MemoryWeights \in [Ids -> Int]
  PROVE  M!MapThenSumSet(LAMBDA r : M!Withheld(record[r]), S) = TotalOf(MemoryWeights, S)
<1> DEFINE e == [s \in SUBSET S |-> CHOOSE x \in s : TRUE]
           F(h) == [s \in SUBSET S |-> IF s = {} THEN 0 ELSE
                       M!Withheld(record[CHOOSE x \in s : TRUE]) + h[s \ {CHOOSE x \in s : TRUE}]]
           H == CHOOSE h : h = F(h)
           w == [r \in S |-> MemoryWeights[r]]
<1>1. M!MapThenSumSet(LAMBDA r : M!Withheld(record[r]), S) = H[S]
  BY DEF M!MapThenSumSet, M!MapThenFoldSet
<1>2. /\ \A s \in SUBSET S : s # {} => e[s] \in s /\ w[e[s]] = M!Withheld(record[e[s]])
      /\ w \in [S -> Int] /\ \A r \in S : w[r] = MemoryWeights[r]
  BY DEF MemoryWeights
<1>3. \A h : Steps(h, e, w, S) <=> h = F(h)
  <2>. HIDE DEF w
  <2>1. ASSUME NEW h
        PROVE  F(h) = [s \in SUBSET S |-> IF s = {} THEN 0 ELSE w[e[s]] + h[s \ {e[s]}]]
    <3>1. \A s \in SUBSET S : s # {} =>
            w[e[s]] = M!Withheld(record[CHOOSE x \in s : TRUE]) /\ e[s] = CHOOSE x \in s : TRUE
      BY <1>2
    <3>. HIDE DEF e
    <3>2. QED
      BY <3>1, ZenonT(40)
  <2>2. \A s \in SUBSET S : s # {} => e[s] \in s
    BY <1>2
  <2>. HIDE DEF e, F
  <2>3. ASSUME NEW h PROVE Steps(h, e, w, S) <=> h = F(h)
    BY <2>1, <2>2 DEF Steps
  <2>4. QED
    BY <2>3
<1>. HIDE DEF w, e, F
<1>4. PICK g : g = F(g)
  BY <1>2, <1>3, Computed
<1>5. H = F(H)
  BY <1>4
<1>. HIDE DEF H
<1>6. H[S] = TotalOf(w, S)
  BY <1>2, <1>3, <1>5, Computed
<1>7. TotalOf(w, S) = TotalOf(MemoryWeights, S)
  BY <1>2, TotalAgrees
<1>8. QED
  BY <1>1, <1>6, <1>7

MemoryMoneyAt(u) ==
  /\ IsFiniteSet(Owned(MemoryOwners, u))
  /\ funds[u] + TotalOf(MemoryWeights, Owned(MemoryOwners, u)) = paid[u]

MemoryMoney == paid \in [MemoryUsers -> Int] /\ \A u \in MemoryUsers : MemoryMoneyAt(u)

LEMMA MemoryWeightsType == RecordsOK => MemoryWeights \in [Ids -> Int]
  BY DEF RecordsOK, Record, MemoryWeights, M!Withheld

LEMMA InitMemoryMoney == M!ConstantsOK /\ M!Init => MemoryMoney
<1> SUFFICES ASSUME M!ConstantsOK, M!Init PROVE MemoryMoney
  OBVIOUS
<1>1. \A u \in MemoryUsers : Owned(MemoryOwners, u) = {}
  BY DEF M!Init, M!AbsentRecord, M!ConstantsOK, Owned, MemoryOwners
<1>2. funds \in [MemoryUsers -> Int] /\ paid = funds
  <2>1. MemoryOpenings \subseteq Int
    BY DEF M!ConstantsOK
  <2>2. QED
    BY <2>1 DEF M!Init
<1>3. QED
  BY <1>1, <1>2, TotalOfNone, FS_EmptySet DEF MemoryMoney, MemoryMoneyAt

\* A record that changes gives to the balance what it no longer withholds.
LEMMA MemoryMoves ==
  ASSUME M!ConstantsOK, RecordsOK, MemoryMoney,
         NEW r \in Ids, NEW n, RecordOK(n), M!Becomes(r, n), NEW u \in MemoryUsers, n.user = u,
         record[r].user = u \/ record[r].status = "absent",
         funds' = [funds EXCEPT ![u] = @ + (M!Withheld(record[r]) - M!Withheld(n))],
         paid' = paid
  PROVE  MemoryMoney'
<1>1. /\ record'[r] = n /\ \A q \in Ids \ {r} : record'[q] = record[q]
      /\ record' \in [Ids -> Record] /\ record \in [Ids -> Record] /\ funds \in [MemoryUsers -> Int]
      /\ u # NoUser
  BY OneWritten DEF RecordsOK, M!ConstantsOK
<1>2. MemoryWeights \in [Ids -> Int] /\ MemoryWeights' \in [Ids -> Int]
  BY <1>1 DEF Record, MemoryWeights, M!Withheld
<1>3. /\ \A q \in Ids \ {r} : MemoryOwners'[q] = MemoryOwners[q] /\ MemoryWeights'[q] = MemoryWeights[q]
      /\ MemoryOwners[r] = record[r].user /\ MemoryOwners'[r] = u
      /\ MemoryWeights[r] = M!Withheld(record[r]) /\ MemoryWeights'[r] = M!Withheld(n)
  BY <1>1 DEF MemoryOwners, MemoryWeights
<1>4. record[r].status = "absent" => record[r].user = NoUser /\ M!Withheld(record[r]) = 0
  BY DEF RecordsOK, RecordOK, M!AbsentRecord, M!Withheld
<1>5. ASSUME NEW x \in MemoryUsers PROVE MemoryMoneyAt(x)'
  <2>1. x # NoUser /\ MemoryMoneyAt(x) /\ paid[x] \in Int
    BY DEF MemoryMoney, M!ConstantsOK
  <2>2. PICK o, p, v, w : o = MemoryOwners /\ p = MemoryOwners' /\ v = MemoryWeights /\ w = MemoryWeights'
    OBVIOUS
  <2>3. /\ Changes(o, v, p, w, r, NoUser)
        /\ IsFiniteSet(Owned(o, x)) /\ p[r] = u /\ v[r] \in Int /\ w[r] \in Int
    <3>1. \A q \in Ids \ {r} : p[q] = o[q] /\ w[q] = v[q]
      BY <1>3, <2>2
    <3>2. p[r] = u /\ o[r] \in {NoUser, u} /\ (o[r] = NoUser => v[r] = 0)
      BY <1>1, <1>3, <1>4, <2>2
    <3>3. v \in [Ids -> Int] /\ w \in [Ids -> Int] /\ IsFiniteSet(Owned(o, x))
      BY <1>2, <2>1, <2>2 DEF MemoryMoneyAt
    <3>4. QED
      BY <3>1, <3>2, <3>3 DEF Changes
  <2>4. /\ IsFiniteSet(Owned(p, x)) /\ TotalOf(v, Owned(o, x)) \in Int
        /\ TotalOf(w, Owned(p, x)) =
             TotalOf(v, Owned(o, x)) + (IF x = p[r] THEN w[r] - v[r] ELSE 0)
    BY <2>1, <2>3, OwnedChanges
  <2>5. funds[x] + TotalOf(v, Owned(o, x)) = paid[x] /\ funds[x] \in Int
    BY <1>1, <2>1, <2>2 DEF MemoryMoneyAt
  <2>6. funds'[x] = funds[x] + (IF x = u THEN v[r] - w[r] ELSE 0)
    BY <1>1, <1>3, <2>2
  <2>7. funds'[x] + TotalOf(w, Owned(p, x)) = paid[x]
    BY <2>1, <2>3, <2>4, <2>5, <2>6
  <2>8. QED
    BY <2>2, <2>4, <2>7 DEF MemoryMoneyAt
<1>6. QED
  BY <1>5 DEF MemoryMoney

\* A change that withholds the same leaves the balance.
LEMMA MemoryRests ==
  ASSUME M!ConstantsOK, RecordsOK, MemoryMoney,
         NEW r \in Ids, NEW n, RecordOK(n), M!Becomes(r, n), record[r].status # "absent",
         n.user = record[r].user, M!Withheld(n) = M!Withheld(record[r]),
         UNCHANGED <<funds, paid>>
  PROVE  MemoryMoney'
<1>1. record[r].user \in MemoryUsers /\ funds \in [MemoryUsers -> Int] /\ record[r] \in Record
  BY DEF RecordsOK, RecordOK
<1>2. M!Withheld(n) \in Int
  BY <1>1 DEF Record, M!Withheld
<1>3. funds' = [funds EXCEPT ![record[r].user] = @ + (M!Withheld(record[r]) - M!Withheld(n))]
  BY <1>1, <1>2
<1>4. QED
  BY <1>1, <1>3, MemoryMoves

LEMMA SettleMoney ==
  ASSUME M!ConstantsOK, RecordsOK, MemoryMoney, NEW r \in Ids, NEW ok \in BOOLEAN,
         M!Finalize(r, ok) \/ M!Refund(r, ok), paid' = paid
  PROVE  MemoryMoney'
<1> DEFINE s == record[r]
<1>1. RecordOK(s)
  BY DEF RecordsOK
<1>2. s.status # "absent" => s.user \in MemoryUsers /\ s.amount \in Int /\ s.cost \in Int
  BY <1>1 DEF RecordOK, Record
<1>3. CASE M!Finalize(r, ok) /\ M!Settles(r)
  <2> DEFINE n == [s EXCEPT !.status = "settled"]
  <2>1. /\ s.status = "consumed_unsettled" /\ M!Becomes(r, n)
        /\ funds' = [funds EXCEPT ![s.user] = @ + (s.amount - s.cost)]
    BY <1>3 DEF M!Finalize, M!Settles, M!Adjusts
  <2>2. RecordOK(n) /\ n.status = "settled" /\ n.user = s.user /\ n.amount = s.amount /\ n.cost = s.cost
    BY <1>1, <2>1, NewRecords
  <2>. HIDE DEF n
  <2>3. M!Withheld(s) = s.amount /\ M!Withheld(n) = s.cost
    BY <2>1, <2>2 DEF M!Withheld
  <2>4. QED
    BY <1>2, <2>1, <2>2, <2>3, MemoryMoves
<1>4. CASE M!Refund(r, ok) /\ M!Refunds(r)
  <2> DEFINE n == [s EXCEPT !.status = "refunded"]
  <2>1. /\ s.status = "reserved" /\ M!Becomes(r, n)
        /\ funds' = [funds EXCEPT ![s.user] = @ + s.amount]
    BY <1>4 DEF M!Refund, M!Refunds, M!Adjusts
  <2>2. RecordOK(n) /\ n.status = "refunded" /\ n.user = s.user
    BY <1>1, <2>1, NewRecords
  <2>. HIDE DEF n
  <2>3. M!Withheld(s) = s.amount /\ M!Withheld(n) = 0 /\ s.amount - 0 = s.amount
    BY <1>2, <2>1, <2>2 DEF M!Withheld
  <2>4. QED
    BY <1>2, <2>1, <2>2, <2>3, MemoryMoves
<1>5. CASE UNCHANGED <<funds, record>>
  BY <1>5 DEF MemoryMoney, MemoryMoneyAt, MemoryWeights, MemoryOwners
<1>6. QED
  BY <1>3, <1>4, <1>5 DEF M!Finalize, M!Refund

LEMMA RequestMoney ==
  ASSUME M!ConstantsOK, RecordsOK, MemoryMoney, NEW r \in Ids, M!Request(r) \/ M!GrowOld(r)
  PROVE  MemoryMoney'
<1> DEFINE s == record[r]
<1>1. RecordOK(s)
  BY DEF RecordsOK
<1>2. ASSUME NEW u \in MemoryUsers, NEW a \in Amounts, M!Reserve(r, u, a) PROVE MemoryMoney'
  <2> DEFINE n == [M!AbsentRecord EXCEPT !.status = "reserved", !.user = u, !.amount = a]
  <2>1. /\ s.status = "absent" /\ M!Becomes(r, n) /\ paid' = paid
        /\ funds' = [funds EXCEPT ![u] = @ + (-a)]
    BY <1>2 DEF M!Reserve, M!Adjusts, M!Outside
  <2>2. RecordOK(n) /\ n.status = "reserved" /\ n.user = u /\ n.amount = a
    <3>1. RecordOK(n)
      BY <1>1, NewRecords
    <3>2. QED
      BY <3>1 DEF M!AbsentRecord
  <2>. HIDE DEF n
  <2>3. M!Withheld(s) = 0 /\ M!Withheld(n) = a /\ -a = 0 - a
    BY <2>1, <2>2 DEF M!Withheld, M!ConstantsOK
  <2>4. QED
    BY <2>1, <2>2, <2>3, MemoryMoves
<1>3. ASSUME NEW n, RecordOK(n), M!Becomes(r, n), UNCHANGED <<funds, paid>>,
             s.status \in {"reserved", "in_flight"},
             n.status \in {"reserved", "in_flight", "consumed_unsettled"},
             n.user = s.user, n.amount = s.amount
      PROVE  MemoryMoney'
  <2>1. M!Withheld(n) = M!Withheld(s)
    BY <1>3 DEF M!Withheld
  <2>2. QED
    BY <1>3, <2>1, MemoryRests
<1>4. ASSUME NEW ch \in Channels, M!MarkInFlight(r, ch) PROVE MemoryMoney'
  <2> DEFINE n == [s EXCEPT !.status = "in_flight", !.channel = ch, !.attemptOld = FALSE]
  <2>1. s.status = "reserved" /\ M!Becomes(r, n) /\ UNCHANGED <<funds, paid>>
    BY <1>4 DEF M!MarkInFlight, M!Outside
  <2>2. RecordOK(n) /\ n.status = "in_flight" /\ n.user = s.user /\ n.amount = s.amount
    <3>1. RecordOK(n)
      BY <1>1, <2>1, NewRecords
    <3>2. QED
      BY <1>1, <3>1 DEF RecordOK, Record
  <2>. HIDE DEF n
  <2>3. QED
    BY <1>3, <2>1, <2>2
<1>5. CASE M!ReleaseAttempt(r)
  <2> DEFINE n == [s EXCEPT !.status = "reserved", !.attemptOld = FALSE]
  <2>1. s.status = "in_flight" /\ M!Becomes(r, n) /\ UNCHANGED <<funds, paid>>
    BY <1>5 DEF M!ReleaseAttempt, M!Outside
  <2>2. RecordOK(n) /\ n.status = "reserved" /\ n.user = s.user /\ n.amount = s.amount
    BY <1>1, <2>1, NewRecords
  <2>. HIDE DEF n
  <2>3. QED
    BY <1>3, <2>1, <2>2
<1>6. ASSUME NEW ch \in Channels, NEW c \in Costs, M!RecordConsumption(r, ch, c) PROVE MemoryMoney'
  <2> DEFINE n == [s EXCEPT !.status = "consumed_unsettled", !.cost = c]
  <2>1. s.status = "in_flight" /\ M!Becomes(r, n) /\ UNCHANGED <<funds, paid>>
    BY <1>6 DEF M!RecordConsumption, M!Outside
  <2>2. RecordOK(n) /\ n.status = "consumed_unsettled" /\ n.user = s.user /\ n.amount = s.amount
    <3>1. RecordOK(n)
      BY <1>1, <2>1, NewRecords
    <3>2. QED
      BY <1>1, <3>1 DEF RecordOK, Record
  <2>. HIDE DEF n
  <2>3. QED
    BY <1>3, <2>1, <2>2
<1>7. CASE M!GrowOld(r)
  <2> DEFINE n == [s EXCEPT !.old = TRUE]
             m == [s EXCEPT !.attemptOld = TRUE]
  <2>1. /\ s.status \in {"reserved", "in_flight"} /\ UNCHANGED <<funds, paid>>
        /\ M!Becomes(r, n) \/ (s.status = "in_flight" /\ M!Becomes(r, m))
    BY <1>7 DEF M!GrowOld, M!Outside
  <2>2. RecordOK(n) /\ n.status = s.status /\ n.user = s.user /\ n.amount = s.amount
    BY <1>1, <2>1, NewRecords, ZenonT(40)
  <2>3. s.status = "in_flight" => RecordOK(m) /\ m.status = s.status /\ m.user = s.user /\ m.amount = s.amount
    BY <1>1, <2>1, NewRecords, ZenonT(40)
  <2>. HIDE DEF n, m
  <2>4. QED
    BY <1>3, <2>1, <2>2, <2>3
<1>8. ASSUME NEW ok \in BOOLEAN, M!Finalize(r, ok) \/ M!Refund(r, ok), UNCHANGED M!Outside PROVE MemoryMoney'
  BY <1>8, SettleMoney DEF M!Outside
<1>9. QED
  BY <1>2, <1>4, <1>5, <1>6, <1>7, <1>8 DEF M!Request

LEMMA NextMemoryMoney ==
  ASSUME M!ConstantsOK, MemoryInv, MemoryMoney, [M!Next]_(M!vars) PROVE MemoryMoney'
<1>0. RecordsOK
  BY DEF MemoryInv
<1>1. ASSUME NEW r \in Ids, M!Request(r) \/ M!GrowOld(r) PROVE MemoryMoney'
  BY <1>0, <1>1, RequestMoney
<1>2. CASE M!RecoverNext
  BY <1>0, <1>2, SettleMoney DEF M!RecoverNext, M!Outside
<1>3. CASE UNCHANGED <<funds, record, paid>>
  BY <1>3 DEF MemoryMoney, MemoryMoneyAt, MemoryWeights, MemoryOwners
<1>4. ASSUME NEW u \in MemoryUsers, NEW d \in MemoryDeltas, M!AdminAddBalance(u, d) PROVE MemoryMoney'
  <2>1. /\ d \in Int /\ funds \in [MemoryUsers -> Int] /\ paid \in [MemoryUsers -> Int]
        /\ funds' = [funds EXCEPT ![u] = @ + d] /\ paid' = [paid EXCEPT ![u] = @ + d]
        /\ record' = record
    BY <1>0, <1>4 DEF M!ConstantsOK, RecordsOK, MemoryMoney, M!AdminAddBalance, M!Adjusts
  <2>2. MemoryWeights' = MemoryWeights /\ MemoryOwners' = MemoryOwners
    BY <2>1 DEF MemoryWeights, MemoryOwners
  <2>3. ASSUME NEW x \in MemoryUsers PROVE MemoryMoneyAt(x)'
    <3>1. MemoryMoneyAt(x)
      BY DEF MemoryMoney
    <3>2. TotalOf(MemoryWeights, Owned(MemoryOwners, x)) \in Int
      <4>1. PICK v, o : v = MemoryWeights /\ o = MemoryOwners
        OBVIOUS
      <4>2. v \in [Ids -> Int] /\ Owned(o, x) \subseteq Ids /\ IsFiniteSet(Owned(o, x))
        BY <1>0, <3>1, <4>1, MemoryWeightsType DEF MemoryMoneyAt, Owned
      <4>3. QED
        BY <4>1, <4>2, TotalIsInt
    <3>3. /\ funds'[x] = funds[x] + (IF x = u THEN d ELSE 0) /\ funds[x] \in Int
          /\ paid'[x] = paid[x] + (IF x = u THEN d ELSE 0) /\ paid[x] \in Int
      BY <2>1
    <3>4. QED
      BY <2>1, <2>2, <3>1, <3>2, <3>3 DEF MemoryMoneyAt
  <2>4. paid' \in [MemoryUsers -> Int]
    BY <2>1
  <2>5. QED
    BY <2>3, <2>4 DEF MemoryMoney
<1>5. QED
  BY <1>1, <1>2, <1>3, <1>4
     DEF M!Next, M!StartRecover, M!FinishRecover, M!AdminSetUserEnabled, M!Outside, M!vars

LEMMA MemoryMoneyConserved ==
  ASSUME RecordsOK, MemoryMoney PROVE M!Conservation
<1>1. ASSUME NEW u \in MemoryUsers
      PROVE  funds[u] + M!MapThenSumSet(LAMBDA r : M!Withheld(record[r]), { r \in Ids : record[r].user = u })
               = paid[u]
  <2>1. { r \in Ids : record[r].user = u } = Owned(MemoryOwners, u)
    BY DEF Owned, MemoryOwners
  <2>2. M!MapThenSumSet(LAMBDA r : M!Withheld(record[r]), Owned(MemoryOwners, u))
          = TotalOf(MemoryWeights, Owned(MemoryOwners, u))
    BY MemoryWeightsType, MemorySumIsTotal DEF MemoryMoney, MemoryMoneyAt, Owned
  <2>3. QED
    BY <2>1, <2>2 DEF MemoryMoney, MemoryMoneyAt
<1>2. QED
  BY <1>1 DEF M!Conservation

\* The ledger in memory neither creates nor loses money, whatever requests, recovery and
\* corrections do to it at the same time (memory_ledger.go:124-168).
THEOREM MemoryConserves ==
  ASSUME M!ConstantsOK PROVE M!Spec => []M!Conservation
<1>1. MemoryInv /\ MemoryMoney => M!Conservation
  BY MemoryMoneyConserved DEF MemoryInv
<1>2. M!Init => MemoryInv /\ MemoryMoney
  BY InitMemory, InitMemoryMoney
<1>3. MemoryInv /\ MemoryMoney /\ [M!Next]_(M!vars) => MemoryInv' /\ MemoryMoney'
  BY NextMemory, NextMemoryMoney
<1>4. QED
  BY <1>1, <1>2, <1>3, PTL DEF M!Spec

-----------------------------------------------------------------------------
(* Counting.                                                               *)

\* Module Startup counts as FiniteSets does.
LEMMA SameCount ==
  \A X : U!Cardinality(X) = Cardinality(X) /\ (U!IsFiniteSet(X) <=> IsFiniteSet(X))
BY DEF Cardinality, U!Cardinality, IsFiniteSet, U!IsFiniteSet

Below(S, x) == {y \in S : y < x}

LEMMA BelowCounts ==
  ASSUME NEW S \in SUBSET Nat, IsFiniteSet(S), NEW x \in Nat
  PROVE  /\ IsFiniteSet(Below(S, x)) /\ Cardinality(Below(S, x)) \in Nat
         /\ x \in S => Cardinality(Below(S, x)) < Cardinality(S)
         /\ \A y \in Nat : x <= y => Cardinality(Below(S, x)) <= Cardinality(Below(S, y))
         /\ \A y \in Nat : x \in S /\ x < y => Cardinality(Below(S, x)) < Cardinality(Below(S, y))
<1>0. \A y \in S : y \in Int
  OBVIOUS
<1>1. \A y \in Nat : /\ IsFiniteSet(Below(S, y)) /\ Cardinality(Below(S, y)) \in Nat
  BY FS_Subset, FS_CardinalityType DEF Below
<1>2. Cardinality(S) \in Nat
  BY FS_CardinalityType
<1>3. ASSUME x \in S PROVE Cardinality(Below(S, x)) < Cardinality(S)
  <2>1. Below(S, x) \subseteq S \ {x}
    BY DEF Below
  <2>2. IsFiniteSet(S \ {x}) /\ Cardinality(S \ {x}) = Cardinality(S) - 1
    BY <1>3, FS_RemoveElement
  <2>3. Cardinality(Below(S, x)) <= Cardinality(S \ {x})
    BY <2>1, <2>2, FS_Subset
  <2>4. QED
    BY <1>1, <1>2, <2>2, <2>3
<1>4. ASSUME NEW y \in Nat, x <= y PROVE Cardinality(Below(S, x)) <= Cardinality(Below(S, y))
  <2>1. Below(S, x) \subseteq Below(S, y)
    <3>1. ASSUME NEW z \in S, z < x PROVE z < y
      BY <1>0, <1>4, <3>1
    <3>2. QED
      BY <3>1 DEF Below
  <2>2. QED
    BY <1>1, <2>1, FS_Subset
<1>5. ASSUME NEW y \in Nat, x \in S, x < y PROVE Cardinality(Below(S, x)) < Cardinality(Below(S, y))
  <2>1. Below(S, x) \cup {x} \subseteq Below(S, y) /\ x \notin Below(S, x)
    <3>1. ASSUME NEW z \in S, z < x PROVE z < y
      BY <1>0, <1>5, <3>1
    <3>2. ~ (x < x)
      OBVIOUS
    <3>3. QED
      BY <1>5, <3>1, <3>2 DEF Below
  <2>2. IsFiniteSet(Below(S, x) \cup {x}) /\ Cardinality(Below(S, x) \cup {x}) = Cardinality(Below(S, x)) + 1
    BY <1>1, <2>1, FS_AddElement
  <2>3. Cardinality(Below(S, x) \cup {x}) <= Cardinality(Below(S, y))
    BY <1>1, <2>1, FS_Subset
  <2>4. QED
    BY <1>1, <2>2, <2>3
<1>6. QED
  BY <1>1, <1>3, <1>4, <1>5

\* For every rank there is an element: otherwise two elements had the same.
LEMMA EveryRank ==
  ASSUME NEW S \in SUBSET Nat, IsFiniteSet(S), NEW n \in 1 .. Cardinality(S)
  PROVE  \E x \in S : Cardinality(Below(S, x)) = n - 1
<1>. SUFFICES ASSUME \A x \in S : Cardinality(Below(S, x)) # n - 1 PROVE FALSE
  OBVIOUS
<1>0. PICK c \in Nat : c = Cardinality(S)
  BY FS_CardinalityType
<1> DEFINE T == (0 .. c - 1) \ {n - 1}
           f == [x \in S |-> Cardinality(Below(S, x))]
<1>1. n \in 1 .. c
  BY <1>0
<1>2. IsFiniteSet(0 .. c - 1) /\ Cardinality(0 .. c - 1) = c
  <2>1. 0 \in Int /\ c - 1 \in Int
    OBVIOUS
  <2>2. /\ IsFiniteSet(0 .. c - 1)
        /\ Cardinality(0 .. c - 1) = IF 0 > c - 1 THEN 0 ELSE (c - 1) - 0 + 1
    BY <2>1, FS_Interval
  <2>3. QED
    BY <2>2
<1>3. n - 1 \in 0 .. c - 1
  BY <1>1
<1>4. IsFiniteSet(T) /\ Cardinality(T) = c - 1
  <2>1. /\ IsFiniteSet((0 .. c - 1) \ {n - 1})
        /\ Cardinality((0 .. c - 1) \ {n - 1}) =
             IF n - 1 \in 0 .. c - 1 THEN Cardinality(0 .. c - 1) - 1 ELSE Cardinality(0 .. c - 1)
    BY <1>2, FS_RemoveElement, Zenon
  <2>2. QED
    BY <1>2, <1>3, <2>1
<1>5. f \in [S -> T]
  <2>1. ASSUME NEW x \in S PROVE Cardinality(Below(S, x)) \in T
    <3>1. Cardinality(Below(S, x)) \in Nat /\ Cardinality(Below(S, x)) < c
      BY <1>0, BelowCounts
    <3>2. QED
      BY <1>1, <3>1
  <2>2. QED
    BY <2>1
<1>6. Cardinality(T) < Cardinality(S)
  BY <1>0, <1>4
<1>7. \E x, y \in S : x # y /\ f[x] = f[y]
  <2>. HIDE DEF f, T
  <2>1. QED
    BY <1>4, <1>5, <1>6, FS_PigeonHole
<1>8. PICK x \in S, y \in S : x # y /\ Cardinality(Below(S, x)) = Cardinality(Below(S, y))
  BY <1>7
<1>9. x < y \/ y < x
  BY <1>8
<1>10. \A z \in S : Cardinality(Below(S, z)) \in Nat
  BY BelowCounts
<1>11. QED
  <2>1. CASE x < y
    BY <1>8, <1>10, <2>1, BelowCounts
  <2>2. CASE y < x
    BY <1>8, <1>10, <2>2, BelowCounts
  <2>3. QED
    BY <1>9, <2>1, <2>2

\* The migrations of a set, in the order of their versions.
LEMMA OrderedIsSorted ==
  ASSUME NEW S \in SUBSET Nat, IsFiniteSet(S), NEW known
  PROVE  /\ U!Ordered(known, S) = [n \in 1 .. Cardinality(S) |-> U!Ordered(known, S)[n]]
         /\ \A n \in 1 .. Cardinality(S) :
              /\ U!Ordered(known, S)[n][1] \in S
              /\ U!Ordered(known, S)[n] = <<U!Ordered(known, S)[n][1], known[U!Ordered(known, S)[n][1]]>>
         /\ \A m, n \in 1 .. Cardinality(S) :
              m < n => U!Ordered(known, S)[m][1] < U!Ordered(known, S)[n][1]
<1> DEFINE at(n) == CHOOSE x \in S : Cardinality(Below(S, x)) = n - 1
           o == U!Ordered(known, S)
<1>1. \A n \in 1 .. Cardinality(S) : at(n) \in S /\ Cardinality(Below(S, at(n))) = n - 1
  BY EveryRank
<1>2. \A n : (CHOOSE x \in S : U!Cardinality({y \in S : y < x}) = n - 1) = at(n)
  BY SameCount DEF Below
<1>3. o = [n \in 1 .. Cardinality(S) |-> <<at(n), known[at(n)]>>]
  <2> DEFINE ch(n) == CHOOSE x \in S : U!Cardinality({y \in S : y < x}) = n - 1
  <2>1. o = [n \in 1 .. U!Cardinality(S) |-> <<ch(n), known[ch(n)]>>]
    BY DEF U!Ordered
  <2>2. \A n : ch(n) = at(n)
    BY <1>2
  <2>. HIDE DEF ch, at, o
  <2>3. QED
    BY <2>1, <2>2, SameCount
<1>. HIDE DEF at, o
<1>. Cardinality(S) \in Nat
  BY FS_CardinalityType
<1>4. ASSUME NEW m \in 1 .. Cardinality(S), NEW n \in 1 .. Cardinality(S), m < n
      PROVE  at(m) < at(n)
  <2>1. at(m) \in Nat /\ at(n) \in Nat
    BY <1>1
  <2>. m \in Int /\ n \in Int
    OBVIOUS
  <2>2. CASE at(n) <= at(m)
    <3>1. Cardinality(Below(S, at(n))) <= Cardinality(Below(S, at(m)))
      BY <2>1, <2>2, BelowCounts
    <3>2. n - 1 <= m - 1
      BY <1>1, <3>1
    <3>3. QED
      BY <1>4, <2>1, <3>2
  <2>3. QED
    BY <2>1, <2>2
<1>5. QED
  BY <1>1, <1>3, <1>4 DEF o
-----------------------------------------------------------------------------
(* The starts.                                                             *)

Places == {"down", "waits", "locked", "keys", "sealing", "validate", "serving"}

\* Past the migrations, and past the keys.
Migrated == {"keys", "sealing", "validate", "serving"}
Sealed   == {"validate", "serving"}

StartTypes ==
  /\ core \in BOOLEAN /\ keys \in [Channels -> {"absent", "plain", "sealed"}]
  /\ constraint \in {"none", "unvalidated", "valid"}
  /\ DOMAIN instance = Instances
  /\ \A i \in Instances : "at" \in DOMAIN instance[i] /\ instance[i].at \in Places

LockHeld == \A i \in Instances : lock = i <=> instance[i].at = "locked"

\* The lock keeps what its holder has read true.
ReadIsCurrent ==
  \A i \in Instances : instance[i].at = "locked" => instance[i].applied = U!Applied

\* Some instance knows v with this checksum.
Entries == UNION {{<<v, Knows[i][v]>> : v \in DOMAIN Knows[i]} : i \in Instances}

SchemaIsList == schema \in Seq(Entries)

\* What is recorded is what some instance knows.
OfOneRelease ==
  \/ DOMAIN recorded = {}
  \/ \E j \in Instances : /\ DOMAIN recorded = DOMAIN Knows[j]
                          /\ \A v \in DOMAIN recorded : recorded[v] = Knows[j][v]

\* An instance past the migrations has all of its own, and the constraint stands.
HasAll(i) == \A v \in DOMAIN Knows[i] : v \in DOMAIN recorded /\ recorded[v] = Knows[i][v]

MigratedHasAll == \A i \in Instances : instance[i].at \in Migrated => HasAll(i)

Constrained ==
  /\ recorded = <<>> \/ constraint # "none"
  /\ \A i \in Instances : instance[i].at \in Migrated => constraint # "none"

\* No key that is not encrypted is missed by those who encrypt, or left to those past it.
PlanCovers == \A i \in Instances : instance[i].at = "sealing" => U!Plain \subseteq instance[i].plan
NonePlain  == \A i \in Instances : instance[i].at \in Sealed => U!Plain = {}

TableInv == U!MigratedOnce /\ U!InOrder /\ SchemaIsList /\ OfOneRelease
KeysInv  == Constrained /\ PlanCovers /\ NonePlain
StartInv == StartTypes /\ LockHeld /\ ReadIsCurrent /\ TableInv /\ MigratedHasAll /\ KeysInv

LEMMA InitStart == ASSUME U!ConstantsOK, U!Init PROVE StartInv
<1>1. DOMAIN <<>> = {}
  OBVIOUS
<1>2. StartTypes
  BY DEF U!Init, StartTypes, U!Down, Places
<1>3. LockHeld /\ ReadIsCurrent /\ MigratedHasAll /\ KeysInv
  BY DEF U!Init, U!ConstantsOK, LockHeld, ReadIsCurrent, MigratedHasAll, KeysInv, Constrained,
         PlanCovers, NonePlain, U!Down, Migrated, Sealed
<1>4. TableInv
  <2>1. U!Cardinality({}) = 0
    BY SameCount, FS_EmptySet
  <2>2. U!MigratedOnce /\ U!InOrder
    BY <1>1, <2>1 DEF U!Init, U!MigratedOnce, U!InOrder
  <2>3. QED
    BY <1>1, <2>2 DEF U!Init, TableInv, SchemaIsList, OfOneRelease
<1>5. QED
  BY <1>2, <1>3, <1>4 DEF StartInv

\* A step that leaves the tables of migrations alone.
LEMMA TablesRest ==
  ASSUME StartInv, UNCHANGED <<schema, recorded>> PROVE TableInv'
BY DEF StartInv, TableInv, U!MigratedOnce, U!InOrder, SchemaIsList, OfOneRelease

LEMMA BeginTxStep ==
  ASSUME U!ConstantsOK, StartInv, NEW i \in Instances, U!BeginTx(i) PROVE StartInv'
<1>. USE DEF StartInv, U!BeginTx, U!Moves, U!Database, U!Down
<1>1. StartTypes' /\ LockHeld' /\ ReadIsCurrent'
  BY DEF StartTypes, LockHeld, ReadIsCurrent, Places, U!Applied
<1>2. MigratedHasAll' /\ KeysInv'
  BY DEF StartTypes, MigratedHasAll, HasAll, KeysInv, Constrained, PlanCovers, NonePlain,
         Migrated, Sealed, U!Plain
<1>3. QED
  BY <1>1, <1>2, TablesRest

LEMMA VerifySchemaStep ==
  ASSUME U!ConstantsOK, StartInv, NEW i \in Instances, U!VerifySchema(i) PROVE StartInv'
<1>. USE DEF StartInv, U!VerifySchema, U!Moves, U!Database, U!Down
<1>1. StartTypes' /\ LockHeld' /\ ReadIsCurrent'
  BY DEF StartTypes, LockHeld, ReadIsCurrent, Places, U!Applied
<1>2. HasAll(i)
  BY DEF HasAll, U!Valid
<1>3. MigratedHasAll' /\ KeysInv'
  BY <1>2 DEF StartTypes, MigratedHasAll, HasAll, KeysInv, Constrained, PlanCovers, NonePlain,
              Migrated, Sealed, U!Plain
<1>4. QED
  BY <1>1, <1>3, TablesRest

LEMMA LockStep ==
  ASSUME U!ConstantsOK, StartInv, NEW i \in Instances, U!Lock(i) PROVE StartInv'
<1>. USE DEF StartInv, U!Lock, U!Moves, U!Database
<1>1. StartTypes' /\ ReadIsCurrent'
  BY DEF StartTypes, ReadIsCurrent, LockHeld, Places, U!ReadApplied, U!Applied
<1>2. LockHeld'
  BY DEF StartTypes, LockHeld, U!LockFree, U!ConstantsOK
<1>3. MigratedHasAll' /\ KeysInv'
  BY DEF StartTypes, MigratedHasAll, HasAll, KeysInv, Constrained, PlanCovers, NonePlain,
         Migrated, Sealed, U!Plain
<1>4. QED
  BY <1>1, <1>2, <1>3, TablesRest

LEMMA LockKeysStep ==
  ASSUME U!ConstantsOK, StartInv, NEW i \in Instances, U!LockKeys(i) PROVE StartInv'
<1>. USE DEF StartInv, U!LockKeys, U!Moves, U!Database
<1>1. StartTypes' /\ LockHeld' /\ ReadIsCurrent'
  BY DEF StartTypes, LockHeld, ReadIsCurrent, Places, U!Applied
<1>2. MigratedHasAll'
  BY DEF StartTypes, MigratedHasAll, HasAll, Migrated
<1>3. U!Plain \subseteq U!Plan(i) /\ U!Plain' = U!Plain
  BY DEF U!Plan, U!Plain
<1>4. KeysInv'
  <2>1. PlanCovers'
    BY <1>3 DEF StartTypes, KeysInv, PlanCovers
  <2>2. QED
    BY <1>3, <2>1 DEF StartTypes, KeysInv, Constrained, NonePlain, Migrated, Sealed
<1>5. QED
  BY <1>1, <1>2, <1>4, TablesRest

LEMMA CommitKeysStep ==
  ASSUME U!ConstantsOK, StartInv, NEW i \in Instances, U!CommitKeys(i) PROVE StartInv'
<1>. USE DEF StartInv, U!CommitKeys, U!Moves
<1>1. StartTypes' /\ LockHeld' /\ ReadIsCurrent'
  BY DEF StartTypes, LockHeld, ReadIsCurrent, Places, U!Applied
<1>2. MigratedHasAll'
  BY DEF StartTypes, MigratedHasAll, HasAll, Migrated
<1>3. U!Plain' = {}
  BY DEF StartTypes, KeysInv, PlanCovers, U!Plain
<1>4. KeysInv'
  BY <1>3 DEF StartTypes, KeysInv, Constrained, PlanCovers, NonePlain, Migrated, Sealed
<1>5. QED
  BY <1>1, <1>2, <1>4, TablesRest

LEMMA ValidateStep ==
  ASSUME U!ConstantsOK, StartInv, NEW i \in Instances, U!Validate(i) PROVE StartInv'
<1>. USE DEF StartInv, U!Validate, U!Continues, U!Moves
<1>1. StartTypes' /\ LockHeld' /\ ReadIsCurrent'
  BY DEF StartTypes, LockHeld, ReadIsCurrent, Places, U!Applied
<1>2. MigratedHasAll'
  BY DEF StartTypes, MigratedHasAll, HasAll, Migrated
<1>3. KeysInv'
  BY DEF StartTypes, KeysInv, Constrained, PlanCovers, NonePlain, Migrated, Sealed, U!Plain
<1>4. QED
  BY <1>1, <1>2, <1>3, TablesRest

LEMMA FailStep ==
  ASSUME U!ConstantsOK, StartInv, NEW i \in Instances, U!Fail(i) PROVE StartInv'
<1>. USE DEF StartInv, U!Fail, U!Moves, U!Database, U!Down
<1>1. StartTypes' /\ LockHeld' /\ ReadIsCurrent'
  BY DEF StartTypes, LockHeld, ReadIsCurrent, Places, U!Applied, U!ConstantsOK
<1>2. MigratedHasAll' /\ KeysInv'
  BY DEF StartTypes, MigratedHasAll, HasAll, KeysInv, Constrained, PlanCovers, NonePlain,
         Migrated, Sealed, U!Plain
<1>3. QED
  BY <1>1, <1>2, TablesRest

\* Keys are written by instances that serve, and by old ones while the constraint is not there.
LEMMA WriteStep ==
  ASSUME U!ConstantsOK, StartInv,
         NEW c \in Channels, (\E i \in Instances : U!WriteKey(i, c)) \/ U!LegacyWrite(c)
  PROVE  StartInv'
<1>. USE DEF StartInv
<1>1. UNCHANGED <<core, schema, recorded, constraint, lock, instance, crashes>>
  BY DEF U!WriteKey, U!LegacyWrite
<1>2. keys' \in [Channels -> {"absent", "plain", "sealed"}]
  BY DEF U!WriteKey, U!LegacyWrite, StartTypes
<1>3. StartTypes' /\ LockHeld' /\ ReadIsCurrent' /\ MigratedHasAll' /\ Constrained'
  BY <1>1, <1>2 DEF StartTypes, LockHeld, ReadIsCurrent, MigratedHasAll, HasAll, KeysInv,
                    Constrained, U!Applied
<1>4. PlanCovers' /\ NonePlain'
  <2>1. CASE constraint = "none"
    BY <1>1, <2>1 DEF KeysInv, Constrained, PlanCovers, NonePlain, Migrated, Sealed
  <2>2. CASE constraint # "none"
    <3>1. U!Plain' \subseteq U!Plain
      BY <2>2 DEF U!WriteKey, U!LegacyWrite, U!LegacyMayWrite, U!Plain, StartTypes
    <3>2. QED
      BY <1>1, <3>1 DEF KeysInv, PlanCovers, NonePlain
  <2>3. QED
    BY <2>1, <2>2
<1>5. QED
  BY <1>1, <1>3, <1>4, TablesRest DEF KeysInv

\* Commit adds what is missing behind what is there: in order, since the release that comes
\* later adds higher versions only.
LEMMA CommitTables ==
  ASSUME U!ConstantsOK, StartInv, NEW i \in Instances, U!Commit(i)
  PROVE  /\ TableInv' /\ HasAll(i)'
         /\ \A v \in DOMAIN recorded : v \in DOMAIN recorded' /\ recorded'[v] = recorded[v]
<1> DEFINE known   == Knows[i]
           missing == DOMAIN known \ DOMAIN recorded
           added   == U!Ordered(known, missing)
<1>1. /\ instance[i].applied.recorded = recorded
      /\ U!Valid(recorded, known)
      /\ schema' = schema \o added
      /\ recorded' = [v \in DOMAIN recorded \cup missing |->
                        IF v \in missing THEN known[v] ELSE recorded[v]]
  <2>1. instance[i].applied = [recorded |-> recorded, core |-> core]
    BY DEF U!Commit, StartInv, ReadIsCurrent, U!Applied
  <2>2. instance[i].applied.recorded = recorded
    BY <2>1
  <2>3. QED
    BY <2>2 DEF U!Commit
<1>2. DOMAIN known \in SUBSET Nat /\ IsFiniteSet(DOMAIN known)
  BY SameCount DEF U!ConstantsOK
<1>3. DOMAIN recorded \subseteq DOMAIN known /\ \A v \in DOMAIN recorded : recorded[v] = known[v]
  BY <1>1 DEF U!Valid
<1>4. /\ DOMAIN recorded' = DOMAIN known
      /\ \A v \in DOMAIN known : recorded'[v] = known[v]
      /\ \A v \in DOMAIN recorded : recorded'[v] = recorded[v]
  BY <1>1, <1>3
<1>5. /\ missing \in SUBSET Nat /\ IsFiniteSet(missing) /\ IsFiniteSet(DOMAIN recorded)
      /\ Cardinality(DOMAIN known) = Cardinality(DOMAIN recorded) + Cardinality(missing)
      /\ Cardinality(DOMAIN recorded) \in Nat /\ Cardinality(missing) \in Nat
  <2>1. IsFiniteSet(missing) /\ IsFiniteSet(DOMAIN recorded)
    BY <1>2, <1>3, FS_Subset
  <2>2. missing \cup DOMAIN recorded = DOMAIN known /\ missing \cap DOMAIN recorded = {}
    BY <1>3
  <2>3. Cardinality({}) = 0
    BY FS_EmptySet
  <2>4. Cardinality(DOMAIN recorded) \in Nat /\ Cardinality(missing) \in Nat
    BY <2>1, FS_CardinalityType
  <2>5. Cardinality(missing \cup DOMAIN recorded)
          = Cardinality(missing) + Cardinality(DOMAIN recorded)
            - Cardinality(missing \cap DOMAIN recorded)
    BY <2>1, FS_Union
  <2>6. Cardinality(DOMAIN known) = Cardinality(DOMAIN recorded) + Cardinality(missing)
    <3>. HIDE DEF missing, known
    <3>1. Cardinality(DOMAIN known) = Cardinality(missing) + Cardinality(DOMAIN recorded) - 0
      BY <2>2, <2>3, <2>5, Zenon
    <3>2. QED
      BY <2>4, <3>1
  <2>7. QED
    BY <1>2, <2>1, <2>4, <2>6
<1>6. /\ added = [n \in 1 .. Cardinality(missing) |-> added[n]]
      /\ \A n \in 1 .. Cardinality(missing) :
           added[n][1] \in missing /\ added[n] = <<added[n][1], known[added[n][1]]>>
      /\ \A m, n \in 1 .. Cardinality(missing) : m < n => added[m][1] < added[n][1]
  <2>. HIDE DEF missing
  <2>1. QED
    BY <1>5, OrderedIsSorted DEF added
<1>7. /\ schema \in Seq(Entries)
      /\ Len(schema) = Cardinality(DOMAIN recorded)
      /\ \A n \in DOMAIN schema : schema[n][1] \in DOMAIN recorded /\ recorded[schema[n][1]] = schema[n][2]
      /\ \A m, n \in DOMAIN schema : m < n => schema[m][1] < schema[n][1]
  BY SameCount DEF StartInv, TableInv, U!MigratedOnce, U!InOrder, SchemaIsList
<1>8. \A v \in missing, w \in DOMAIN recorded : v > w
  <2>1. CASE DOMAIN recorded = {}
    BY <2>1
  <2>2. CASE DOMAIN recorded # {}
    <3>1. PICK j \in Instances : /\ DOMAIN recorded = DOMAIN Knows[j]
                                 /\ \A v \in DOMAIN recorded : recorded[v] = Knows[j][v]
      BY <2>2 DEF StartInv, TableInv, OfOneRelease
    <3>2. U!Valid(Knows[j], Knows[i])
      BY <1>1, <3>1 DEF U!Valid
    <3>3. QED
      BY <3>1, <3>2 DEF U!ConstantsOK
  <2>3. QED
    BY <2>1, <2>2
<1>. HIDE DEF added, missing
<1>9. added \in Seq(Entries) /\ Len(added) = Cardinality(missing)
  <2>1. \A v \in missing : <<v, known[v]>> \in Entries
    BY DEF Entries, missing
  <2>2. \A n \in 1 .. Cardinality(missing) : added[n] \in Entries
    BY <1>6, <2>1
  <2>3. added \in [1 .. Cardinality(missing) -> Entries]
    BY <1>6, <2>2
  <2>4. QED
    BY <1>5, <2>3
<1>10. PICK a \in Nat, b \in Nat : a = Len(schema) /\ b = Len(added)
  BY <1>7, <1>9
<1>11. /\ schema' \in Seq(Entries) /\ DOMAIN schema' = 1 .. (a + b)
       /\ Len(schema') = a + b
       /\ \A n \in 1 .. a : n \in DOMAIN schema /\ schema'[n] = schema[n]
       /\ \A n \in (a + 1) .. (a + b) : n - a \in 1 .. b /\ schema'[n] = added[n - a]
  <2>1. DOMAIN schema = 1 .. a /\ DOMAIN added = 1 .. b
    BY <1>7, <1>9, <1>10
  <2>2. schema' = schema \o added
    BY <1>1
  <2>3. schema' \in Seq(Entries) /\ Len(schema') = a + b /\ DOMAIN schema' = 1 .. (a + b)
    BY <1>7, <1>9, <1>10, <2>2
  <2>4. ASSUME NEW n \in 1 .. a PROVE n \in DOMAIN schema /\ schema'[n] = schema[n]
    BY <1>7, <1>9, <1>10, <2>1, <2>2
  <2>5. ASSUME NEW n \in (a + 1) .. (a + b) PROVE n - a \in 1 .. b /\ schema'[n] = added[n - a]
    BY <1>7, <1>9, <1>10, <2>1, <2>2
  <2>6. QED
    BY <2>3, <2>4, <2>5
<1>12. \A n \in 1 .. b : n \in 1 .. Cardinality(missing)
  BY <1>9, <1>10
<1>13. \A n \in 1 .. (a + b) : n \in 1 .. a \/ n \in (a + 1) .. (a + b)
  OBVIOUS
<1>14. U!MigratedOnce'
  <2>1. Len(schema') = U!Cardinality(DOMAIN recorded')
    BY <1>4, <1>5, <1>7, <1>9, <1>10, <1>11, SameCount
  <2>2. ASSUME NEW n \in 1 .. a
        PROVE  schema'[n][1] \in DOMAIN recorded' /\ recorded'[schema'[n][1]] = schema'[n][2]
    BY <1>3, <1>4, <1>7, <1>11, ZenonT(40)
  <2>3. ASSUME NEW n \in (a + 1) .. (a + b)
        PROVE  schema'[n][1] \in DOMAIN recorded' /\ recorded'[schema'[n][1]] = schema'[n][2]
    <3>1. PICK m \in 1 .. Cardinality(missing) : schema'[n] = added[m]
      BY <1>11, <1>12
    <3>2. PICK v \in missing : added[m] = <<v, known[v]>>
      BY <1>6
    <3>3. v \in DOMAIN known
      BY DEF missing
    <3>4. QED
      BY <1>4, <3>1, <3>2, <3>3
  <2>4. QED
    BY <1>11, <1>13, <2>1, <2>2, <2>3 DEF U!MigratedOnce
<1>15. U!InOrder'
  <2> SUFFICES ASSUME NEW m \in 1 .. (a + b), NEW n \in 1 .. (a + b), m < n
               PROVE  schema'[m][1] < schema'[n][1]
    BY <1>11 DEF U!InOrder
  <2>1. CASE n \in 1 .. a
    BY <1>7, <1>11, <2>1
  <2>2. CASE m \in 1 .. a /\ n \in (a + 1) .. (a + b)
    <3>1. schema'[m][1] \in DOMAIN recorded
      BY <1>7, <1>11, <2>2
    <3>2. schema'[n][1] \in missing
      BY <1>6, <1>11, <1>12, <2>2
    <3>3. schema'[m][1] \in Nat /\ schema'[n][1] \in Nat
      BY <1>2, <1>3, <1>5, <3>1, <3>2
    <3>4. QED
      BY <1>8, <3>1, <3>2, <3>3
  <2>3. CASE m \in (a + 1) .. (a + b) /\ n \in (a + 1) .. (a + b)
    <3>1. m - a < n - a
      OBVIOUS
    <3>2. QED
      BY <1>6, <1>11, <1>12, <2>3, <3>1
  <2>4. QED
    BY <1>13, <2>1, <2>2, <2>3
<1>16. OfOneRelease' /\ HasAll(i)'
  BY <1>4 DEF OfOneRelease, HasAll
<1>17. QED
  BY <1>3, <1>4, <1>11, <1>14, <1>15, <1>16 DEF TableInv, SchemaIsList

LEMMA CommitStep ==
  ASSUME U!ConstantsOK, StartInv, NEW i \in Instances, U!Commit(i) PROVE StartInv'
<1>0. /\ instance[i].at = "locked"
      /\ core' = TRUE /\ lock' = NoOne /\ keys' = keys
      /\ constraint' = IF constraint = "none" THEN "unvalidated" ELSE constraint
      /\ instance' = [instance EXCEPT ![i] = [instance[i] EXCEPT !.at = "keys"]]
  BY DEF U!Commit, U!Continues, U!Moves
<1>. USE DEF StartInv
<1>1. StartTypes'
  BY <1>0 DEF StartTypes, Places
<1>2. LockHeld' /\ ReadIsCurrent'
  BY <1>0 DEF StartTypes, LockHeld, ReadIsCurrent, U!ConstantsOK
<1>3. MigratedHasAll'
  BY <1>0, CommitTables DEF StartTypes, MigratedHasAll, HasAll, Migrated
<1>4. KeysInv'
  BY <1>0 DEF StartTypes, KeysInv, Constrained, PlanCovers, NonePlain, Migrated, Sealed, U!Plain
<1>5. QED
  BY <1>1, <1>2, <1>3, <1>4, CommitTables

LEMMA NextStart == ASSUME U!ConstantsOK, StartInv, [U!Next]_(U!vars) PROVE StartInv'
<1>1. CASE UNCHANGED U!vars
  BY <1>1, TablesRest
     DEF U!vars, StartInv, StartTypes, LockHeld, ReadIsCurrent, MigratedHasAll, HasAll, KeysInv,
         Constrained, PlanCovers, NonePlain, U!Plain, U!Applied
<1>2. ASSUME NEW i \in Instances, U!Start(i) \/ U!Goes(i) \/ U!Fail(i) PROVE StartInv'
  BY <1>2, BeginTxStep, VerifySchemaStep, LockStep, CommitStep, LockKeysStep, CommitKeysStep,
     ValidateStep, FailStep
     DEF U!Start, U!Goes
<1>3. QED
  BY <1>1, <1>2, WriteStep DEF U!Next

\* However many instances of whatever versions start at once and die (pool.go:70-277,
\* channel_key_migration.go:38-64): what was run on the schema is what is recorded, each
\* migration once and in order; one that serves has all of its own; and it finds no key that is
\* not encrypted, though old instances may write until the constraint stands.
THEOREM SchemaIsKept ==
  ASSUME U!ConstantsOK
  PROVE  U!Spec => [](U!MigratedOnce /\ U!InOrder /\ U!ServesOnItsSchema /\ U!NoPlainServed)
<1>1. U!Init => StartInv
  BY InitStart
<1>2. StartInv /\ [U!Next]_(U!vars) => StartInv'
  BY NextStart
<1>3. StartInv => U!MigratedOnce /\ U!InOrder /\ U!ServesOnItsSchema /\ U!NoPlainServed
  BY DEF StartInv, TableInv, U!ServesOnItsSchema, U!NoPlainServed, MigratedHasAll, HasAll,
         KeysInv, NonePlain, Migrated, Sealed
<1>4. QED
  BY <1>1, <1>2, <1>3, PTL DEF U!Spec

-----------------------------------------------------------------------------
(* The parts together.                                                     *)

\* A step of the whole is a step of each part, or leaves it alone.
LEMMA PartsStep ==
  ASSUME [DatabaseNext]_allVars
  PROVE  [Next]_vars /\ [M!Next]_(M!vars) /\ [U!Next]_(U!vars)
<1>1. CASE Next /\ Bills
  BY <1>1 DEF Bills, memoryVars, schemaVars, M!vars, U!vars
<1>2. CASE M!Next /\ Develops
  BY <1>2 DEF Develops, vars, schemaVars, U!vars
<1>3. CASE U!Next /\ Starts
  BY <1>3 DEF Starts, vars, memoryVars, M!vars
<1>4. CASE UNCHANGED allVars
  BY <1>4 DEF allVars, vars, memoryVars, schemaVars, M!vars, U!vars
<1>5. QED
  BY <1>1, <1>2, <1>3, <1>4 DEF DatabaseNext

LEMMA PartsInit == DatabaseInit => Init /\ M!Init /\ U!Init
BY DEF DatabaseInit

\* So a behaviour of the whole is one of each part.
LEMMA PartsBehave == DatabaseSpec => Spec /\ M!Spec /\ U!Spec
BY PartsInit, PartsStep, PTL DEF DatabaseSpec, Spec, M!Spec, U!Spec

\* On both stores every user's money is in the balance, withheld or charged.
THEOREM DatabaseMoney ==
  ASSUME M!ConstantsOK PROVE DatabaseSpec => []MoneyConserved
<1>1. Conservation /\ M!Conservation => MoneyConserved
  BY DEF MoneyConserved
<1>2. QED
  BY <1>1, PartsBehave, LedgerConserves, MemoryConserves, PTL

\* The books of the ledger in PostgreSQL say of every reservation what became of it, and of
\* every user how the balance came about.
THEOREM DatabaseBooks ==
  DatabaseSpec => []Reconciled /\ []AuditChain
BY PartsBehave, LedgerReconciled, LedgerAuditChain, PTL

\* What was consumed stays so, at its cost.
THEOREM DatabaseConsumption == DatabaseSpec => ConsumptionIsFinal
BY PartsBehave, LedgerConsumptionIsFinal, PTL

\* Both ledgers keep the contract of the wallet.
THEOREM DatabaseWallets ==
  ASSUME M!ConstantsOK PROVE DatabaseSpec => ImplementsWallet /\ MemoryImplementsWallet
<1>1. M!ImplementsWallet <=> MemoryImplementsWallet
  BY DEF MemoryImplementsWallet
<1>2. QED
  BY <1>1, PartsBehave, LedgerImplementsWallet, MemoryKeepsContract, PTL

\* A recovery in memory that reports success left nothing behind.
THEOREM DatabaseRecovers ==
  ASSUME M!ConstantsOK PROVE DatabaseSpec => []RecoverComplete
<1>1. M!RecoverComplete => RecoverComplete
  BY DEF RecoverComplete
<1>2. QED
  BY <1>1, PartsBehave, MemoryRecovers, PTL

\* The schema is the one that every instance in service was built for, and no key is left
\* unencrypted.
THEOREM DatabaseSchema ==
  ASSUME U!ConstantsOK PROVE DatabaseSpec => []SchemaKept
<1>1. U!MigratedOnce /\ U!InOrder /\ U!ServesOnItsSchema /\ U!NoPlainServed => SchemaKept
  BY DEF SchemaKept, U!SchemaKept
<1>2. QED
  BY <1>1, PartsBehave, SchemaIsKept, PTL

\* Every variable has its type, every cost is within its hold, and the lock of migrations is
\* with the instance that is past it.
THEOREM DatabaseTypes ==
  ASSUME M!ConstantsOK, U!ConstantsOK PROVE DatabaseSpec => []TypesOK
<1>1. MemoryInv => M!TypeOK
  BY DEF MemoryInv, RecordsOK, RecoveryOK, RecordOK, Record, M!TypeOK
<1>2. StartInv => U!TypeOK
  BY DEF StartInv, StartTypes, LockHeld, U!TypeOK
<1>3. TypeOK /\ CostWithinHold /\ M!TypeOK /\ U!TypeOK => TypesOK
  BY DEF TypesOK
<1>4. M!Spec => []MemoryInv
  BY InitMemory, NextMemory, PTL DEF M!Spec
<1>5. U!Spec => []StartInv
  BY InitStart, NextStart, PTL DEF U!Spec
<1>6. QED
  BY <1>1, <1>2, <1>3, <1>4, <1>5, PartsBehave, LedgerTypes, PTL
=============================================================================

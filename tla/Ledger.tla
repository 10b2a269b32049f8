------------------------------- MODULE Ledger -------------------------------
(***************************************************************************)
(* The authoritative billing ledger (src/internal/billing/                 *)
(* postgres_ledger.go over the tables and queries of src/db).              *)
(*                                                                         *)
(* Every operation is one PostgreSQL transaction that first locks its      *)
(* reservation row (SELECT ... FOR UPDATE, or the INSERT itself), so it is *)
(* one atomic action here.  The parameter "reply" is what the Go method    *)
(* returns: a transaction may also fail before it commits, or commit while *)
(* the acknowledgement is lost, and both look the same to the caller:      *)
(*   "ok"        nil                                                       *)
(*   "refused"   (false, nil): balance too low or user disabled            *)
(*   "conflict"  ErrReservationConflict                                    *)
(*   "invalid"   ErrInvalidTransition                                      *)
(*   "error"     a database error; the outcome is unknown to the caller    *)
(***************************************************************************)
EXTENDS Integers, FiniteSetsExt

CONSTANTS Users,        \* users.external_id
          Ids,          \* reservation IDs
          Channels,     \* upstream channels an attempt is sent to
          Openings,     \* balances a user may start with
          Amounts,      \* amounts a caller may ask to reserve
          Costs,        \* settlement costs a caller may record
          Deltas,       \* balance corrections an administrator may make
          MaxVersion,   \* bound: no correction beyond this balance version
          NoUser, NoChannel

\* Billing.Reserve never asks for an amount <= 0 nor Billing.Settle records a
\* cost < 0, so the ledger's own rejections of them are left out.
ASSUME AmountsAssumption == Amounts \subseteq Nat \ {0}
ASSUME CostsAssumption   == Costs \subseteq Nat
ASSUME OtherSums         == Openings \subseteq Nat /\ Deltas \subseteq Int
ASSUME NullAssumption    == NoUser \notin Users /\ NoChannel \notin Channels

VARIABLES balance,    \* users.balance
          version,    \* users.balance_version
          enabled,    \* users.enabled
          row,        \* billing_reservations, keyed by reservation_id
          entries,    \* billing_ledger, append only
          usage,      \* usage_logs, keyed by request_id (the reservation ID)
          deposited   \* history: initial balance plus every correction

vars == <<balance, version, enabled, row, entries, usage, deposited>>

Statuses == {"absent", "reserved", "in_flight", "consumed_unsettled", "settled", "refunded"}
Kinds    == {"reserve", "settle", "refund"}
Replies  == {"ok", "refused", "conflict", "invalid", "error"}

\* stale: updated_at is older than the threshold of the row's status,
\* 5 minutes for reserved and 24 hours for in_flight.
Row == [status : Statuses, user : Users \cup {NoUser}, amount : Int,
        channel : Channels \cup {NoChannel}, cost : Int, stale : BOOLEAN]

AbsentRow == [status |-> "absent", user |-> NoUser, amount |-> 0,
              channel |-> NoChannel, cost |-> 0, stale |-> FALSE]

Entry == [id : Ids, kind : Kinds, user : Users, amount : Int, after : Int, version : Nat]

UsageLog == [id : Ids, cost : Int]

Init == /\ balance \in [Users -> Openings]
        /\ version = [u \in Users |-> 0]
        /\ enabled = [u \in Users |-> TRUE]
        /\ row = [r \in Ids |-> AbsentRow]
        /\ entries = {}
        /\ usage = {}
        /\ deposited = balance

-----------------------------------------------------------------------------
(* Steps every transaction is built from.                                  *)

\* Nothing is committed: the call ended on a check, or its transaction failed.
NoCommit == UNCHANGED vars

\* The commit happened; the caller learns of it unless the answer is lost.
Committed(reply) == reply \in {"ok", "error"}

\* Mutant: the entry carries the balance read before the update.
PostOldBalance(r, kind, u, delta) ==
  /\ \A e \in entries : ~(e.id = r /\ e.kind = kind)
  /\ balance' = [balance EXCEPT ![u] = @ + delta]
  /\ version' = [version EXCEPT ![u] = @ + 1]
  /\ entries' = entries \cup
       {[id |-> r, kind |-> kind, user |-> u, amount |-> delta,
         after |-> balance[u], version |-> version[u] + 1]}

\* AdjustBalanceForBilling or DebitBalanceForReservation, then
\* InsertBillingLedgerEntry under its unique (reservation_id, kind).
Post(r, kind, u, delta) ==
  /\ \A e \in entries : ~(e.id = r /\ e.kind = kind)
  /\ balance' = [balance EXCEPT ![u] = @ + delta]
  /\ version' = [version EXCEPT ![u] = @ + 1]
  /\ entries' = entries \cup
       {[id |-> r, kind |-> kind, user |-> u, amount |-> delta,
         after |-> balance[u] + delta, version |-> version[u] + 1]}

\* UPDATE users ... WHERE enabled AND $2 > 0 AND balance >= $2
CanDebit(u, a) == enabled[u] /\ a > 0 /\ balance[u] >= a

-----------------------------------------------------------------------------
(* The operations of PostgresLedger.                                       *)

\* An existing row is compared with the request and never debited again.
ReserveReplay(r, u, a) ==
  IF row[r].user # u \/ row[r].amount # a THEN "conflict"
  ELSE IF row[r].status # "reserved" THEN "invalid"
  ELSE "ok"

\* Mutant: the owner is written into the column of the channel.
CommitReserveSwapped(r, u, a) ==
  /\ row[r].status = "absent"
  /\ CanDebit(u, a)
  /\ row' = [row EXCEPT ![r] = [AbsentRow EXCEPT !.status = "reserved", !.channel = u, !.amount = a]]
  /\ Post(r, "reserve", u, -a)
  /\ UNCHANGED <<enabled, usage, deposited>>

CommitReserve(r, u, a) ==
  /\ row[r].status = "absent"
  /\ CanDebit(u, a)
  /\ row' = [row EXCEPT ![r] = [AbsentRow EXCEPT !.status = "reserved", !.user = u, !.amount = a]]
  /\ Post(r, "reserve", u, -a)
  /\ UNCHANGED <<enabled, usage, deposited>>

Reserve(r, u, a, reply) ==
  \/ /\ row[r].status # "absent"
     /\ reply = ReserveReplay(r, u, a)
     /\ NoCommit
  \/ /\ row[r].status = "absent" /\ ~CanDebit(u, a)
     /\ reply = "refused"       \* the rollback also removes the inserted row
     /\ NoCommit
  \/ CommitReserve(r, u, a) /\ Committed(reply)
  \/ reply = "error" /\ NoCommit

CommitMark(r, ch) ==
  /\ row[r].status = "reserved"
  /\ row' = [row EXCEPT ![r].status = "in_flight", ![r].channel = ch, ![r].stale = FALSE]
  /\ UNCHANGED <<balance, version, enabled, entries, usage, deposited>>

MarkInFlight(r, ch, reply) ==
  \/ /\ row[r].status = "in_flight"
     /\ reply = IF row[r].channel = ch THEN "ok" ELSE "conflict"
     /\ NoCommit
  \/ /\ row[r].status \in {"consumed_unsettled", "settled", "refunded"}
     /\ reply = "invalid"
     /\ NoCommit
  \/ CommitMark(r, ch) /\ Committed(reply)
  \/ reply = "error" /\ NoCommit   \* also the answer for an absent row

\* Mutant: releasing the attempt also gives the money back.
CommitReleasePaysBack(r) ==
  /\ row[r].status = "in_flight"
  /\ row' = [row EXCEPT ![r].status = "reserved", ![r].stale = FALSE]
  /\ balance' = [balance EXCEPT ![row[r].user] = @ + row[r].amount]
  /\ UNCHANGED <<version, enabled, entries, usage, deposited>>

CommitRelease(r) ==
  /\ row[r].status = "in_flight"
  /\ row' = [row EXCEPT ![r].status = "reserved", ![r].stale = FALSE]
  /\ UNCHANGED <<balance, version, enabled, entries, usage, deposited>>

ReleaseAttempt(r, reply) ==
  \/ /\ row[r].status = "reserved"
     /\ reply = "ok"
     /\ NoCommit
  \/ /\ row[r].status \in {"consumed_unsettled", "settled", "refunded"}
     /\ reply = "invalid"
     /\ NoCommit
  \/ CommitRelease(r) /\ Committed(reply)
  \/ reply = "error" /\ NoCommit   \* also the answer for an absent row

\* Mutants: no CHECK on cost; a second record overwrites the first.
CommitConsumptionUnchecked(r, ch, c) ==
  /\ row[r].status = "in_flight"
  /\ row[r].channel = ch
  /\ row' = [row EXCEPT ![r].status = "consumed_unsettled", ![r].cost = c, ![r].stale = FALSE]
  /\ UNCHANGED <<balance, version, enabled, entries, usage, deposited>>

CommitConsumptionAgain(r, ch, c) ==
  /\ row[r].status \in {"in_flight", "consumed_unsettled"}
  /\ row[r].channel = ch
  /\ c \in 0..row[r].amount
  /\ row' = [row EXCEPT ![r].status = "consumed_unsettled", ![r].cost = c, ![r].stale = FALSE]
  /\ UNCHANGED <<balance, version, enabled, entries, usage, deposited>>

\* The CHECK on cost turns a larger cost into an error.
CommitConsumption(r, ch, c) ==
  /\ row[r].status = "in_flight"
  /\ row[r].channel = ch
  /\ c \in 0..row[r].amount
  /\ row' = [row EXCEPT ![r].status = "consumed_unsettled", ![r].cost = c, ![r].stale = FALSE]
  /\ UNCHANGED <<balance, version, enabled, entries, usage, deposited>>

RecordConsumption(r, ch, c, reply) ==
  \/ /\ row[r].status \in {"absent", "reserved", "refunded"}
     /\ reply = "invalid"
     /\ NoCommit
  \/ /\ row[r].status = "in_flight" /\ row[r].channel # ch
     /\ reply = "conflict"
     /\ NoCommit
  \/ /\ row[r].status \in {"consumed_unsettled", "settled"}
     /\ reply = IF row[r].channel = ch /\ row[r].cost = c THEN "ok" ELSE "conflict"
     /\ NoCommit
  \/ CommitConsumption(r, ch, c) /\ Committed(reply)
  \/ reply = "error" /\ NoCommit

\* Mutant: the cost is given back and the rest kept.
CommitFinalizeCost(r) ==
  /\ row[r].status = "consumed_unsettled"
  /\ Post(r, "settle", row[r].user, row[r].cost)
  /\ \A l \in usage : l.id # r
  /\ usage' = usage \cup {[id |-> r, cost |-> row[r].cost]}
  /\ row' = [row EXCEPT ![r].status = "settled", ![r].stale = FALSE]
  /\ UNCHANGED <<enabled, deposited>>

\* Balance, ledger entry, usage log and status in one transaction.  The cost of
\* a recorded row is within its amount already (CHECK on the table), so the
\* method's own test of it never fires.
CommitFinalize(r) ==
  /\ row[r].status = "consumed_unsettled"
  /\ row[r].cost <= row[r].amount            \* else ErrReservationExceeded
  /\ Post(r, "settle", row[r].user, row[r].amount - row[r].cost)
  /\ \A l \in usage : l.id # r              \* usage_logs.request_id is UNIQUE
  /\ usage' = usage \cup {[id |-> r, cost |-> row[r].cost]}
  /\ row' = [row EXCEPT ![r].status = "settled", ![r].stale = FALSE]
  /\ UNCHANGED <<enabled, deposited>>

Finalize(r, reply) ==
  \/ /\ row[r].status = "settled"
     /\ reply = "ok"
     /\ NoCommit
  \/ /\ row[r].status \notin {"settled", "consumed_unsettled"}
     /\ reply = "invalid"
     /\ NoCommit
  \/ CommitFinalize(r) /\ Committed(reply)
  \/ reply = "error" /\ NoCommit

\* Mutants: consumed, or in flight, is no obstacle to a refund.
CommitRefundConsumed(r) ==
  /\ row[r].status \in {"reserved", "consumed_unsettled"}
  /\ Post(r, "refund", row[r].user, row[r].amount)
  /\ row' = [row EXCEPT ![r].status = "refunded", ![r].stale = FALSE]
  /\ UNCHANGED <<enabled, usage, deposited>>

CommitRefundInFlight(r) ==
  /\ row[r].status \in {"reserved", "in_flight"}
  /\ Post(r, "refund", row[r].user, row[r].amount)
  /\ row' = [row EXCEPT ![r].status = "refunded", ![r].stale = FALSE]
  /\ UNCHANGED <<enabled, usage, deposited>>

CommitRefund(r) ==
  /\ row[r].status = "reserved"
  /\ Post(r, "refund", row[r].user, row[r].amount)
  /\ row' = [row EXCEPT ![r].status = "refunded", ![r].stale = FALSE]
  /\ UNCHANGED <<enabled, usage, deposited>>

Refund(r, reply) ==
  \/ /\ row[r].status = "refunded"
     /\ reply = "ok"
     /\ NoCommit
  \/ /\ row[r].status \notin {"refunded", "reserved"}
     /\ reply = "invalid"
     /\ NoCommit
  \/ CommitRefund(r) /\ Committed(reply)
  \/ reply = "error" /\ NoCommit

\* The three lists Recover reads in its first transaction.
ConsumedUnsettled == {r \in Ids : row[r].status = "consumed_unsettled"}
StaleReserved     == {r \in Ids : row[r].status = "reserved" /\ row[r].stale}
StaleInFlight     == {r \in Ids : row[r].status = "in_flight" /\ row[r].stale}

-----------------------------------------------------------------------------
(* The administration plane and the clock.                                 *)

\* POST /users/:id/balance; it may be negative and is not tied to a reservation.
AddBalance(u, d) ==
  /\ version[u] < MaxVersion
  /\ balance' = [balance EXCEPT ![u] = @ + d]
  /\ version' = [version EXCEPT ![u] = @ + 1]
  /\ deposited' = [deposited EXCEPT ![u] = @ + d]
  /\ UNCHANGED <<enabled, row, entries, usage>>

SetUserEnabled(u, e) ==
  /\ enabled' = [enabled EXCEPT ![u] = e]
  /\ UNCHANGED <<balance, version, row, entries, usage, deposited>>

\* updated_at falls behind the recovery threshold.
GrowStale(r) ==
  /\ row[r].status \in {"reserved", "in_flight"}
  /\ ~row[r].stale
  /\ row' = [row EXCEPT ![r].stale = TRUE]
  /\ UNCHANGED <<balance, version, enabled, entries, usage, deposited>>

Operation(r, reply) ==
  \/ \E u \in Users, a \in Amounts : Reserve(r, u, a, reply)
  \/ \E ch \in Channels : MarkInFlight(r, ch, reply)
  \/ ReleaseAttempt(r, reply)
  \/ \E ch \in Channels, c \in Costs : RecordConsumption(r, ch, c, reply)
  \/ Finalize(r, reply)
  \/ Refund(r, reply)

Administration ==
  \E u \in Users : \/ \E d \in Deltas : AddBalance(u, d)
                   \/ \E e \in BOOLEAN : SetUserEnabled(u, e)

Next == \/ \E r \in Ids, reply \in Replies : Operation(r, reply)
        \/ Administration
        \/ \E r \in Ids : GrowStale(r)

Spec == Init /\ [][Next]_vars

-----------------------------------------------------------------------------
(* Correctness.                                                            *)

TypeOK == /\ balance \in [Users -> Int]
          /\ version \in [Users -> Nat]
          /\ enabled \in [Users -> BOOLEAN]
          /\ row \in [Ids -> Row]
          /\ entries \subseteq Entry
          /\ usage \subseteq UsageLog
          /\ deposited \in [Users -> Int]

\* CostWithinHold: whatever a caller asks to record, the cost a reservation is
\* settled for is covered by what was withheld from a known user for it
\* (RecordConsumption and the CHECK on cost).
CostWithinHold ==
  \A r \in Ids : row[r].status # "absent" => /\ row[r].user \in Users
                                            /\ row[r].amount > 0
                                            /\ row[r].cost \in 0..row[r].amount

\* The ledger entries a reservation in this state must have, as <<kind, amount>>.
ExpectedPostings(r) ==
  CASE row[r].status = "absent"   -> {}
    [] row[r].status = "settled"  -> {<<"reserve", -row[r].amount>>, <<"settle", row[r].amount - row[r].cost>>}
    [] row[r].status = "refunded" -> {<<"reserve", -row[r].amount>>, <<"refund", row[r].amount>>}
    [] OTHER                      -> {<<"reserve", -row[r].amount>>}

Postings(r) == {<<e.kind, e.amount>> : e \in {x \in entries : x.id = r}}

\* Reconciled: whatever calls are repeated, reordered or cut off after their
\* commit, the append-only ledger and the usage log of a reservation say exactly
\* what its status says: one debit, and one settlement or one refund, never both
\* (Reserve, Finalize, Refund and the UNIQUE keys they rely on).
Reconciled ==
  \A r \in Ids :
    /\ Postings(r) = ExpectedPostings(r)
    /\ \A e \in entries : e.id = r => e.user = row[r].user
    /\ {l \in usage : l.id = r} =
         IF row[r].status = "settled" THEN {[id |-> r, cost |-> row[r].cost]} ELSE {}

\* AuditChain: balance_version orders the entries of a user, the latest one
\* carries the balance the user still has, and an entry that directly follows
\* another continues from its balance_after, so a balance can be audited from
\* billing_ledger alone (Post; AddBalance takes a version without an entry).
AuditChain ==
  /\ \A e \in entries : /\ e.version \in 1..version[e.user]
                        /\ e.version = version[e.user] => e.after = balance[e.user]
  /\ \A e, f \in entries :
       e.user = f.user =>
         /\ e.version = f.version => e = f
         /\ f.version = e.version + 1 => f.after = e.after + f.amount

\* What reservation r currently keeps from its user's deposits.
Withheld(r) ==
  CASE row[r].status \in {"absent", "refunded"} -> 0
    [] row[r].status = "settled"               -> row[r].cost
    [] OTHER                                   -> row[r].amount

\* Conservation: no sequence of reservations, attempts, settlements, refunds and
\* corrections creates or loses money: a balance is what was deposited less what
\* the user's reservations withhold.
Conservation ==
  \A u \in Users :
    balance[u] = deposited[u] - MapThenSumSet(Withheld, {r \in Ids : row[r].user = u})

Facts(r) == <<row[r].user, row[r].amount, row[r].channel, row[r].cost>>

KeepsConsumption(r) ==
  /\ row[r].status = "consumed_unsettled" =>
       row'[r].status \in {"consumed_unsettled", "settled"} /\ Facts(r)' = Facts(r)
  /\ row[r].status \in {"settled", "refunded"} => row'[r] = row[r]

\* ConsumptionIsFinal: once RecordConsumption has committed, the cost, channel,
\* amount and owner of the reservation never change and it can only be settled;
\* a settled or refunded reservation never changes again.
ConsumptionIsFinal == [][\A r \in Ids : KeepsConsumption(r)]_vars

-----------------------------------------------------------------------------
(* The ledger implements the wallet its callers are promised.              *)

FateOf(status) ==
  CASE status = "absent"                     -> "absent"
    [] status \in {"reserved", "in_flight"}  -> "held"
    [] status = "consumed_unsettled"         -> "owed"
    [] status = "settled"                    -> "charged"
    [] status = "refunded"                   -> "returned"

HoldOf(r) == [fate |-> FateOf(row[r].status), user |-> row[r].user,
              amount |-> row[r].amount, cost |-> row[r].cost]

W == INSTANCE Wallet WITH available <- balance, hold <- [r \in Ids |-> HoldOf(r)]

\* ImplementsWallet: every transaction of the ledger is one step of the wallet,
\* or invisible to it (moving between reserved and in_flight, replays, failures).
ImplementsWallet == W!WSpec
=============================================================================

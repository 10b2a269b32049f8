---------------------------- MODULE MemoryLedger ----------------------------
(***************************************************************************)
(* The ledger of development mode (src/internal/billing/memory_ledger.go)  *)
(* over the balances in memory (src/internal/store/memory.go).  Each       *)
(* operation holds the ledger's mutex and is one step; Recover lists under *)
(* the mutex, and then finalizes and refunds one by one without it.  There *)
(* are no lost answers here, no CHECK on the cost, and a reservation grows *)
(* old by its creation, not by its last change.                            *)
(***************************************************************************)
EXTENDS Integers, FiniteSets, FiniteSetsExt

CONSTANTS Users, Ids, Channels,
          Openings, Amounts, Costs, Deltas,
          MaxCorrections,  \* bound: corrections by the administration
          NoUser, NoChannel  \* NULL

\* What the proofs ask of the constants: sums are positive, costs natural, no user is NULL.
ConstantsOK == /\ Openings \subseteq Nat /\ Amounts \subseteq Nat \ {0} /\ Costs \subseteq Nat
               /\ Deltas \subseteq Int /\ NoUser \notin Users

VARIABLES balance,     \* MemoryStore.balances
          enabled,     \* whether each user is on
          record,      \* MemoryLedger.records
          recovery,    \* the goroutine that recovers
          deposited,   \* history: opening balances and corrections
          corrections  \* corrections so far

vars == <<balance, enabled, record, recovery, deposited, corrections>>

Statuses == {"absent", "reserved", "in_flight", "consumed_unsettled", "settled", "refunded"}

\* old: created more than five minutes ago; attemptOld: sent more than a day ago.
AbsentRecord == [status |-> "absent", user |-> NoUser, amount |-> 0, channel |-> NoChannel,
                 cost |-> 0, old |-> FALSE, attemptOld |-> FALSE]

NoRecovery == [at |-> "idle", settle |-> {}, refund |-> {}, listed |-> {}, ambiguous |-> FALSE]

Init == /\ balance \in [Users -> Openings] /\ deposited = balance
        /\ enabled = [u \in Users |-> TRUE]
        /\ record = [r \in Ids |-> AbsentRecord]
        /\ recovery = NoRecovery
        /\ corrections = 0

-----------------------------------------------------------------------------
(* The operations; "ok" is whether the call succeeds.  A call that does    *)
(* nothing leaves everything as it is.                                     *)

Becomes(r, rec) == record' = [record EXCEPT ![r] = rec]

Outside == <<enabled, deposited, corrections>>

\* BillingAdjust: no int64 is left while sums are small.
Adjusts(u, delta) == balance' = [balance EXCEPT ![u] = @ + delta]

\* BillingReserve: a user that is on and can pay.
CanReserve(u, a) == enabled[u] /\ balance[u] >= a

\* A second Reserve of the same reservation changes nothing, so only the first is a step.
Reserve(r, u, a) ==
  /\ record[r].status = "absent" /\ CanReserve(u, a)
  /\ Adjusts(u, -a)
  /\ Becomes(r, [AbsentRecord EXCEPT !.status = "reserved", !.user = u, !.amount = a])
  /\ UNCHANGED <<Outside, recovery>>

\* Mutant: the attempt is marked without its channel.
MarkInFlightAnywhere(r, ch) ==
  /\ record[r].status = "reserved"
  /\ Becomes(r, [record[r] EXCEPT !.status = "in_flight", !.attemptOld = FALSE])
  /\ UNCHANGED <<Outside, balance, recovery>>

MarkInFlight(r, ch) ==
  /\ record[r].status = "reserved"
  /\ Becomes(r, [record[r] EXCEPT !.status = "in_flight", !.channel = ch, !.attemptOld = FALSE])
  /\ UNCHANGED <<Outside, balance, recovery>>

\* The channel stays in the record.
ReleaseAttempt(r) ==
  /\ record[r].status = "in_flight"
  /\ Becomes(r, [record[r] EXCEPT !.status = "reserved", !.attemptOld = FALSE])
  /\ UNCHANGED <<Outside, balance, recovery>>

RecordConsumption(r, ch, c) ==
  /\ record[r].status = "in_flight" /\ record[r].channel = ch
  /\ Becomes(r, [record[r] EXCEPT !.status = "consumed_unsettled", !.cost = c])
  /\ UNCHANGED <<Outside, balance, recovery>>

\* Mutant: what was settled is settled again.
SettlesAgain(r) ==
  record[r].status \in {"consumed_unsettled", "settled"} /\ record[r].cost <= record[r].amount

\* Mutant: a cost beyond the hold is taken from the balance.
SettlesOver(r) == record[r].status = "consumed_unsettled"

\* A cost beyond the hold is never settled: ErrReservationExceeded.
Settles(r) == record[r].status = "consumed_unsettled" /\ record[r].cost <= record[r].amount

\* Finalize succeeds on what it settles now or has settled before.
Finalize(r, ok) ==
  /\ ok = (Settles(r) \/ record[r].status = "settled")
  /\ IF Settles(r)
     THEN /\ Adjusts(record[r].user, record[r].amount - record[r].cost)
          /\ Becomes(r, [record[r] EXCEPT !.status = "settled"])
     ELSE UNCHANGED <<balance, record>>

Refunds(r) == record[r].status = "reserved"

\* Refund, likewise.
Refund(r, ok) ==
  /\ ok = (Refunds(r) \/ record[r].status = "refunded")
  /\ IF Refunds(r)
     THEN /\ Adjusts(record[r].user, record[r].amount)
          /\ Becomes(r, [record[r] EXCEPT !.status = "refunded"])
     ELSE UNCHANGED <<balance, record>>

\* The calls of a request.
Request(r) ==
  \/ \E u \in Users, a \in Amounts : Reserve(r, u, a)
  \/ \E ch \in Channels : MarkInFlight(r, ch)
  \/ ReleaseAttempt(r)
  \/ \E ch \in Channels, c \in Costs : RecordConsumption(r, ch, c)
  \/ \E ok \in BOOLEAN : (Finalize(r, ok) \/ Refund(r, ok)) /\ UNCHANGED <<Outside, recovery>>

-----------------------------------------------------------------------------
(* Recover.                                                                *)

StartRecover ==
  LET consumed == { r \in Ids : record[r].status = "consumed_unsettled" }
      stale    == { r \in Ids : record[r].status = "reserved" /\ record[r].old }
  IN /\ recovery.at # "running"
     /\ recovery' = [at |-> "running", settle |-> consumed, refund |-> stale, listed |-> consumed \cup stale,
                     ambiguous |-> \E r \in Ids : record[r].status = "in_flight" /\ record[r].attemptOld]
     /\ UNCHANGED <<Outside, balance, record>>

\* Mutant: a reservation that cannot be settled is passed over.
GoesOn(list, r, ok) == recovery' = [recovery EXCEPT ![list] = @ \ {r}]

\* One of a list is dealt with; the first that fails ends the run.
Goes(list, r, ok) ==
  recovery' = IF ok THEN [recovery EXCEPT ![list] = @ \ {r}] ELSE [NoRecovery EXCEPT !.at = "failed"]

\* The consumed ones first, in any order, then the stale ones.
RecoverNext ==
  /\ recovery.at = "running"
  /\ \E r \in Ids, ok \in BOOLEAN :
       \/ r \in recovery.settle /\ Finalize(r, ok) /\ Goes("settle", r, ok)
       \/ recovery.settle = {} /\ r \in recovery.refund /\ Refund(r, ok) /\ Goes("refund", r, ok)
  /\ UNCHANGED Outside

\* nil, or ErrAmbiguousReservations.
FinishRecover ==
  /\ recovery.at = "running" /\ recovery.settle = {} /\ recovery.refund = {}
  /\ recovery' = [recovery EXCEPT !.at = IF recovery.ambiguous THEN "ambiguous" ELSE "nil"]
  /\ UNCHANGED <<Outside, balance, record>>

-----------------------------------------------------------------------------
(* The administration and the clock.                                       *)

AdminAddBalance(u, d) ==
  /\ corrections < MaxCorrections
  /\ Adjusts(u, d)
  /\ deposited' = [deposited EXCEPT ![u] = @ + d] /\ corrections' = corrections + 1
  /\ UNCHANGED <<enabled, record, recovery>>

AdminSetUserEnabled(u, e) ==
  /\ enabled' = [enabled EXCEPT ![u] = e]
  /\ UNCHANGED <<balance, record, recovery, deposited, corrections>>

\* A reservation passes five minutes, and then its attempt a day.
GrowOld(r) ==
  /\ record[r].status \in {"reserved", "in_flight"}
  /\ \/ ~record[r].old /\ Becomes(r, [record[r] EXCEPT !.old = TRUE])
     \/ /\ record[r].old /\ record[r].status = "in_flight"
        /\ Becomes(r, [record[r] EXCEPT !.attemptOld = TRUE])
  /\ UNCHANGED <<Outside, balance, recovery>>

Next == \/ \E r \in Ids : Request(r) \/ GrowOld(r)
        \/ StartRecover \/ RecoverNext \/ FinishRecover
        \/ \E u \in Users : \/ \E d \in Deltas : AdminAddBalance(u, d)
                            \/ \E e \in BOOLEAN : AdminSetUserEnabled(u, e)

Spec == Init /\ [][Next]_vars

-----------------------------------------------------------------------------
(* Properties.                                                             *)

\* The variables have their types; what was sent or consumed names its channel.
TypeOK ==
  /\ balance \in [Users -> Int] /\ enabled \in [Users -> BOOLEAN]
  /\ record \in [Ids -> [status : Statuses, user : Users \cup {NoUser}, amount : Nat,
                         channel : Channels \cup {NoChannel}, cost : Nat,
                         old : BOOLEAN, attemptOld : BOOLEAN]]
  /\ \A r \in Ids : record[r].status \in {"in_flight", "consumed_unsettled", "settled"} =>
       record[r].channel \in Channels
  /\ recovery.at \in {"idle", "running", "failed", "nil", "ambiguous"}

\* What a record withholds from its user for good or for now.
Withheld(rec) == CASE rec.status \in {"absent", "refunded"} -> 0
                   [] rec.status = "settled" -> rec.cost
                   [] OTHER -> rec.amount

\* Every user's money is in the balance, withheld, or was consumed, whatever requests,
\* recovery and corrections do to it at the same time (memory_ledger.go:124-168).
Conservation ==
  \A u \in Users :
    balance[u] + MapThenSumSet(LAMBDA r : Withheld(record[r]), { r \in Ids : record[r].user = u })
      = deposited[u]

\* When Recover returns nil, every reservation it found consumed or stale has come to its
\* end, though requests went on meanwhile (memory_ledger.go:188-201).
RecoverComplete ==
  recovery.at = "nil" => \A r \in recovery.listed : record[r].status \in {"settled", "refunded"}

\* Where the wallet of the contract has a hold; a cost beyond the hold is not owed.
FateOf(rec) ==
  CASE rec.status = "absent"   -> "absent"
    [] rec.status = "settled"  -> "charged"
    [] rec.status = "refunded" -> "returned"
    [] rec.status = "consumed_unsettled" /\ rec.cost <= rec.amount -> "owed"
    [] OTHER -> "held"

W == INSTANCE Wallet WITH
       available <- balance,
       hold <- [r \in Ids |-> [fate |-> FateOf(record[r]), user |-> record[r].user,
                               amount |-> record[r].amount,
                               cost |-> IF FateOf(record[r]) = "held" THEN 0 ELSE record[r].cost]]

\* The memory ledger keeps the same contract as the one in PostgreSQL (ledger.go).
ImplementsWallet == W!WSpec
=============================================================================

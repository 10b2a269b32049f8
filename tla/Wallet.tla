------------------------------- MODULE Wallet -------------------------------
(***************************************************************************)
(* What the billing ledger promises its callers, with no tables, channels, *)
(* attempts or retries in it: money is taken out of a user's available     *)
(* balance when a hold is placed, and each hold is disposed of at most     *)
(* once, either charged (the unused part goes back) or returned in full.   *)
(*                                                                         *)
(* It is the contract stated over the Ledger interface in                  *)
(* src/internal/billing/ledger.go; module Ledger is shown to implement it. *)
(***************************************************************************)
EXTENDS Integers

CONSTANTS Users,      \* accounts that hold a balance
          Ids,        \* reservation IDs
          Amounts,    \* the sums a reservation may be placed for
          NoUser      \* owner of a hold that was never placed

VARIABLES available,  \* [Users -> Int]: money that can still be reserved
          hold        \* [Ids -> Hold]: the life of each reservation

wvars == <<available, hold>>

Fates == {"absent", "held", "owed", "charged", "returned"}

Absent == [fate |-> "absent", user |-> NoUser, amount |-> 0, cost |-> 0]

WInit == /\ available \in [Users -> Nat]
         /\ hold = [r \in Ids |-> Absent]

\* The whole hold leaves the available balance, which must cover it.
Place(r, u, a) ==
  /\ hold[r].fate = "absent"
  /\ a > 0
  /\ available[u] >= a
  /\ hold' = [hold EXCEPT ![r] = [fate |-> "held", user |-> u, amount |-> a, cost |-> 0]]
  /\ available' = [available EXCEPT ![u] = @ - a]

\* The upstream consumed: from here on the hold can only be charged.
Owe(r, c) ==
  /\ hold[r].fate = "held"
  /\ c \in 0..hold[r].amount
  /\ hold' = [hold EXCEPT ![r] = [fate |-> "owed", user |-> hold[r].user,
                                    amount |-> hold[r].amount, cost |-> c]]
  /\ UNCHANGED available

Charge(r) ==
  /\ hold[r].fate = "owed"
  /\ hold' = [hold EXCEPT ![r].fate = "charged"]
  /\ available' = [available EXCEPT ![hold[r].user] = @ + (hold[r].amount - hold[r].cost)]

Return(r) ==
  /\ hold[r].fate = "held"
  /\ hold' = [hold EXCEPT ![r].fate = "returned"]
  /\ available' = [available EXCEPT ![hold[r].user] = @ + hold[r].amount]

\* An operator tops one balance up or corrects it; holds are not touched.
Adjust(u) ==
  /\ available' = [available EXCEPT ![u] = available'[u]]
  /\ UNCHANGED hold

WNext ==
  \/ \E r \in Ids : \/ \E u \in Users, a \in Amounts : Place(r, u, a)
                    \/ \E c \in 0..hold[r].amount : Owe(r, c)
                    \/ Charge(r)
                    \/ Return(r)
  \/ \E u \in Users : Adjust(u)

WSpec == WInit /\ [][WNext]_wvars
=============================================================================

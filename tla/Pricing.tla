------------------------------ MODULE Pricing ------------------------------
(***************************************************************************)
(* The money arithmetic of the gateway (src/internal/billing/pricing.go    *)
(* and billing.go): the amount a request withholds before anything is      *)
(* sent, the cost derived from whatever usage the provider reports         *)
(* afterwards, and the consumption that is recorded of it.  Prices are per *)
(* Unit tokens (a million in the code), sums are bounded by MaxInt (the    *)
(* largest int64), and the token columns of PostgreSQL by MaxCount (the    *)
(* largest int32).                                                         *)
(***************************************************************************)
EXTENDS Integers, FiniteSetsExt

CONSTANTS Unit,            \* tokens a price is for, positive
          MaxInt, MaxCount,
          Prices,          \* values a price of a policy may have
          Limits,          \* values a token limit of a policy may have
          DefaultReserve,  \* Billing.defaultReserve
          Tokens           \* bound: the true token counts per dimension

\* What the proofs ask of the constants; a count beyond the columns is nobody's true count.
ConstantsOK == /\ Unit \in Nat \ {0} /\ MaxInt \in Nat /\ MaxCount \in Nat
               /\ Prices \subseteq Int /\ Limits \subseteq Int
               /\ DefaultReserve \in Nat
               /\ Tokens \subseteq Nat /\ MaxCount + 1 \notin Tokens

VARIABLES policy,   \* the model's ModelPolicy under strict pricing
          hold,     \* the Reservation: amount and output limit
          truth,    \* history: the tokens the provider really used
          report,   \* the canonical.Usage the gateway decoded
          cost,     \* what Settle computed
          written,  \* the counts, cost and flags in the row of the reservation
          phase

pricingVars == <<policy, hold, truth, report, cost, written, phase>>

Policy == [input : Prices, output : Prices, creation : Prices, read : Prices,
           maxInput : Limits, maxOutput : Limits]

Truth == [input : Tokens, output : Tokens, creation : Tokens, read : Tokens]

Phases == {"quote", "rejected", "held", "exceeded", "billed", "recorded", "conflict"}

NoHold   == [amount |-> 0, maxOutput |-> 0]
NoTruth  == [input |-> 0, output |-> 0, creation |-> 0, read |-> 0]
NoReport == [input |-> 0, output |-> 0, creation |-> 0, read |-> 0, total |-> 0,
             inputKnown |-> FALSE, outputKnown |-> FALSE, totalKnown |-> FALSE]
NoRow    == [input |-> 0, output |-> 0, creation |-> 0, read |-> 0, total |-> 0,
             cost |-> -1, complete |-> FALSE]

-----------------------------------------------------------------------------
(* checkedCostParts: the products are added up without wrapping and        *)
(* rounded up to whole billing units once, at the end.                     *)

Overflow == -1   \* ErrCostOverflow; a cost is never negative

Priced(total) == IF total > MaxInt - (Unit - 1) THEN Overflow
                 ELSE (total + Unit - 1) \div Unit

CostUsageChecked(p, input, output, creation, read) ==
  IF Min({input, output, creation, read}) < 0 THEN Overflow
  ELSE Priced(input * p.input + output * p.output + creation * p.creation + read * p.read)

\* Mutant: cached tokens are taken to cost no more than fresh ones.
DearestInputPlain(p) == p.input

DearestInput(p) == Max({p.input, p.creation, p.read})

\* The most a request can cost: every input token at the dearest input price.
ReservationCost(p, maxOutput) ==
  Priced(p.maxInput * DearestInput(p) + maxOutput * p.output)

\* Mutant: a bare total is priced as if it were all input.
ConservativeTotalCostInput(p, total) == Priced(total * DearestInput(p))

\* Only a total is known: every token at the dearest price of all.
ConservativeTotalCost(p, total) == Priced(total * Max({DearestInput(p), p.output}))

\* Strict pricing rejects a model with a price or a limit that is not positive.
Usable(p) == Min({p.input, p.output, p.creation, p.read, p.maxInput, p.maxOutput}) > 0

-----------------------------------------------------------------------------
(* Billing.settlementCost.                                                 *)

CacheTokens(u) == u.creation + u.read

\* Fills in the one part that a known total leaves open.
Completed(u) ==
  CASE u.totalKnown /\ u.inputKnown /\ ~u.outputKnown ->
         [u EXCEPT !.outputKnown = TRUE, !.output = u.total - (u.input + CacheTokens(u))]
    [] u.totalKnown /\ ~u.inputKnown /\ u.outputKnown ->
         [u EXCEPT !.inputKnown = TRUE, !.input = u.total - (u.output + CacheTokens(u))]
    [] OTHER -> u

\* Mutant: the parts are believed whatever the total says.
ContradictoryParts(u) ==
  u.creation < 0 \/ u.read < 0 \/ (u.inputKnown /\ u.input < 0) \/ (u.outputKnown /\ u.output < 0)

\* A report that contradicts itself is worth nothing.
Contradictory(u) ==
  \/ u.creation < 0 \/ u.read < 0
  \/ u.inputKnown /\ u.input < 0
  \/ u.outputKnown /\ u.output < 0
  \/ /\ u.totalKnown
     /\ \/ u.total < CacheTokens(u)
        \/ LET c == Completed(u) IN
           /\ c.inputKnown /\ c.outputKnown
           /\ \/ c.input < 0 \/ c.output < 0
              \/ c.input + CacheTokens(u) + c.output # u.total

OrWholeHold(c) == IF c = Overflow THEN hold.amount ELSE c

SettlementCost(u) ==
  LET c == Completed(u) IN
  CASE Contradictory(u)                             -> hold.amount
    [] ~Contradictory(u) /\ c.inputKnown /\ c.outputKnown ->
         OrWholeHold(CostUsageChecked(policy, c.input, c.output, c.creation, c.read))
    [] ~Contradictory(u) /\ ~c.inputKnown /\ ~c.outputKnown /\ c.totalKnown ->
         OrWholeHold(ConservativeTotalCost(policy, c.total))
    [] OTHER                                        -> hold.amount

\* The cost is that of known parts which nothing contradicts.
Exact(u) == LET c == Completed(u) IN
            /\ ~Contradictory(u) /\ c.inputKnown /\ c.outputKnown
            /\ CostUsageChecked(policy, c.input, c.output, c.creation, c.read) # Overflow

\* Mutant: a count is recorded as it was reported.
SafeTokenValueRaw(n) == n

SafeTokenValue(n) == Max({n, 0})

\* The Consumption that Billing.Settle builds: the parts as far as they are believed.
ConsumptionOf(u) ==
  LET c == IF Contradictory(u) THEN u ELSE Completed(u) IN
  [input |-> SafeTokenValue(c.input), output |-> SafeTokenValue(c.output),
   creation |-> SafeTokenValue(c.creation), read |-> SafeTokenValue(c.read),
   total |-> SafeTokenValue(c.total),
   cost |-> SettlementCost(u), complete |-> Exact(u)]

-----------------------------------------------------------------------------
(* One request: priced, held, then settled.                                *)

PricingInit ==
  /\ policy \in Policy
  /\ hold = NoHold /\ truth = NoTruth /\ report = NoReport /\ cost = 0 /\ written = NoRow
  /\ phase = "quote"

\* NormalizeMaxOutput: the model's limit where the client gave none, which is 0 here.
MaxOutput(requested) == IF requested = 0 THEN policy.maxOutput ELSE requested

\* A limit out of range is rejected, then Billing.Reserve prices the hold; the ledger
\* refuses limits its columns cannot hold (reservationTokenLimits).
Quote(requested) ==
  /\ phase = "quote"
  /\ LET maxOutput == MaxOutput(requested)
         worst     == ReservationCost(policy, maxOutput)
     IN
     IF \/ ~Usable(policy) \/ maxOutput \notin 1..policy.maxOutput \/ worst = Overflow
        \/ Max({policy.maxInput, maxOutput}) > MaxCount
     THEN phase' = "rejected" /\ UNCHANGED hold
     ELSE /\ phase' = "held"
          /\ hold' = [amount |-> Max({worst, DefaultReserve}), maxOutput |-> maxOutput]
  /\ UNCHANGED <<policy, truth, report, cost, written>>

\* What a provider that says nothing wrong may report of the tokens it used.
Honest(t) ==
  {[input |-> IF i THEN t.input ELSE 0, output |-> IF o THEN t.output ELSE 0,
    creation |-> t.creation, read |-> t.read,
    total |-> IF s THEN t.input + t.output + t.creation + t.read ELSE 0,
    inputKnown |-> i, outputKnown |-> o, totalKnown |-> s] : i, o, s \in BOOLEAN}

\* One that says something wrong: a total off by one, a negative count, one beyond the
\* columns.
TotalOff(t, d)   == {[r EXCEPT !.total = @ + d] : r \in {h \in Honest(t) : h.totalKnown}}
OutputSaid(t, n) == {[r EXCEPT !.output = n, !.outputKnown = TRUE] : r \in Honest(t)}

Garbled(t) == TotalOff(t, -1) \cup TotalOff(t, 1) \cup OutputSaid(t, -1) \cup OutputSaid(t, MaxCount + 1)

\* What may be used, with what may be reported of it.
Usages == UNION {{<<t, r>> : r \in Honest(t) \cup Garbled(t)} : t \in Truth}

\* Billing.Settle prices the report; a cost beyond the hold is an error and
\* nothing is recorded.
Settle(t, r) ==
  /\ phase = "held"
  /\ truth' = t /\ report' = r
  /\ cost' = SettlementCost(r)
  /\ phase' = IF cost' > hold.amount THEN "exceeded" ELSE "billed"
  /\ UNCHANGED <<policy, hold, written>>

Counts(c) == {c.input, c.output, c.creation, c.read, c.total}

\* Mutant: the counts are taken modulo the width of their columns.
ConsumptionParamsWrapped(c) ==
  [c EXCEPT !.input = @ % (MaxCount + 1), !.output = @ % (MaxCount + 1), !.creation = @ % (MaxCount + 1),
            !.read = @ % (MaxCount + 1), !.total = @ % (MaxCount + 1)]

\* consumptionParams: the row to be written, or none where a count does not fit.
ConsumptionParams(c) == IF Max(Counts(c)) > MaxCount THEN NoRow ELSE c

\* samePostgresConsumption.
SameConsumption(r, c) == r = c

\* RecordConsumption, again if the answer to a commit was lost; a conflict is final.
RecordConsumption ==
  /\ phase = "billed"
  /\ LET c == ConsumptionOf(report) IN
     IF \/ ConsumptionParams(c) = NoRow
        \/ written # NoRow /\ ~SameConsumption(written, c)
     THEN phase' = "conflict" /\ UNCHANGED written
     ELSE written' = ConsumptionParams(c) /\ phase' \in {"recorded", "billed"}
  /\ UNCHANGED <<policy, hold, truth, report, cost>>

PricingNext ==
  \/ \E requested \in Limits \cup {0} : Quote(requested)
  \/ phase = "held" /\ \E u \in Usages : Settle(u[1], u[2])
  \/ RecordConsumption

PricingSpec == PricingInit /\ [][PricingNext]_pricingVars

-----------------------------------------------------------------------------
(* Correctness.                                                            *)

PricingTypeOK ==
  /\ policy \in Policy
  /\ hold.amount \in Nat /\ hold.maxOutput \in Nat
  /\ truth \in Truth \cup {NoTruth}
  /\ cost \in Nat
  /\ phase \in Phases

\* The provider kept to the limits the hold was computed for.
WithinLimits == /\ truth.input + truth.creation + truth.read <= policy.maxInput
                /\ truth.output <= hold.maxOutput

TrueCost == CostUsageChecked(policy, truth.input, truth.output, truth.creation, truth.read)

\* What Settle computed is the charge.
Charged == phase \in {"billed", "recorded", "conflict"}

\* NeverUndercharged: whichever parts of the usage an honest provider leaves out,
\* a request within its limits is charged at least what its tokens cost (the
\* inference from the total, the dearest price, the whole hold as fallback).
NeverUndercharged ==
  Charged /\ report \in Honest(truth) /\ WithinLimits => cost >= TrueCost

\* ExactSettles: usage within the limits whose parts are known, or follow from the
\* total, is never beyond the hold, rounding and cache prices included
\* (ReservationCost against CostUsageChecked).
ExactSettles ==
  phase = "exceeded" /\ report \in Honest(truth) /\ WithinLimits =>
    ~Completed(report).inputKnown \/ ~Completed(report).outputKnown

\* DoubtCostsTheHold: a report with a negative part, or whose parts do not add up
\* to its total, neither lowers the charge below the hold nor raises it beyond
\* (settlementCost against Billing.Settle).
DoubtCostsTheHold ==
  (Charged \/ phase = "exceeded") /\ report \in Garbled(truth)
    /\ (report.output < 0 \/ (report.inputKnown /\ report.outputKnown /\ report.totalKnown)) =>
      phase # "exceeded" /\ cost = hold.amount

\* ChargeSound: nobody is charged less than the tokens cost, and a doubtful report costs
\* exactly the hold.
ChargeSound == NeverUndercharged /\ DoubtCostsTheHold

\* CountsExact: the row tells the truth about the charge.  Counts fit their columns; those
\* called complete are those the provider used and price to the cost that stands beside
\* them; a record is refused before anything is written and never because it was written
\* already; and it is not refused at all for honest usage within limits whose sum the
\* columns hold (consumptionParams, samePostgresConsumption).
CountsExact ==
  /\ written # NoRow =>
       /\ written.cost = cost /\ Counts(written) \subseteq 0..MaxCount
       /\ written.complete => CostUsageChecked(policy, written.input, written.output, written.creation, written.read) = cost
       /\ written.complete /\ report \in Honest(truth) =>
            [k \in {"input", "output", "creation", "read"} |-> written[k]] = truth
  /\ phase = "conflict" =>
       /\ written = NoRow
       /\ report \in Honest(truth) /\ WithinLimits => policy.maxInput + hold.maxOutput > MaxCount

\* EveryUsageSettles: usage within the limits is always settled, however little of
\* it is reported (docs/modules.md: missing, total-only, partial and conflicting
\* usage are all left to Billing to settle conservatively).
EveryUsageSettles ==
  phase = "exceeded" => ~(report \in Honest(truth) /\ WithinLimits)
=============================================================================

---------------------------- MODULE BreakerRules ----------------------------
(***************************************************************************)
(* The transitions of one circuit breaker (src/internal/routing/           *)
(* breaker.go) as functions of its state.  Every method runs under the     *)
(* breaker's mutex, so each is one atomic step wherever it is used.        *)
(***************************************************************************)
EXTENDS Integers

CONSTANTS FailureThreshold,   \* consecutive failures that trip it
          HalfOpenMaxProbes   \* concurrent attempts let through while half open

\* NewBreaker replaces values that are not positive.
ASSUME ThresholdAssumption == FailureThreshold \in Nat \ {0}
ASSUME ProbesAssumption    == HalfOpenMaxProbes \in Nat \ {0}

States  == {"closed", "open", "half_open"}
Results == {"success", "failure", "neutral"}

\* cooled: the cooldown counted from openedAt has passed.  generation is a
\* uint64 that never wraps in practice; it grows by one at every change of state.
BreakerType == [state : States, fails : Nat, cooled : BOOLEAN, probes : Nat, generation : Nat]

NewBreaker == [state |-> "closed", fails |-> 0, cooled |-> FALSE, probes |-> 0, generation |-> 0]

\* Ready, and the test Allow makes: would an attempt be let through now?
Ready(b) == \/ b.state = "closed"
            \/ b.state = "open" /\ b.cooled
            \/ b.state = "half_open" /\ b.probes < HalfOpenMaxProbes

\* The breaker after Allow let an attempt through; the permit it hands out
\* carries the generation of this state.
Admitted(b) ==
  CASE b.state = "closed"    -> b
    [] b.state = "open"      -> [b EXCEPT !.state = "half_open", !.probes = 1,
                                          !.generation = @ + 1]
    [] b.state = "half_open" -> [b EXCEPT !.probes = @ + 1]

\* Mutant: tripping leaves the permits handed out before valid.
TripSameGeneration(b) == [b EXCEPT !.state = "open", !.cooled = FALSE, !.probes = 0]

Trip(b) == [b EXCEPT !.state = "open", !.cooled = FALSE, !.probes = 0, !.generation = @ + 1]

Succeeded(b) ==
  CASE b.state = "closed"    -> [b EXCEPT !.fails = 0]
    [] b.state = "half_open" -> [b EXCEPT !.state = "closed", !.fails = 0, !.probes = 0,
                                          !.generation = @ + 1]
    [] b.state = "open"      -> b

Failed(b) ==
  CASE b.state = "closed" /\ b.fails + 1 < FailureThreshold  -> [b EXCEPT !.fails = @ + 1]
    [] b.state = "closed" /\ b.fails + 1 >= FailureThreshold -> Trip([b EXCEPT !.fails = @ + 1])
    [] b.state = "half_open"                                 -> Trip(b)
    [] b.state = "open"                                      -> b

\* Mutants: the slot is given back in any state; it is never given back.
EndedAnywhere(b) == [b EXCEPT !.probes = @ - 1]
EndedKeepsSlot(b) == b

\* A cancelled attempt says nothing of the channel but gives its slot back.
Ended(b) == IF b.state = "half_open" /\ b.probes > 0 THEN [b EXCEPT !.probes = @ - 1] ELSE b

\* A result is heard only from a permit of the current generation.
Recorded(b, generation, result) ==
  CASE generation # b.generation                         -> b
    [] generation = b.generation /\ result = "success" -> Succeeded(b)
    [] generation = b.generation /\ result = "failure" -> Failed(b)
    [] generation = b.generation /\ result = "neutral" -> Ended(b)

\* Time: the cooldown of an open breaker ends.
Cooled(b) == [b EXCEPT !.cooled = TRUE]
=============================================================================

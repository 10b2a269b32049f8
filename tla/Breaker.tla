------------------------------ MODULE Breaker ------------------------------
(***************************************************************************)
(* One circuit breaker shared by concurrent attempts (src/internal/        *)
(* routing/breaker.go).  A caller asks with Allow, holds the permit while  *)
(* its upstream call runs, and reports the result through it; the breaker  *)
(* may have moved on in the meantime.                                      *)
(***************************************************************************)
EXTENDS BreakerRules, FiniteSets

CONSTANTS Callers,        \* goroutines that make attempts
          MaxGeneration   \* bound: an open breaker of this generation stays open

ASSUME CallersAssumption == IsFiniteSet(Callers)

VARIABLES breaker,   \* the Breaker struct
          permit     \* [Callers -> Permit]: the last BreakerPermit of each caller

vars == <<breaker, permit>>

\* resolved is the permit's sync.Once; a caller starts with a spent permit.
Permit  == [generation : Nat, resolved : BOOLEAN]
Initial == [generation |-> 0, resolved |-> TRUE]

Init == /\ breaker = NewBreaker
        /\ permit = [c \in Callers |-> Initial]

\* A caller makes one attempt at a time.
Allow(c) ==
  /\ permit[c].resolved
  /\ Ready(breaker)
  /\ breaker.state = "open" => breaker.generation < MaxGeneration
  /\ breaker' = Admitted(breaker)
  /\ permit' = [permit EXCEPT ![c] = [generation |-> breaker'.generation, resolved |-> FALSE]]

\* Mutant: no sync.Once.
ResolveTwice(c, result) ==
  /\ breaker' = Recorded(breaker, permit[c].generation, result)
  /\ permit' = [permit EXCEPT ![c].resolved = TRUE]

\* RecordSuccess, RecordFailure or RecordNeutral; only the first has an effect.
Resolve(c, result) ==
  /\ breaker' = IF permit[c].resolved THEN breaker
                ELSE Recorded(breaker, permit[c].generation, result)
  /\ permit' = [permit EXCEPT ![c].resolved = TRUE]

\* The clock passes openedAt + CooldownPeriod.
Cool ==
  /\ breaker.state = "open" /\ ~breaker.cooled
  /\ breaker' = Cooled(breaker)
  /\ UNCHANGED permit

Next == \/ \E c \in Callers : Allow(c) \/ \E result \in Results : Resolve(c, result)
        \/ Cool

\* Time passes, and an attempt ends: upstream calls have timeouts and every path
\* of the forwarder's candidate loop reports the attempt it started.
Fairness == /\ WF_vars(Cool)
            /\ \A c \in Callers : WF_vars(~permit[c].resolved /\ \E result \in Results : Resolve(c, result))

Spec     == Init /\ [][Next]_vars
FairSpec == Spec /\ Fairness

-----------------------------------------------------------------------------
(* Correctness.                                                            *)

TypeOK == breaker \in BreakerType /\ permit \in [Callers -> Permit]

\* The callers whose result the breaker would still listen to.
Live == {c \in Callers : ~permit[c].resolved /\ permit[c].generation = breaker.generation}

\* ProbeAccounting: however late, repeated or interleaved the reports of older
\* attempts are, a half-open breaker counts exactly the probes that are still
\* running, never more than HalfOpenMaxProbes, and an open one listens to nobody
\* (Allow, record and trip; the generation and the sync.Once of the permit).
ProbeAccounting ==
  /\ breaker.state = "half_open" => /\ breaker.probes = Cardinality(Live)
                                    /\ breaker.probes <= HalfOpenMaxProbes
  /\ breaker.state # "half_open" => breaker.probes = 0
  /\ breaker.state = "open" => Live = {}

\* NoPermitFromTheFuture: no permit is of a later generation than the breaker, so
\* a revoked permit can never become valid again.
NoPermitFromTheFuture == \A c \in Callers : permit[c].generation <= breaker.generation

C == INSTANCE Circuit WITH mode <- breaker.state, valid <- Live, MaxProbes <- HalfOpenMaxProbes

\* ImplementsCircuit: comparing generation numbers has the effect of revoking all
\* permits at every change of state: only a valid permit changes it.
ImplementsCircuit == C!CSpec

\* KeepsServing: a breaker never gets stuck refusing every attempt: probe slots
\* come back and cooldowns end, so it is ready again and again.
KeepsServing == []<>Ready(breaker)
=============================================================================

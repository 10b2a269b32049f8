------------------------------ MODULE Circuit ------------------------------
(***************************************************************************)
(* What a circuit breaker promises the callers it protects, without        *)
(* generations, counters or clocks: who holds a valid permit, and when a   *)
(* result may change the state.  Whenever the state changes, every permit  *)
(* handed out before is revoked, so no late result can be heard.           *)
(***************************************************************************)
EXTENDS Integers, FiniteSets

CONSTANTS Callers,     \* goroutines that make attempts
          MaxProbes    \* permits valid at once while probing

VARIABLES mode,        \* "closed", "open" or "half_open"
          valid        \* callers whose permit still counts

cvars == <<mode, valid>>

CInit == mode = "closed" /\ valid = {}

\* While closed anyone may try; an open circuit starts probing with one caller.
Admit(c) ==
  \/ /\ mode = "closed"
     /\ valid' = valid \cup {c}
     /\ UNCHANGED mode
  \/ /\ mode = "open"
     /\ mode' = "half_open"
     /\ valid' = {c}
  \/ /\ mode = "half_open"
     /\ Cardinality(valid) < MaxProbes
     /\ valid' = valid \cup {c}
     /\ UNCHANGED mode

\* A caller with a valid permit reports; only then may the state change.
Report(c) ==
  /\ c \in valid
  /\ \/ /\ valid' = valid \ {c}
        /\ UNCHANGED mode
     \/ /\ mode = "closed"
        /\ mode' = "open"
        /\ valid' = {}
     \/ /\ mode = "half_open"
        /\ mode' \in {"closed", "open"}
        /\ valid' = {}

\* A caller walks away, or asks again, holding a permit that was revoked.
CNext == \E c \in Callers : Admit(c) \/ Report(c)

CSpec == CInit /\ [][CNext]_cvars
=============================================================================

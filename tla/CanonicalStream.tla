-------------------------- MODULE CanonicalStream --------------------------
(***************************************************************************)
(* The canonical events a streamed answer consists of while it crosses the *)
(* gateway (src/internal/canonical/response.go), and what the event loop   *)
(* of the forwarder (src/internal/forwarder/stream.go) makes of the usage  *)
(* they carry.  An unknown number of tokens is None; a negative number of  *)
(* cache tokens marks a report that contradicts itself.                    *)
(***************************************************************************)
EXTENDS Integers, Sequences, FiniteSets, SequencesExt

CONSTANTS None,    \* a field that is absent, not a number
          MaxInt   \* the largest integer, math.MaxInt in the code

-----------------------------------------------------------------------------
(* Events.                                                                 *)

Kinds == {"text", "thinking", "tool_use"}

\* delta is the kind of content a block_delta carries, "empty" where the
\* decoder found no field of the block's own kind.
Event(type) == [type |-> type, block |-> None, kind |-> None, delta |-> None,
                stop |-> FALSE, usage |-> None, final |-> FALSE]

BlockStart(b, kind)  == [Event("block_start") EXCEPT !.block = b, !.kind = kind]
BlockDelta(b, delta) == [Event("block_delta") EXCEPT !.block = b, !.delta = delta]
BlockStop(b)         == [Event("block_stop") EXCEPT !.block = b]
MessageDelta(stop, u, final) ==
  [Event("message_delta") EXCEPT !.stop = stop, !.usage = u, !.final = final]

-----------------------------------------------------------------------------
(* Usage.                                                                  *)

NoUsage == [input |-> None, output |-> None, total |-> None, creation |-> 0, read |-> 0]

\* checkedStreamTokenSum and checkedTokenSum: None for a negative part or an overflow.
CheckedSum(parts) ==
  LET total[k \in 0 .. Len(parts)] == IF k = 0 THEN 0 ELSE total[k - 1] + parts[k]
      sum == total[Len(parts)]
  IN IF (\E i \in DOMAIN parts : parts[i] < 0) \/ sum > MaxInt THEN None ELSE sum

\* The larger of two numbers that may be unknown.
LargestKnown(a, b) == IF a = None \/ (b # None /\ b > a) THEN b ELSE a

\* Mutant: a later report simply replaces the invalid one.
LargestValidForgetful(a, b) == IF b > a THEN b ELSE a

\* Cache tokens: the larger number, and an invalid one stays invalid.
LargestValid(a, b) == IF a < 0 \/ b < 0 THEN -1 ELSE IF b > a THEN b ELSE a

accumulateUsage(u, ev) ==
  IF ev.usage = None THEN u
  ELSE [u EXCEPT !.input    = LargestKnown(@, ev.usage.input),
                 !.output   = LargestKnown(@, ev.usage.output),
                 !.total    = LargestKnown(@, ev.usage.total),
                 !.creation = LargestValid(@, ev.usage.creation),
                 !.read     = LargestValid(@, ev.usage.read)]

\* Mutant: provisional numbers complete the final ones.
usageWithFinalAuthorityLoose(u, final) == u

\* What the final reports leave open is not filled in with a provisional output.
usageWithFinalAuthority(u, final) ==
  [u EXCEPT !.input  = IF final.input = None THEN @ ELSE final.input,
            !.output = final.output,
            !.total  = final.total]

\* Mutant: nothing that comes late is taken to matter.
allowedAfterFinalUsageAll(ev) == ev.type # "error"

\* What may follow a final usage without casting doubt on it.
allowedAfterFinalUsage(ev) ==
  \/ ev.type \in {"ping", "message_stop"}
  \/ ev.type = "message_delta" /\ ev.final /\ ev.usage # None

IfKnown(n) == IF n = None THEN <<>> ELSE <<n>>

\* The total agrees with the parts, or leaves something for the one missing.
usageReadyForExactSettlement(u) ==
  LET cache == <<u.creation, u.read>>
      known == IfKnown(u.input) \o IfKnown(u.output)
      sum   == CheckedSum(known \o cache)
  IN /\ known # <<>> /\ sum # None
     /\ IF u.total = None THEN Len(known) = 2
        ELSE IF Len(known) = 2 THEN sum = u.total ELSE sum <= u.total

=============================================================================

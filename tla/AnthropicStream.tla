-------------------------- MODULE AnthropicStream --------------------------
(***************************************************************************)
(* The Anthropic stream decoder and encoder (src/internal/adapter/         *)
(* anthropic).  Wire records are almost the canonical events; both sides   *)
(* only remember the kind of each block, to read and write its deltas.     *)
(***************************************************************************)
EXTENDS CanonicalStream

\* A wire record: the fields a type does not use are None.
Record(type) == [type |-> type, index |-> None, kind |-> None, stop |-> FALSE, usage |-> None]

-----------------------------------------------------------------------------
(* Usage on the wire: [input, output, creation, read]; absent cache fields *)
(* read as 0.                                                              *)

canonicalUsageFromWire(w) ==
  IF w = None THEN None
  ELSE [NoUsage EXCEPT !.input = w.input, !.output = w.output,
                       !.creation = w.creation, !.read = w.read]

-----------------------------------------------------------------------------
(* Block kinds by index, of the decoder and of the encoder.                *)

NewBlocks == <<>>

setBlockType(blocks, b, kind) == [i \in DOMAIN blocks \cup {b} |-> IF i = b THEN kind ELSE blocks[i]]

blockType(blocks, b) == IF b \in DOMAIN blocks THEN blocks[b] ELSE "text"

-----------------------------------------------------------------------------
(* The decoder.                                                            *)

Decoded(d, events) == [dec |-> d, events |-> events, failed |-> FALSE]

\* Only the field that belongs to the block's kind is read.
decodeBlockDelta(d, r) ==
  BlockDelta(r.index, IF r.kind = blockType(d, r.index) THEN r.kind ELSE "empty")

\* Mutant: a usage in the middle of the stream counts as final.
decodeMessageDeltaAnyUsage(r) ==
  MessageDelta(r.stop, canonicalUsageFromWire(r.usage), r.usage # None)

\* A usage is final when the same message_delta ends the message.
decodeMessageDelta(r) ==
  MessageDelta(r.stop, canonicalUsageFromWire(r.usage), r.usage # None /\ r.stop)

Decode(d, r) ==
  CASE r.type \in {"comment", "ping"} -> { Decoded(d, <<Event("ping")>>) }
    [] r.type \in {"blank", "unknown"} -> { Decoded(d, <<>>) }
    [] r.type = "garbage" -> { [Decoded(d, <<>>) EXCEPT !.failed = TRUE] }
    [] r.type = "message_start" ->
         { Decoded(d, <<[Event("message_start") EXCEPT !.usage = canonicalUsageFromWire(r.usage)]>>) }
    [] r.type = "content_block_start" ->
         { Decoded(setBlockType(d, r.index, r.kind), <<BlockStart(r.index, r.kind)>>) }
    [] r.type = "content_block_delta" -> { Decoded(d, <<decodeBlockDelta(d, r)>>) }
    [] r.type = "content_block_stop"  -> { Decoded(d, <<BlockStop(r.index)>>) }
    [] r.type = "message_delta"       -> { Decoded(d, <<decodeMessageDelta(r)>>) }
    [] r.type = "message_stop"        -> { Decoded(d, <<Event("message_stop")>>) }
    [] r.type = "error"               -> { Decoded(d, <<Event("error")>>) }

-----------------------------------------------------------------------------
(* The encoder: one record for each event.                                 *)

Encoded(e, out) == [enc |-> e, out |-> out]

\* The usage of a message_delta has room for output tokens only.
outputOnly(u) ==
  IF u = None \/ u.output = None THEN None
  ELSE [input |-> None, output |-> u.output, creation |-> 0, read |-> 0]

Encode(e, ev) ==
  CASE ev.type = "block_start" ->
         Encoded(setBlockType(e, ev.block, ev.kind),
                 <<[Record("content_block_start") EXCEPT !.index = ev.block, !.kind = ev.kind]>>)
    [] ev.type = "block_delta" ->
         Encoded(e, <<[Record("content_block_delta") EXCEPT
                         !.index = ev.block, !.kind = blockType(e, ev.block)]>>)
    [] ev.type = "block_stop" ->
         Encoded(e, <<[Record("content_block_stop") EXCEPT !.index = ev.block]>>)
    [] ev.type = "message_delta" ->
         Encoded(e, <<[Record("message_delta") EXCEPT !.stop = ev.stop, !.usage = outputOnly(ev.usage)]>>)
    [] ev.type \in {"message_start", "message_stop", "ping", "error"} -> Encoded(e, <<Record(ev.type)>>)

=============================================================================

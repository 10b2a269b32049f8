---------------------------- MODULE OpenAIStream ----------------------------
(***************************************************************************)
(* The OpenAI stream decoder and encoder (src/internal/adapter/openai).    *)
(* A wire record is a chunk, a comment, a blank data field, [DONE], an     *)
(* error envelope or something that does not parse.  Texts and arguments   *)
(* are reduced to their presence.                                          *)
(***************************************************************************)
EXTENDS CanonicalStream

\* A chunk with the choice it has (none in the tail that only reports usage).
Chunk == [type |-> "chunk", role |-> FALSE, choice |-> TRUE, text |-> FALSE, tools |-> <<>>,
          finish |-> FALSE, usage |-> None]

\* One element of delta.tool_calls; id tells whether it introduces its tool.
ToolCall(index, id, args) == [index |-> index, id |-> id, args |-> args]

-----------------------------------------------------------------------------
(* Usage on the wire: [prompt, cached, completion, total].                 *)

\* Cached tokens are part of the prompt and are split off from it.
canonicalUsageFromWire(w) ==
  [NoUsage EXCEPT
     !.input  = IF w.prompt = None \/ w.cached = None \/ w.cached \notin 0 .. w.prompt
                THEN w.prompt ELSE w.prompt - w.cached,
     !.read   = IF w.cached = None THEN 0
                ELSE IF w.prompt # None /\ w.cached \notin 0 .. w.prompt THEN -1 ELSE w.cached,
     !.output = w.completion,
     !.total  = w.total]

\* Only what is known is written; a total is added where both sides are known.
wireUsageFromCanonical(u) ==
  LET prompt == IF u.input = None THEN None ELSE CheckedSum(<<u.input, u.creation, u.read>>)
      total  == IF prompt = None \/ u.output = None THEN None ELSE CheckedSum(<<prompt, u.output>>)
  IN IF prompt = None /\ u.output = None /\ u.total = None THEN None
     ELSE [prompt |-> prompt, cached |-> IF prompt # None /\ u.read > 0 THEN u.read ELSE None,
           completion |-> u.output, total |-> IF u.total # None THEN u.total ELSE total]

-----------------------------------------------------------------------------
(* The decoder.  tools maps the indexes of tool calls to their blocks.     *)

NewDecoder == [started |-> FALSE, next |-> 0, textOpen |-> FALSE, textBlock |-> 0, tools |-> <<>>]

Decoded(d, events) == [dec |-> d, events |-> events, failed |-> FALSE]

Then(s, events) == [s EXCEPT !.events = @ \o events]

closeTextBlock(s) ==
  IF s.dec.textOpen
  THEN Then([s EXCEPT !.dec.textOpen = FALSE], <<BlockStop(s.dec.textBlock)>>)
  ELSE s

\* Mutant: the blocks of the tools stay open.
closeOpenBlocksText(s) == { closeTextBlock(s) }

\* The blocks of the tools are closed in whatever order the map yields them.
closeOpenBlocks(s) ==
  LET t == closeTextBlock(s)
  IN { Then([t EXCEPT !.dec.tools = <<>>], [i \in DOMAIN order |-> BlockStop(order[i])]) :
         order \in SetToSeqs(Range(t.dec.tools)) }

messageStart(s) ==
  IF s.dec.started THEN s
  ELSE Then([s EXCEPT !.dec.started = TRUE], <<Event("message_start")>>)

textDelta(s) ==
  LET t == IF s.dec.textOpen THEN s
           ELSE Then([s EXCEPT !.dec.textOpen = TRUE, !.dec.textBlock = s.dec.next, !.dec.next = @ + 1],
                     <<BlockStart(s.dec.next, "text")>>)
  IN Then(t, <<BlockDelta(t.dec.textBlock, "text")>>)

\* A new tool closes the text and takes the next block.
openTool(s, index) ==
  LET t == closeTextBlock(s)
      b == t.dec.next
  IN Then([t EXCEPT !.dec.next = @ + 1,
                    !.dec.tools = [i \in DOMAIN @ \cup {index} |-> IF i = index THEN b ELSE @[i]]],
          <<BlockStart(b, "tool_use")>>)

\* Mutant: arguments go to the block opened last.
handleToolCallDeltaLast(s, tc) ==
  LET t == IF tc.index \in DOMAIN s.dec.tools THEN s ELSE openTool(s, tc.index)
  IN IF tc.args THEN Then(t, <<BlockDelta(t.dec.next, "tool_use")>>) ELSE t

handleToolCallDelta(s, tc) ==
  LET t == IF tc.index \in DOMAIN s.dec.tools THEN s ELSE openTool(s, tc.index)
  IN IF tc.args THEN Then(t, <<BlockDelta(t.dec.tools[tc.index], "tool_use")>>) ELSE t

\* The deltas of the tools of a chunk, in order.
handleToolCalls(s, calls) ==
  LET after[k \in 0 .. Len(calls)] ==
        IF k = 0 THEN s ELSE handleToolCallDelta(after[k - 1], calls[k])
  IN after[Len(calls)]

\* The chunks with a choice: text, tools, then the end of the message.
decodeChoice(s, r) ==
  LET t == handleToolCalls(IF r.text THEN textDelta(s) ELSE s, r.tools)
      u == IF r.usage = None THEN None ELSE canonicalUsageFromWire(r.usage)
  IN IF r.finish
     THEN { Then(c, <<MessageDelta(TRUE, u, u # None)>>) : c \in closeOpenBlocks(t) }
     ELSE {t}

\* The set of ways a record may be decoded.
Decode(d, r) ==
  LET s == Decoded(d, <<>>) IN
  CASE r.type = "comment" -> { Then(s, <<Event("ping")>>) }
    [] r.type = "blank"   -> { s }
    [] r.type = "done"    -> { Then(c, <<Event("message_stop")>>) : c \in closeOpenBlocks(s) }
    [] r.type = "garbage" -> { [s EXCEPT !.failed = TRUE] }
    [] r.type = "error"   -> { Then(s, <<Event("error")>>) }
    [] r.type = "chunk" /\ ~r.choice ->
         { IF r.usage = None THEN messageStart(s)
           ELSE Then(messageStart(s), <<MessageDelta(FALSE, canonicalUsageFromWire(r.usage), TRUE)>>) }
    [] r.type = "chunk" /\ r.choice -> decodeChoice(messageStart(s), r)

-----------------------------------------------------------------------------
(* The encoder: the state after an event, and the records it writes.       *)

NewEncoder == [usage |-> NoUsage, usageSent |-> FALSE, toolIndex |-> <<>>, nextTool |-> 0]

Encoded(e, out) == [enc |-> e, out |-> out]

\* The last number of each kind that was known.
mergeUsage(e, u) ==
  IF u = None THEN e
  ELSE [e EXCEPT !.usage = [input    |-> IF u.input = None THEN @.input ELSE u.input,
                            output   |-> IF u.output = None THEN @.output ELSE u.output,
                            total    |-> IF u.total = None THEN @.total ELSE u.total,
                            creation |-> IF u.creation > @.creation THEN u.creation ELSE @.creation,
                            read     |-> IF u.read > @.read THEN u.read ELSE @.read]]

\* Mutant: every block of a tool gets the index of the first.
assignToolIndexSame(e, b) == [e EXCEPT !.toolIndex = [x \in DOMAIN @ \cup {b} |-> 0]]

\* Allocates an index for a block, or finds the one it has.
assignToolIndex(e, b) ==
  IF b \in DOMAIN e.toolIndex THEN e
  ELSE [e EXCEPT !.toolIndex = [x \in DOMAIN @ \cup {b} |-> IF x = b THEN e.nextTool ELSE @[x]],
                 !.nextTool = @ + 1]

toolChunk(e, b, id, args) ==
  LET f == assignToolIndex(e, b)
  IN Encoded(f, <<[Chunk EXCEPT !.tools = <<ToolCall(f.toolIndex[b], id, args)>>]>>)

\* Mutant: the first usage of any kind is passed on.
encodeMessageDeltaEarly(e, ev) ==
  LET f      == mergeUsage(e, ev.usage)
      finish == IF ev.stop THEN <<[Chunk EXCEPT !.finish = TRUE]>> ELSE <<>>
  IN IF ev.usage # None /\ ~f.usageSent
     THEN Encoded([f EXCEPT !.usageSent = TRUE],
                  finish \o <<[Chunk EXCEPT !.choice = FALSE, !.usage = wireUsageFromCanonical(f.usage)]>>)
     ELSE Encoded(f, finish)

\* The finish chunk, and the usage in a chunk of its own, once.
encodeMessageDelta(e, ev) ==
  LET f      == mergeUsage(e, ev.usage)
      finish == IF ev.stop THEN <<[Chunk EXCEPT !.finish = TRUE]>> ELSE <<>>
  IN IF ev.final /\ ev.usage # None /\ ~f.usageSent
     THEN Encoded([f EXCEPT !.usageSent = TRUE],
                  finish \o <<[Chunk EXCEPT !.choice = FALSE, !.usage = wireUsageFromCanonical(f.usage)]>>)
     ELSE Encoded(f, finish)

Encode(e, ev) ==
  CASE ev.type = "message_start" -> Encoded(mergeUsage(e, ev.usage), <<[Chunk EXCEPT !.role = TRUE]>>)
    [] ev.type = "block_start" /\ ev.kind = "tool_use"  -> toolChunk(e, ev.block, TRUE, FALSE)
    [] ev.type = "block_delta" /\ ev.delta = "tool_use" -> toolChunk(e, ev.block, FALSE, TRUE)
    [] ev.type = "block_delta" /\ ev.delta = "text"     -> Encoded(e, <<[Chunk EXCEPT !.text = TRUE]>>)
    [] ev.type = "message_delta" -> encodeMessageDelta(e, ev)
    [] ev.type = "message_stop"  -> Encoded(e, <<[type |-> "done"]>>)
    [] ev.type = "error"         -> Encoded(e, <<[type |-> "error"]>>)
    [] OTHER                     -> Encoded(e, <<>>)

=============================================================================

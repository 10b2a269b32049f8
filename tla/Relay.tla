------------------------------- MODULE Relay -------------------------------
(***************************************************************************)
(* One streamed answer: forwardStream in src/internal/forwarder/stream.go  *)
(* after the provider has answered 2xx.  Each record of the provider is    *)
(* decoded, its usage is accumulated, and it is written to the client,     *)
(* encoded in the client's format or, when the formats agree, as it is.    *)
(* The provider tells the truth about tokens, though perhaps not all of    *)
(* it, or reports numbers that cannot be; the client may hang up.          *)
(***************************************************************************)
EXTENDS CanonicalStream

CONSTANTS Prompt, Cached,   \* input tokens of the request, and those of them from the cache
          MaxTokens,        \* bound: output tokens of the answer
          Details           \* bound: habits of OpenAI providers, see details

\* What the proofs ask of the constants: None is none of what it stands beside, and the true
\* counts are numbers that fit.
Counts == Int \cup {None}
ASSUME RelayAssumption ==
  /\ None \notin Int /\ None \notin Kinds
  /\ None \notin [input : Counts, output : Counts, total : Counts, creation : Int, read : Int]
  /\ None \notin [prompt : Counts, cached : Counts, completion : Counts, total : Counts]
  /\ None \notin [input : Counts, output : Counts, creation : Int, read : Int]
  /\ None \notin [kind : {"success", "channel_error", "neutral"}, exact : BOOLEAN]
  /\ Prompt \in Nat \ {0} /\ Cached \in 0 .. Prompt
  /\ MaxTokens \in Nat /\ MaxInt \in Nat /\ Prompt + MaxTokens <= MaxInt
  /\ Details \subseteq SUBSET BOOLEAN

OpenAI    == INSTANCE OpenAIStream
Anthropic == INSTANCE AnthropicStream

Formats == {"openai", "anthropic"}

VARIABLES channel,   \* the format of the provider's channel
          client,    \* the format of the client's request
          details,   \* whether an OpenAI provider gives the cached tokens, or now and then
          passthrough,  \* records are written as they are, not encoded
          dec, enc,  \* state of the decoder and of the encoder
          loop,      \* the locals of forwardStream
          outcome,   \* what finishAttempt returned, None before
          made,      \* history: what the provider has generated and said
          view       \* history: what a client's parser has made of a converted answer

vars == <<channel, client, details, passthrough, dec, enc, loop, outcome, made, view>>

\* canPassthrough: the formats agree and the channel does not rename the model.
canPassthrough(renamed) == channel = client /\ ~renamed

Loop == [usage |-> NoUsage, finalUsage |-> NoUsage, finalUsageSeen |-> FALSE,
         finalUsageInvalidated |-> FALSE, protocolCompleted |-> FALSE, committed |-> FALSE]

\* tokens: generated so far; deltas: those a client of its format can see;
\* open, next: the content block an Anthropic provider is in, and the next one;
\* flawless: see Judged;
\* finished: it gave its reason to stop; told: it gave a final report.
Made == [started |-> FALSE, tokens |-> 0, deltas |-> 0, open |-> None, next |-> 0,
         flawless |-> TRUE, finished |-> FALSE, told |-> FALSE]

\* deltas: pieces of content received; tools: calls introduced so far; open, done:
\* content blocks; broken: the answer did not follow the protocol.
View == [begun |-> FALSE, deltas |-> 0, tools |-> 0, open |-> {}, done |-> {},
         finished |-> FALSE, ended |-> FALSE, usage |-> None, broken |-> FALSE]

Init == /\ channel \in Formats /\ client \in Formats
        /\ details \in IF channel = "openai" THEN Details ELSE {{TRUE}}
        /\ \E renamed \in BOOLEAN : passthrough = canPassthrough(renamed)
        /\ dec = IF channel = "openai" THEN OpenAI!NewDecoder ELSE Anthropic!NewBlocks
        /\ enc = IF client = "openai" THEN OpenAI!NewEncoder ELSE Anthropic!NewBlocks
        /\ loop = Loop /\ outcome = None /\ made = Made /\ view = View

-----------------------------------------------------------------------------
(* The provider.  A usage states what was generated when it is sent, or    *)
(* leaves it out.                                                          *)

OrNone(n) == {None, n}

\* Reports of an OpenAI provider after n tokens; the last one cannot be true.
OpenAIUsages(n) ==
  { [prompt |-> p, cached |-> c, completion |-> o, total |-> t] :
      p \in OrNone(Prompt), c \in { IF d THEN Cached ELSE None : d \in details },
      o \in OrNone(n), t \in OrNone(Prompt + n) }
  \cup {[prompt |-> 0, cached |-> 1, completion |-> n, total |-> None]}

AnthropicImpossible ==
  { [input |-> 1, output |-> 0, creation |-> c, read |-> 0] : c \in {-1, MaxInt} }

\* Input and cached tokens come together; the last ones cannot be true.
AnthropicUsages(outputs) ==
  { [input |-> i, output |-> o, creation |-> 0, read |-> IF i = None THEN 0 ELSE Cached] :
      i \in OrNone(Prompt - Cached), o \in outputs }
  \cup AnthropicImpossible

\* A final report from which exact costs follow.
Complete(w) ==
  IF channel = "openai" THEN w.prompt = Prompt /\ w.completion # None
  ELSE w.input # None /\ w.output # None

OpenAIChunk(t, tc, f) == [OpenAI!Chunk EXCEPT !.text = t, !.tools = tc, !.finish = f]

OpenAICalls ==
  {<<>>, <<OpenAI!ToolCall(0, TRUE, FALSE)>>, <<OpenAI!ToolCall(0, FALSE, TRUE)>>,
   <<OpenAI!ToolCall(0, FALSE, TRUE), OpenAI!ToolCall(1, TRUE, TRUE)>>}

OpenAIChunks ==
  { OpenAIChunk(t, tc, f) : t \in BOOLEAN, f \in BOOLEAN, tc \in OpenAICalls }

\* Tokens in a chunk: one that says nothing known carries content of another kind.
ChunkTokens(r) == (IF r.text THEN 1 ELSE 0) + Len(r.tools)
                  + (IF r = OpenAI!Chunk THEN 1 ELSE 0)
ChunkDeltas(r) == (IF r.text THEN 1 ELSE 0) + Cardinality({i \in DOMAIN r.tools : r.tools[i].args})

\* A record, what the provider has generated after it, and its final report if it has one.
Says(r, m, final) == [record |-> r, made |-> m, final |-> final]

Begun == [made EXCEPT !.started = TRUE]

AfterChunk(r) == [Begun EXCEPT !.tokens = @ + ChunkTokens(r), !.deltas = @ + ChunkDeltas(r)]

\* A chunk, and one that finishes the answer with its final report.
SaysChunk(r) ==
  LET m == AfterChunk(r)
  IN { Says(r, m, None) } \cup
     IF ~r.finish THEN {} ELSE { Says([r EXCEPT !.usage = u], m, u) : u \in OpenAIUsages(m.tokens) }

\* Everything else, a chunk, or the tail that only reports.
OpenAISays ==
  { Says([type |-> t], made, None) : t \in {"comment", "blank", "garbage", "error", "done"} }
  \cup (UNION { SaysChunk(r) : r \in OpenAIChunks })
  \cup { Says([OpenAI!Chunk EXCEPT !.choice = FALSE, !.usage = u], Begun, u) : u \in OpenAIUsages(made.tokens) }

\* One token more, of whatever kind.
More == [made EXCEPT !.tokens = @ + 1]

\* The start of the message, perhaps with what is known of its usage.
SaysStart ==
  { Says([Anthropic!Record("message_start") EXCEPT !.usage = u], [made EXCEPT !.started = TRUE], None) :
      u \in {None} \cup AnthropicUsages({None, 0, 1}) }

\* One block at a time, as that protocol has it.
SaysBlock ==
  { Says([Anthropic!Record("content_block_start") EXCEPT !.index = made.next, !.kind = k],
         [More EXCEPT !.open = k, !.next = @ + 1], None) : k \in Kinds }

SaysInBlock ==
  { Says([Anthropic!Record("content_block_delta") EXCEPT !.index = made.next - 1, !.kind = made.open],
         [More EXCEPT !.deltas = @ + (IF made.open = "thinking" /\ client = "openai" THEN 0 ELSE 1)], None),
    Says([Anthropic!Record("content_block_stop") EXCEPT !.index = made.next - 1],
         [made EXCEPT !.open = None], None) }

\* Between the blocks: a usage in passing, the finish with a final report or none, the end.
SaysEnd ==
  { Says([Anthropic!Record("message_delta") EXCEPT !.usage = u], made, None) :
      u \in {None} \cup AnthropicUsages({None, 0, 1}) }
  \cup { Says([Anthropic!Record("message_delta") EXCEPT !.stop = TRUE, !.usage = u], made, u) :
           u \in {None} \cup AnthropicUsages(OrNone(made.tokens)) }
  \cup { Says(Anthropic!Record("message_stop"), made, None) }

AnthropicSays ==
  { Says(Anthropic!Record(t), made, None) : t \in {"comment", "ping", "blank", "garbage", "error"} }
  \cup { Says(Anthropic!Record("unknown"), More, None) }
  \cup (IF made.started THEN {} ELSE SaysStart)
  \cup (IF made.started /\ made.open = None THEN SaysBlock \cup SaysEnd ELSE {})
  \cup (IF made.open # None THEN SaysInBlock ELSE {})

\* The stream stays flawless as long as content comes before the finish, complete reports
\* after it, nothing but heartbeats and the end after those, and the end not before them.
Judged(s) ==
  LET r        == s.record
      grew     == s.made.tokens > made.tokens
      ends     == r.type \in {"done", "message_stop"}
      bad      == r.type \in {"garbage", "error"}
                  \/ (channel = "anthropic" /\ r.usage \in AnthropicImpossible)
      finished == made.finished \/ (r.type = "chunk" /\ r.finish) \/ (r.type = "message_delta" /\ r.stop)
      expected == ends \/ s.final # None \/ r.type \in {"comment", "ping"}
  IN [s.made EXCEPT !.finished = finished,
                    !.told = @ \/ s.final # None,
                    !.flawless = @ /\ ~bad /\ (grew => ~made.finished) /\ (made.told => expected)
                                 /\ (s.final # None => finished /\ Complete(s.final))
                                 /\ (ends => made.told)]

\* What the provider may send next.
Sayings == { s \in (IF channel = "openai" THEN OpenAISays ELSE AnthropicSays) :
               s.made.tokens <= MaxTokens }

-----------------------------------------------------------------------------
(* The client's parser.                                                    *)

Broken(v, whether) == [v EXCEPT !.broken = @ \/ whether]

\* Every call is introduced before its arguments, in the order of the indexes.
SeeTool(v, tc) ==
  IF tc.id THEN Broken([v EXCEPT !.tools = @ + 1], tc.index # v.tools)
  ELSE Broken([v EXCEPT !.deltas = @ + 1], tc.index >= v.tools)

SeeTools(v, calls) ==
  LET after[k \in 0 .. Len(calls)] == IF k = 0 THEN v ELSE SeeTool(after[k - 1], calls[k])
  IN after[Len(calls)]

SeeOpenAI(v, r) ==
  CASE r.type = "done"  -> Broken([v EXCEPT !.ended = TRUE], v.ended)
    [] r.type = "error" -> Broken(v, v.ended)
    [] r.type = "chunk" ->
         LET w == SeeTools([v EXCEPT !.begun = TRUE, !.deltas = @ + IF r.text THEN 1 ELSE 0], r.tools)
         IN Broken([w EXCEPT !.finished = @ \/ r.finish,
                             !.usage = IF r.usage = None THEN @ ELSE r.usage],
                   v.ended \/ (~v.begun /\ ~r.role) \/ (r.usage # None /\ v.usage # None))

\* A block is started once, gets its deltas while it is open, and is stopped.
SeeAnthropic(v, r) ==
  CASE r.type = "message_start" -> Broken([v EXCEPT !.begun = TRUE], v.begun)
    [] r.type = "content_block_start" ->
         Broken([v EXCEPT !.open = @ \cup {r.index}], ~v.begun \/ r.index \in v.open \cup v.done)
    [] r.type = "content_block_delta" -> Broken([v EXCEPT !.deltas = @ + 1], r.index \notin v.open)
    [] r.type = "content_block_stop"  ->
         Broken([v EXCEPT !.open = @ \ {r.index}, !.done = @ \cup {r.index}], r.index \notin v.open)
    [] r.type = "message_delta" ->
         Broken([v EXCEPT !.finished = @ \/ r.stop, !.usage = IF r.usage = None THEN @ ELSE r.usage],
                ~v.begun)
    [] r.type = "message_stop"  -> Broken([v EXCEPT !.ended = TRUE], v.ended \/ v.open # {})
    [] OTHER -> v

SeeRecord(v, r) == IF client = "openai" THEN SeeOpenAI(v, r) ELSE SeeAnthropic(v, r)

See(v, records) ==
  LET after[k \in 0 .. Len(records)] == IF k = 0 THEN v ELSE SeeRecord(after[k - 1], records[k])
  IN after[Len(records)]

-----------------------------------------------------------------------------
(* The event loop.                                                         *)

Decode(r)     == IF channel = "openai" THEN OpenAI!Decode(dec, r) ELSE Anthropic!Decode(dec, r)
Encode(e, ev) == IF client = "openai" THEN OpenAI!Encode(e, ev) ELSE Anthropic!Encode(e, ev)

\* One event: doubt about a final usage, the numbers, the end.
Track(l, ev) ==
  [l EXCEPT
     !.finalUsageInvalidated = @ \/ (l.finalUsageSeen /\ ~allowedAfterFinalUsage(ev)),
     !.usage = accumulateUsage(@, ev),
     !.finalUsageSeen = @ \/ ev.final,
     !.finalUsage = IF ev.final THEN accumulateUsage(@, ev) ELSE @,
     !.protocolCompleted = @ \/ ev.type = "message_stop"]

\* Mutant: a record nobody understands is skipped.
TrackAllKnown(events) == FoldLeft(Track, loop, events)

\* All events of a record; none at all after a final usage is suspicious, too.
TrackAll(events) ==
  LET doubted == [loop EXCEPT !.finalUsageInvalidated = @ \/ (loop.finalUsageSeen /\ events = <<>>)]
      after[k \in 0 .. Len(events)] == IF k = 0 THEN doubted ELSE Track(after[k - 1], events[k])
  IN after[Len(events)]

\* An event becomes what the encoder makes of it, behind the output there is.
EncodeEvent(s, ev) == LET x == Encode(s.enc, ev) IN [enc |-> x.enc, out |-> s.out \o x.out]

\* Everything the events of a record become: the encoder's state and its output.
EncodeAll(events) ==
  LET after[k \in 0 .. Len(events)] ==
        IF k = 0 THEN [enc |-> enc, out |-> <<>>] ELSE EncodeEvent(after[k - 1], events[k])
  IN after[Len(events)]

Outcome(kind, exact) == [kind |-> kind, exact |-> exact]

\* finishAttempt: an inexact usage is settled with nothing known but the cache.
Finish(kind, l, exact) ==
  /\ outcome' = Outcome(kind, exact)
  /\ loop' = IF exact THEN l
             ELSE [l EXCEPT !.usage = [@ EXCEPT !.input = None, !.output = None, !.total = None]]

\* After the loop: an exact settlement, or a channel that ended without its usage.
Conclude(l) ==
  LET u == usageWithFinalAuthority(l.usage, l.finalUsage)
      exact == l.finalUsageSeen /\ ~l.finalUsageInvalidated /\ usageReadyForExactSettlement(u)
  IN Finish(IF exact THEN "success" ELSE "channel_error", [l EXCEPT !.usage = u], exact)

\* Mutant: a client that has gone is the channel's fault.
AdvanceBlaming(l, events, delivered) ==
  LET failed == \E i \in DOMAIN events : events[i].type = "error" IN
  CASE failed \/ ~delivered                        -> Finish("channel_error", l, FALSE)
    [] ~failed /\ delivered /\ l.protocolCompleted -> Conclude(l)
    [] OTHER                                       -> loop' = l /\ UNCHANGED outcome

\* Mutant: the end of the protocol alone makes a success.
AdvanceTrusting(l, events, delivered) ==
  LET failed == \E i \in DOMAIN events : events[i].type = "error" IN
  CASE failed                                     -> Finish("channel_error", l, FALSE)
    [] ~failed /\ ~delivered                      -> Finish("neutral", l, FALSE)
    [] ~failed /\ delivered /\ l.protocolCompleted -> Finish("success", l, FALSE)
    [] OTHER                                      -> loop' = l /\ UNCHANGED outcome

\* The record was written, or only its first n outputs when the client has gone.
Advance(l, events, delivered) ==
  LET failed == \E i \in DOMAIN events : events[i].type = "error" IN
  CASE failed                                     -> Finish("channel_error", l, FALSE)
    [] ~failed /\ ~delivered                      -> Finish("neutral", l, FALSE)
    [] ~failed /\ delivered /\ l.protocolCompleted -> Conclude(l)
    [] OTHER                                      -> loop' = l /\ UNCHANGED outcome

\* Mutant: a failed write is not noticed, the rest of the answer goes on.
RelayedDeaf(s, d) ==
  LET l == TrackAll(d.events)
      x == IF passthrough THEN [enc |-> enc, out |-> <<s.record>>] ELSE EncodeAll(d.events)
  IN /\ enc' = x.enc
     /\ \E n \in 0 .. Len(x.out) :
          view' = IF passthrough THEN view ELSE See(view, SubSeq(x.out, 1, n))
     /\ Advance([l EXCEPT !.committed = @ \/ x.out # <<>>], d.events, TRUE)

\* A decoded record: its outputs are written, all of them or up to a write that fails.
Relayed(s, d) ==
  LET l == TrackAll(d.events)
      x == IF passthrough THEN [enc |-> enc, out |-> <<s.record>>] ELSE EncodeAll(d.events)
  IN /\ enc' = x.enc
     /\ \E n \in 0 .. Len(x.out) :
          /\ view' = IF passthrough THEN view ELSE See(view, SubSeq(x.out, 1, n))
          /\ Advance([l EXCEPT !.committed = @ \/ x.out # <<>>], d.events, n = Len(x.out))

\* gone: the client's context is done by now, which the loop only asks after a failure.
Failed(gone) == Finish(IF gone THEN "neutral" ELSE "channel_error", loop, FALSE)

Receive(s) ==
  /\ outcome = None
  /\ made' = Judged(s)
  /\ \E d \in Decode(s.record) :
       /\ dec' = d.dec
       /\ \/ /\ d.failed
             /\ \E gone \in BOOLEAN : Failed(gone)
             /\ UNCHANGED <<enc, view>>
          \/ ~d.failed /\ Relayed(s, d)
  /\ UNCHANGED <<channel, client, details, passthrough>>

\* The stream breaks off: the provider's fault unless the client's context is done.
ReadFails(gone) ==
  /\ outcome = None
  /\ Failed(gone)
  /\ made' = [made EXCEPT !.flawless = @ /\ gone]
  /\ UNCHANGED <<channel, client, details, passthrough, dec, enc, view>>

\* (The first conjunct is that of Receive: it saves TLC what is said after the end.)
Next == \/ outcome = None /\ \E s \in Sayings : Receive(s)
        \/ \E gone \in BOOLEAN : ReadFails(gone)

Spec == Init /\ [][Next]_vars

-----------------------------------------------------------------------------
(* Properties.                                                             *)

\* Everything has its type, and the answer is committed before anything is seen of it.
TypeOK ==
  /\ channel \in Formats /\ client \in Formats /\ (passthrough => channel = client)
  /\ loop.finalUsageSeen \in BOOLEAN /\ loop.finalUsageInvalidated \in BOOLEAN
  /\ loop.protocolCompleted \in BOOLEAN
  /\ outcome # None => /\ outcome.kind \in {"success", "channel_error", "neutral"}
                       /\ outcome.exact = (outcome.kind = "success")
  /\ made.tokens \in 0 .. MaxTokens
  /\ view.begun => loop.committed

\* The output tokens Settle charges for: known, or what the total leaves.
ChargedInput(u)  == IF u.input # None THEN u.input ELSE u.total - u.output - u.creation - u.read
ChargedOutput(u) == IF u.output # None THEN u.output ELSE u.total - u.input - u.creation - u.read

\* The reports of one stream agree on whether the cached tokens are given apart.
Consistent == details \in {{FALSE}, {TRUE}}

\* What is charged is what was asked and answered.
TrueCounts ==
  LET u == loop.usage IN
  /\ ChargedInput(u) + u.creation + u.read = Prompt
  /\ ChargedOutput(u) = made.tokens

\* A stream of consistent reports is settled exactly only at the true token counts: no
\* provisional number, no count taken before the last token, no report that cannot be
\* (stream.go:297-304).
ExactIsTrue == outcome # None /\ outcome.exact /\ Consistent => TrueCounts

\* A client that hangs up or stops reading, at whatever moment, is never held against a
\* channel whose stream is flawless and consistent (stream.go:186-188, 243-248, 277-282).
FlawlessNotBlamed ==
  outcome # None /\ made.flawless /\ Consistent => outcome.kind # "channel_error"

\* Whatever the provider sends and wherever the client is cut off, the converted stream
\* keeps the client's protocol: calls are introduced before their arguments, deltas
\* belong to open blocks, all blocks are stopped at the end (stream_decode.go,
\* stream_encode.go of both adapters).
ProtocolKept == made.started => ~view.broken

\* A stream that counts as a success reached the client whole, and of a flawless and consistent
\* one an OpenAI client is told the very numbers that are charged (stream_encode.go:82-104).
SuccessIsWhole ==
  outcome # None /\ outcome.kind = "success" /\ ~passthrough =>
    /\ view.ended /\ view.deltas = made.deltas
    /\ client = "openai" /\ made.flawless /\ Consistent =>
         /\ view.usage # None
         /\ view.usage.completion = loop.usage.output
         /\ view.usage.prompt = loop.usage.input + loop.usage.creation + loop.usage.read

\* The client's side of the stream: well-formed always, and whole when it is a success.
ToldWhole == ProtocolKept /\ SuccessIsWhole
=============================================================================

------------------------------ MODULE Exchange ------------------------------
(***************************************************************************)
(* A request and its answer on their way through the gateway: the body     *)
(* that is sent, the bytes that come back, the stream that is told on, and *)
(* the conversion of messages.  They share no state in these models: a     *)
(* behaviour is one of them at work, the others rest.                      *)
(***************************************************************************)
EXTENDS Relay

CONSTANTS ModelLimit, Asked,                            \* RequestBody
          Word, Calls, Image, MaxMessages, MaxBlocks,   \* Messages
          MaxSize, MaxFeed                              \* SSEReader

VARIABLES part,
          format, body, strict, phase, hold, raw, target, sent,
          tongue, system, said, told,
          kind, feed, arrived, ending, fetched, failed, pos, peeking, line, buf, first, out, ended

streamVars  == <<channel, client, details, passthrough, dec, enc, loop, outcome, made, view>>
bodyVars    == <<format, body, strict, phase, hold, raw, target, sent>>
messageVars == <<tongue, system, said, told>>
readerVars  == <<kind, feed, arrived, ending, fetched, failed, pos, peeking, line, buf, first, out, ended>>
allVars     == <<part, streamVars, messageVars, readerVars, bodyVars>>

B == INSTANCE RequestBody
T == INSTANCE Messages WITH format <- tongue
S == INSTANCE SSEReader

-----------------------------------------------------------------------------
(* One part at work.                                                       *)

Streams  == part = "stream"   /\ UNCHANGED <<part, messageVars, readerVars, bodyVars>>
Converts == part = "messages" /\ UNCHANGED <<part, streamVars, readerVars, bodyVars>>
Reads    == part = "reader"   /\ UNCHANGED <<part, streamVars, messageVars, bodyVars>>
Sends    == part = "body"     /\ UNCHANGED <<part, streamVars, messageVars, readerVars>>

\* A part at rest has one format and no bytes.
ExchangeInit ==
  /\ part \in {"stream", "messages", "reader", "body"}
  /\ IF part = "stream" THEN TRUE ELSE channel = "anthropic" /\ client = "anthropic" /\ passthrough = TRUE
  /\ Init
  /\ IF part = "messages" THEN TRUE ELSE tongue = "openai"
  /\ T!Init
  /\ IF part = "reader" THEN TRUE ELSE kind = "whole" /\ feed = <<>>
  /\ S!Init
  /\ IF part = "body" THEN TRUE
     ELSE format = "openai" /\ strict = TRUE
          /\ body = [B!NoBody EXCEPT !.extra = TRUE]
  /\ B!Init

ExchangeNext == \/ Streams  /\ Next
                \/ Converts /\ T!Next
                \/ Reads    /\ S!Next
                \/ Sends    /\ B!Next

ExchangeSpec == ExchangeInit /\ [][ExchangeNext]_allVars

-----------------------------------------------------------------------------
(* The properties of the parts; Relay's have their own names.              *)

\* The variables of the parts have their types.
TypesOK == TypeOK /\ S!TypeOK /\ B!TypeOK

\* RequestBody: every provider is told the limit of the hold, and what the client said.
BodySound == B!BodySound

\* Messages: what was said is what is told.
ConversationKept == T!ConversationKept

\* SSEReader: what a provider sends reaches the decoders whole and in its pieces.
FramingKept == S!FramingKept
=============================================================================

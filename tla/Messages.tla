------------------------------ MODULE Messages ------------------------------
(***************************************************************************)
(* What is said in one format, told in the other.  A request for a channel *)
(* of the other format, and an answer that is not passed through, is parsed*)
(* into the canonical model and built anew (src/internal/adapter,          *)
(* src/internal/canonical).  A request for a channel of the client's own   *)
(* format is not built anew: RequestBody has what becomes of it.           *)
(* OpenAI has flat messages, with tool calls beside the text and a message *)
(* for each tool's result; Anthropic has messages of blocks, a system      *)
(* prompt apart, and results in the user's messages.  The canonical model  *)
(* has Anthropic's blocks, and instructions in the order of OpenAI's.      *)
(* A text is a sequence of words, so that texts can be joined.             *)
(***************************************************************************)
EXTENDS Naturals, Sequences, SequencesExt

CONSTANTS Word, Calls, Image,   \* a word, calls of tools with their arguments, an image
          MaxMessages,          \* bound: messages of a request in either format
          MaxBlocks             \* bound: blocks of a message

VARIABLES format,  \* the format of what is said
          system,  \* Anthropic's system prompt
          said,    \* the messages
          told     \* what becomes of them: the format, and the messages or the answer

vars == <<format, system, said, told>>

Formats == {"openai", "anthropic"}
Nothing == [kind |-> "nothing"]

Text(words)    == [type |-> "text", text |-> words]
Picture        == [type |-> "image", image |-> Image]
Thinking       == [type |-> "thinking", text |-> <<Word>>]
ToolUse(call)  == [type |-> "tool_use", call |-> call]
Blank          == [type |-> "none"]
ToolResult(call, result, error) ==
  [type |-> "tool_result", call |-> call, result |-> result, error |-> error]

\* What is made of each member of a sequence, one after the other, or of those that are meant.
Each(seq, Op(_))    == FlattenSeq([i \in DOMAIN seq |-> Op(seq[i])])
Those(seq, Test(_)) == Each(seq, LAMBDA x : IF Test(x) THEN <<x>> ELSE <<>>)

Of(types, blocks) == Those(blocks, LAMBDA b : b.type \in types)

\* blocksToText and contentToString: the words of the texts, joined.
Words(blocks) == Each(blocks, LAMBDA b : IF b.type = "text" THEN b.text ELSE <<>>)

\* A text, unless it is empty.
TextOrNone(words) == IF words = <<>> THEN <<>> ELSE <<Text(words)>>

-----------------------------------------------------------------------------
(* OpenAI: [role, content, calls, of], of a sequence of parts, calls of an *)
(* assistant, and the call a tool answers.                                 *)

Flat(role, content, calls, of) == [role |-> role, content |-> content, calls |-> calls, of |-> of]
Say(role, content) == Flat(role, content, <<>>, <<>>)

Uses(calls) == [i \in DOMAIN calls |-> ToolUse(calls[i])]

\* A tool's result joins the message of a user before it.
WithResult(out, m) ==
  LET result == ToolResult(m.of[1], <<Text(Words(m.content))>>, FALSE) IN
  IF out # <<>> /\ Last(out).role = "user"
  THEN Front(out) \o << [role |-> "user", content |-> Append(Last(out).content, result)] >>
  ELSE Append(out, [role |-> "user", content |-> <<result>>])

\* One message of a request.
Parsed(out, m) ==
  CASE m.role = "tool"      -> WithResult(out, m)
    [] m.role = "user"      -> Append(out, [role |-> "user", content |-> m.content])
    [] m.role = "assistant" -> Append(out, [role |-> "assistant",
                                            content |-> TextOrNone(Words(m.content)) \o Uses(m.calls)])
    [] OTHER -> Append(out, [role |-> m.role, content |-> TextOrNone(Words(m.content))])

\* ParseRequest: no message is promoted to the system prompt.
ParseFlat(messages) ==
  LET out[k \in 0 .. Len(messages)] == IF k = 0 THEN <<>> ELSE Parsed(out[k - 1], messages[k])
  IN out[Len(messages)]

CallsOf(blocks) == Each(blocks, LAMBDA b : IF b.type = "tool_use" THEN <<b.call>> ELSE <<>>)

\* buildAssistantMessage: texts are joined, thinking is dropped.
AssistantMessage(blocks) == Flat("assistant", TextOrNone(Words(blocks)), CallsOf(blocks), <<>>)

\* The answer of a tool.
ToolMessage(b) == Flat("tool", TextOrNone(Words(b.result)), <<>>, <<b.call>>)

ToolMessages(blocks) == Each(blocks, LAMBDA b : IF b.type = "tool_result" THEN <<ToolMessage(b)>> ELSE <<>>)

\* Mutant: a message of results has no words of its own.
UserMessagesEither(blocks) ==
  IF ToolMessages(blocks) = <<>> THEN <<Say("user", Of({"text", "image"}, blocks))>> ELSE ToolMessages(blocks)

\* buildUserMessages: the texts and images in one message, then a message for each result.
UserMessages(blocks) ==
  LET parts == Of({"text", "image"}, blocks)
  IN (IF parts = <<>> THEN <<>> ELSE <<Say("user", parts)>>) \o ToolMessages(blocks)

\* What becomes of one canonical message.
BuiltFlat(m) ==
  CASE m.role = "user"      -> UserMessages(m.content)
    [] m.role = "assistant" -> <<AssistantMessage(m.content)>>
    [] OTHER                -> <<Say(m.role, TextOrNone(Words(m.content)))>>

BuildFlat(prompt, messages) ==
  (IF Words(prompt) = <<>> THEN <<>> ELSE <<Say("system", <<Text(Words(prompt))>>)>>)
  \o Each(messages, BuiltFlat)

-----------------------------------------------------------------------------
(* Anthropic: a system prompt and [role, content] with blocks.             *)

\* blockToCanonical: in a tool's result only texts and images are known, and a block of
\* an unknown type is left without anything, even its type: blank.
Block(b) ==
  IF b.type = "tool_result"
  THEN [b EXCEPT !.result = Of({"text", "image"}, @)]
  ELSE IF b.type = "other" THEN Blank ELSE b

Blocks(blocks) == [i \in DOMAIN blocks |-> Block(blocks[i])]

ParseBlocks(messages) ==
  [i \in DOMAIN messages |->
     [role |-> IF messages[i].role = "assistant" THEN "assistant" ELSE "user",
      content |-> Blocks(messages[i].content)]]

Conversation(m) == m.role \in {"user", "assistant"}

\* Mutant: instructions are taken to the system prompt from wherever they are.
InstructionsInOrderAny(messages) == TRUE

\* Instructions can only be told where they come before the conversation.
InstructionsInOrder(messages) ==
  \A i, j \in DOMAIN messages : i < j /\ Conversation(messages[i]) => Conversation(messages[j])

\* BuildRequest: instructions join the system prompt.
BuildSystem(prompt, messages) ==
  prompt \o Each(messages, LAMBDA m : IF Conversation(m) THEN <<>> ELSE m.content)

\* The others stay; canonicalToBlock writes the fields of a block back under their names.
BuildBlocks(messages) == Those(messages, Conversation)

-----------------------------------------------------------------------------
(* Answers: blocks and a reason to stop.                                   *)

\* mapFinishReasonToCanonical and mapStopReasonToCanonical.
Reason(finish) ==
  CASE finish \in {"stop", "end_turn"}        -> "end_turn"
    [] finish \in {"length", "max_tokens"}    -> "max_tokens"
    [] finish \in {"tool_calls", "tool_use"}  -> "tool_use"
    [] finish = "stop_sequence"               -> "stop"
    [] finish = "content_filter"              -> "error"
    [] OTHER                                  -> "end_turn"

\* Mutant: a call of tools stops like anything else.
FinishOfPlain(to, reason) ==
  IF reason = "max_tokens" THEN (IF to = "openai" THEN "length" ELSE "max_tokens")
  ELSE IF to = "openai" THEN "stop" ELSE "end_turn"

\* mapStopReasonToOpenAI and mapStopReasonToWire: Anthropic has no reason for an error.
FinishOf(to, reason) ==
  IF to = "openai"
  THEN CASE reason \in {"end_turn", "stop"} -> "stop"
         [] reason = "max_tokens"           -> "length"
         [] reason = "tool_use"             -> "tool_calls"
         [] reason = "error"                -> "content_filter"
  ELSE CASE reason \in {"end_turn", "error"} -> "end_turn"
         [] reason = "stop"                  -> "stop_sequence"
         [] OTHER                            -> reason

ParseAnswer(answer) ==
  IF format = "openai"
  THEN TextOrNone(Words(answer.content)) \o Uses(answer.calls)
  ELSE Blocks(answer.content)

BuildAnswer(to, blocks, reason) ==
  IF to = "openai"
  THEN [content |-> TextOrNone(Words(blocks)), calls |-> CallsOf(blocks), finish |-> FinishOf(to, reason)]
  ELSE [content |-> blocks, finish |-> FinishOf(to, reason)]

-----------------------------------------------------------------------------
(* A client says one thing after the other, and the whole is sent on; or a *)
(* provider answers.                                                       *)

UpTo(n, S) == UNION { [1 .. k -> S] : k \in 0 .. n }
SomeWords  == <<Word>>
Results    == { <<Text(SomeWords)>>, <<Text(SomeWords), Picture>>, <<Text(SomeWords), [type |-> "other"]>> }

\* Flat messages: of those who instruct, of a user, of an assistant and of a tool.
FlatMessages ==
  [role : {"system", "developer"}, content : {<<>>, <<Text(SomeWords)>>}, calls : {<<>>}, of : {<<>>}]
  \cup [role : {"user"}, content : UpTo(MaxBlocks, {Text(SomeWords), Picture}) \ {<<>>}, calls : {<<>>}, of : {<<>>}]
  \cup [role : {"assistant"}, content : {<<>>, <<Text(SomeWords)>>}, calls : UpTo(2, Calls), of : {<<>>}]
  \cup [role : {"tool"}, content : {<<Text(SomeWords)>>}, calls : {<<>>}, of : { <<call>> : call \in Calls }]

\* Messages of blocks: what a user, and what an assistant may say.
UserBlocks ==
  {Text(SomeWords), Picture, [type |-> "other"]}
  \cup [type : {"tool_result"}, call : Calls, result : Results, error : BOOLEAN]
AssistantBlocks == {Text(SomeWords), Thinking} \cup [type : {"tool_use"}, call : Calls]

BlockMessages == [role : {"user"}, content : UpTo(MaxBlocks, UserBlocks)]
                 \cup [role : {"assistant"}, content : UpTo(MaxBlocks, AssistantBlocks)]

Init == /\ format \in Formats
        /\ system \in {<<>>, <<Text(SomeWords)>>} /\ (format = "openai" => system = <<>>)
        /\ said = <<>> /\ told = Nothing

Continue == /\ told = Nothing /\ Len(said) < MaxMessages[format]
            /\ \E m \in IF format = "openai" THEN FlatMessages ELSE BlockMessages :
                 said' = Append(said, m)
            /\ UNCHANGED <<format, system, told>>

\* ParseRequest, then BuildRequest for a channel of the other format.
Forward(to) ==
  LET canonical == IF format = "openai" THEN ParseFlat(said) ELSE ParseBlocks(said) IN
  /\ told = Nothing /\ to # format
  /\ told' = IF to = "openai"
             THEN [kind |-> "request", to |-> to, system |-> <<>>, messages |-> BuildFlat(system, canonical)]
             ELSE IF ~InstructionsInOrder(canonical) THEN [kind |-> "refused"]
             ELSE [kind |-> "request", to |-> to, system |-> BuildSystem(system, canonical),
                   messages |-> BuildBlocks(canonical)]
  /\ UNCHANGED <<format, system, said>>

Answers ==
  IF format = "openai"
  THEN [content : {<<>>, <<Text(SomeWords)>>}, calls : UpTo(2, Calls),
        finish : {"stop", "length", "tool_calls", "content_filter"}]
  ELSE [content : UpTo(3, AssistantBlocks),
        finish : {"end_turn", "max_tokens", "tool_use", "stop_sequence"}]

\* ParseResponse of a provider's answer, then BuildResponse for a client of either format: one
\* of the provider's own has asked for a model that the channel renames.
Answer(to) ==
  /\ told = Nothing /\ said = <<>> /\ system = <<>>
  /\ \E answer \in Answers :
       told' = [kind |-> "answer", to |-> to, of |-> answer,
                answer |-> BuildAnswer(to, ParseAnswer(answer), Reason(answer.finish))]
  /\ UNCHANGED <<format, system, said>>

Next == Continue \/ \E to \in Formats : Forward(to) \/ Answer(to)

Spec == Init /\ [][Next]_vars

-----------------------------------------------------------------------------
(* Properties.  What a reader of either format finds, in order: who says a *)
(* word or shows an image, calls, and results.                             *)

Finds(role, b) ==
  CASE b.type = "text"        -> [i \in DOMAIN b.text |-> <<role, b.text[i]>>]
    [] b.type = "image"       -> << <<role, b.image>> >>
    [] b.type = "tool_use"    -> << <<"call", b.call>> >>
    [] b.type = "tool_result" -> << <<"result", b.call, Words(b.result)>> >>
    [] OTHER                  -> <<>>

FindsAll(role, blocks) == Each(blocks, LAMBDA b : Finds(role, b))

ReadFlat(m) ==
  CASE m.role = "tool" -> << <<"result", m.of[1], Words(m.content)>> >>
    [] m.role \in {"system", "developer"} -> FindsAll("instruction", m.content)
    [] OTHER -> FindsAll(m.role, m.content) \o FindsAll(m.role, Uses(m.calls))

ReadsFlat(messages) == Each(messages, ReadFlat)

ReadsBlocks(prompt, messages) ==
  FindsAll("instruction", prompt) \o Each(messages, LAMBDA m : FindsAll(m.role, m.content))

Meant    == IF format = "openai" THEN ReadsFlat(said) ELSE ReadsBlocks(system, said)
Received == IF told.to = "openai" THEN ReadsFlat(told.messages) ELSE ReadsBlocks(told.system, told.messages)

Forwarded(from, to) == format = from /\ told.kind = "request" /\ told.to = to

\* What is of some kinds, and what is about one call.
Only(kinds, reading) == Those(reading, LAMBDA e : e[1] \in kinds)
About(call, reading) == Those(reading, LAMBDA e : e[1] \in {"call", "result"} /\ e[2] = call)

\* From OpenAI to Anthropic everything is found in the order it was said, or the request is
\* refused; it is refused only when an instruction comes after the conversation has begun
\* (anthropic/request.go:92-98, docs/modules.md:52).
OrderOrRefused ==
  /\ Forwarded("openai", "anthropic") => Received = Meant
  /\ told.kind = "refused" =>
       \E i, j \in DOMAIN said :
         i < j /\ said[i].role \notin {"system", "developer"} /\ said[j].role \in {"system", "developer"}

\* From Anthropic to OpenAI nothing that was said, shown, called or returned is lost or
\* changes places with its like, and no result comes before its call that came after it
\* (openai/request_build.go:86-159, docs/modules.md:18).
ToolsPaired ==
  Forwarded("anthropic", "openai") =>
    /\ \A kinds \in { {"call"}, {"result"}, {"instruction", "user", "assistant"} } :
         Only(kinds, Received) = Only(kinds, Meant)
    /\ \A c \in Calls : About(c, Received) = About(c, Meant)

AnswerCalls(from, answer)  == IF from = "openai" THEN answer.calls ELSE CallsOf(answer.content)

\* An answer is told with its words and its calls in order, and a client is told to run
\* tools, or that the answer was cut short, exactly when the provider said so
\* (openai/response.go:50-127, anthropic/response.go:37-82).
AnswerKept ==
  told.kind = "answer" =>
    /\ Words(told.answer.content) = Words(told.of.content)
    /\ AnswerCalls(told.to, told.answer) = AnswerCalls(format, told.of)
    /\ told.answer.finish \in {"tool_calls", "tool_use"} <=> told.of.finish \in {"tool_calls", "tool_use"}
    /\ told.answer.finish \in {"length", "max_tokens"} <=> told.of.finish \in {"length", "max_tokens"}

\* What was said is what is told in the other format, and an answer in either.
ConversationKept == OrderOrRefused /\ ToolsPaired /\ AnswerKept
=============================================================================

---------------------------- MODULE RequestBody ----------------------------
(***************************************************************************)
(* The body of a request on its way to the providers                       *)
(* (src/internal/forwarder/request_normalize.go, output_limit.go and the   *)
(* beginnings of forward and of an attempt).  What the hold was priced     *)
(* with must be what every provider is told, in the one field it obeys,    *)
(* whichever fields the client used and whichever candidates are tried.    *)
(*                                                                         *)
(* A field that holds a number is a set: empty if it is absent, of Null if *)
(* it is null.                                                             *)
(***************************************************************************)
EXTENDS Integers

CONSTANTS ModelLimit,  \* the output limit of the model
          Asked        \* bound: limits a client asks for

\* What the proofs ask of the constants: limits are numbers, as the prices and the parsers have them.
ConstantsOK == ModelLimit \in Nat /\ Asked \subseteq Nat

VARIABLES format,   \* the client's
          body,     \* what the client sent
          strict,   \* the resolver is strict (release mode)
          phase,    \* "new", "refused" or "accepted"
          hold,     \* the output limit the hold was priced with
          raw,      \* forwardCtx.rawBody
          target,   \* the candidate of the latest attempt
          sent      \* the body of the latest attempt

vars == <<format, body, strict, phase, hold, raw, target, sent>>

Null    == -1
Limits  == {{}, {Null}} \cup {{n} : n \in Asked}
Formats == {"openai", "anthropic"}
Fields  == {"max_tokens", "max_completion_tokens"}

\* usage: stream_options.include_usage.  odd: a protected name in another case.  extra: a
\* field the gateway does not know.
Body == [model : {"public", "upstream"}, max_tokens : Limits \cup {{ModelLimit}},
         max_completion_tokens : Limits \cup {{ModelLimit}}, stream : BOOLEAN, usage : {"none", "on", "off"},
         n : {"absent", "one", "two"}, odd : BOOLEAN, extra : BOOLEAN]

\* A candidate and what the resolver knows of it, by channel and by upstream model.
Target == [format : Formats, model : {"public", "upstream"},
           byChannel : SUBSET Fields, byModel : SUBSET Fields]

NoBody   == [model |-> "public", max_tokens |-> {}, max_completion_tokens |-> {}, stream |-> FALSE,
             usage |-> "none", n |-> "absent", odd |-> FALSE, extra |-> FALSE]
NoTarget == [format |-> "openai", model |-> "public", byChannel |-> {}, byModel |-> {}]

Given(field) == field \ {Null}

Init == /\ format \in Formats /\ strict \in BOOLEAN
        /\ body \in [model : {"public"}, max_tokens : Limits, max_completion_tokens : Limits, stream : BOOLEAN,
                     usage : {"none", "on", "off"}, n : {"absent", "one", "two"}, odd : BOOLEAN, extra : {TRUE}]
        /\ phase = "new" /\ hold = 0 /\ raw = NoBody /\ target = NoTarget /\ sent = NoBody

-----------------------------------------------------------------------------
(* What arrives.                                                           *)

\* Adapter.ParseRequest of either format: the two names of one limit must not disagree.
Parses == IF format = "openai"
          THEN /\ body.n # "two"
               /\ \A a \in Given(body.max_tokens), b \in Given(body.max_completion_tokens) : a = b
          ELSE \A a \in Given(body.max_tokens) : a > 0

Requested == IF format = "openai" /\ Given(body.max_completion_tokens) # {}
             THEN Given(body.max_completion_tokens) ELSE Given(body.max_tokens)

\* Pricing.NormalizeMaxOutput: the model's limit where the client has none.
OutputLimit == IF Requested = {} THEN {ModelLimit} ELSE Requested \cap 1 .. ModelLimit

\* Mutant: the usage of a stream is asked for only where the client has no wish.
NormalizedPolite(limit) ==
  LET completion == Given(body.max_completion_tokens) # {} IN
  IF format = "openai"
  THEN [body EXCEPT !.max_completion_tokens = IF completion THEN {limit} ELSE {},
                    !.max_tokens = IF completion THEN {} ELSE {limit},
                    !.usage = IF body.stream /\ @ = "none" THEN "on" ELSE @]
  ELSE [body EXCEPT !.max_tokens = {limit}]

\* normalizePassthroughRequest: the fields that matter are written over, the others stay.
Normalized(limit) ==
  LET completion == Given(body.max_completion_tokens) # {} IN
  IF format = "openai"
  THEN [body EXCEPT !.max_completion_tokens = IF completion THEN {limit} ELSE {},
                    !.max_tokens = IF completion THEN {} ELSE {limit},
                    !.usage = IF body.stream THEN "on" ELSE @]
  ELSE [body EXCEPT !.max_tokens = {limit}]

\* Mutant: names are compared as they are written.
AcceptsOdd == Parses /\ OutputLimit # {}

Accepts == Parses /\ OutputLimit # {} /\ ~body.odd

\* forward up to the hold.
Accept ==
  /\ phase = "new"
  /\ IF Accepts
     THEN \E limit \in OutputLimit :
            phase' = "accepted" /\ hold' = limit /\ raw' = Normalized(limit)
     ELSE phase' = "refused" /\ UNCHANGED <<hold, raw>>
  /\ UNCHANGED <<format, body, strict, target, sent>>

-----------------------------------------------------------------------------
(* An attempt.                                                             *)

\* BuildRequest of the candidate's format, from the parsed request.
Built(t) == [NoBody EXCEPT !.model = t.model, !.max_tokens = {hold}, !.stream = body.stream,
                           !.usage = IF t.format = "openai" /\ body.stream THEN "on" ELSE "none"]

\* canPassthrough, rewriteNormalizedRequestModel, or the other format.
Candidate(t) == IF t.format = format THEN [raw EXCEPT !.model = t.model] ELSE Built(t)

\* openAIOutputLimitFallback: the name the client has used.
Fallback(b) == IF Given(b.max_completion_tokens) # {} THEN "max_completion_tokens" ELSE "max_tokens"

\* Mutant: the client's name goes first.
ResolveClient(t, b) == IF Given(b.max_completion_tokens) # {} THEN {Fallback(b)}
                       ELSE IF t.byChannel # {} THEN t.byChannel ELSE t.byModel \cup {Fallback(b)}

\* OpenAIOutputLimitResolver.Resolve: the field of the channel, else of the model; strict mode
\* does not guess.
Resolve(t, b) == CASE t.byChannel # {}                                 -> t.byChannel
                   [] t.byChannel = {} /\ t.byModel # {}               -> t.byModel
                   [] t.byChannel = {} /\ t.byModel = {} /\ strict     -> {}
                   [] OTHER                                            -> {Fallback(b)}

\* Mutant: the other name is left in.
PatchedBoth(b, field) ==
  IF field = "max_tokens" THEN [b EXCEPT !.max_tokens = {hold}]
  ELSE [b EXCEPT !.max_completion_tokens = {hold}]

\* patchOpenAIOutputLimit.
Patched(b, field) ==
  [b EXCEPT !.max_tokens = IF field = "max_tokens" THEN {hold} ELSE {},
            !.max_completion_tokens = IF field = "max_completion_tokens" THEN {hold} ELSE {}]

\* forwardStream and forwardNonStream up to MarkInFlight; without a field the candidate is
\* skipped.
Attempt(t) ==
  /\ phase = "accepted"
  /\ target' = t
  /\ IF t.format = "openai"
     THEN IF Resolve(t, Candidate(t)) = {} THEN sent' = NoBody
          ELSE \E field \in Resolve(t, Candidate(t)) : sent' = Patched(Candidate(t), field)
     ELSE sent' = Candidate(t)
  /\ UNCHANGED <<format, body, strict, phase, hold, raw>>

\* A policy names one field, or none.
Policies == {{}} \cup {{f} : f \in Fields}

Next == \/ Accept
        \/ \E t \in [format : Formats, model : {"public", "upstream"}, byChannel : Policies, byModel : Policies] :
             Attempt(t)

Spec == Init /\ [][Next]_vars

-----------------------------------------------------------------------------
(* Correctness.                                                            *)

TypeOK == /\ body \in Body /\ raw \in Body /\ sent \in Body /\ target \in Target
          /\ hold \in 0 .. ModelLimit

\* The fields of an OpenAI body that limit the output.
LimitFields(b) == {f \in Fields : b[f] # {}}

\* LimitEnforced: what the provider is told to stop at is what the hold was priced with, in
\* the one field the policy says it obeys; without a policy in the one the client used, and
\* in strict mode nothing is sent (normalizePassthroughRequest, Resolve,
\* patchOpenAIOutputLimit).
LimitEnforced ==
  sent # NoBody =>
    IF target.format = "openai"
    THEN /\ \E f \in Fields : LimitFields(sent) = {f} /\ sent[f] = {hold}
         /\ target.byChannel # {} => LimitFields(sent) = target.byChannel
         /\ target.byChannel = {} /\ target.byModel # {} => LimitFields(sent) = target.byModel
         /\ target.byChannel = {} /\ target.byModel = {} =>
              /\ ~strict
              /\ format = "openai" /\ Given(body.max_completion_tokens) # {} =>
                   LimitFields(sent) = {"max_completion_tokens"}
    ELSE sent.max_tokens = {hold}

\* SentAsMeant: the body asks for the upstream's model, streams when the client's does, tells
\* its usage when it streams, has no protected name in another case, and in the client's own
\* format keeps what the gateway does not know.
SentAsMeant ==
  sent # NoBody =>
    /\ sent.model = target.model /\ sent.stream = body.stream /\ ~sent.odd
    /\ target.format = "openai" /\ body.stream => sent.usage = "on"
    /\ target.format = format => sent.extra
    /\ target.format = "openai" => sent.n # "two"

\* BodySound: the two together.
BodySound == LimitEnforced /\ SentAsMeant
=============================================================================

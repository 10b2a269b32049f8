------------------------------ MODULE Gateway ------------------------------
(***************************************************************************)
(* The life of chat requests in one gateway process (src/internal/         *)
(* forwarder), composed with the billing ledger (module Ledger), the       *)
(* channels' circuit breakers (module BreakerRules), the upstream          *)
(* providers, and the recovery worker of src/cmd/linapi/main.go.           *)
(*                                                                         *)
(* A request is a goroutine: every ledger transaction, every breaker call  *)
(* and every upstream exchange it makes is one step, and the steps of      *)
(* different requests, the worker, clients that hang up and the death of   *)
(* the process interleave.  Each reservation belongs to one request, so    *)
(* requests are the reservation IDs.                                       *)
(***************************************************************************)
EXTENDS Integers, Sequences, FiniteSets, SequencesExt

CONSTANTS Requests, Users, Channels, Openings, Amounts, Costs, NoUser, NoChannel,
          FailureThreshold, HalfOpenMaxProbes,
          Recorders,    \* how often Billing.Settle tries to record (3 in the code)
          MaxCrashes,   \* bound: times the process dies
          Faults        \* which of "database", "cancel", "panic" and "stall" happen

\* What the proofs ask of the constants; NewBreaker replaces values that are not positive.
GatewayOK == /\ IsFiniteSet(Requests) /\ IsFiniteSet(Channels)
             /\ FailureThreshold \in Nat \ {0} /\ HalfOpenMaxProbes \in Nat \ {0}

\* Module Ledger asks the same of the sums it is given.
SumsOK == Openings \subseteq Nat /\ Amounts \subseteq Nat \ {0} /\ Costs \subseteq Nat /\ MaxCrashes \in Nat

ASSUME GatewayAssumption == GatewayOK
ASSUME SumsAssumption    == SumsOK

VARIABLES balance, version, enabled, row, entries, usage, deposited,   \* the database
          breaker,     \* [Channels -> Breaker], memory of the process
          request,     \* [Requests -> the locals of Forwarder.forward]
          cancelled,   \* requests whose client context is done
          generated,   \* history: the channels that ran the model, per request
          worker,      \* the recovery worker's run
          crashes      \* deaths of the process so far

L == INSTANCE Ledger WITH Ids <- Requests, Deltas <- {}, MaxVersion <- 0
B == INSTANCE BreakerRules

database == <<balance, version, enabled, row, entries, usage, deposited>>
vars == <<database, breaker, request, cancelled, generated, worker, crashes>>

Places  == {"start", "reserve", "next", "prepare", "mark", "unmark", "send", "undial", "lost",
            "rejected_channel", "rejected_request", "body", "record", "finalize", "verdict",
            "defer", "done", "dead"}
Answers == {"none", "no_channel", "no_quota", "internal_error", "unavailable", "rejected",
            "held", "upstream_error", "content", "bad_gateway"}

\* tryOutcome; spent stands for its field consumed and paid for settled.
Outcome == [kind : {"none", "success", "client_error", "channel_error", "neutral"},
            spent : BOOLEAN, paid : BOOLEAN, committed : BOOLEAN]

\* What forward and tryCandidate hold: the candidates not yet tried, the current
\* channel and the generation of its permit, whether a channel's rejection is
\* kept to be relayed (lastUpstreamError), the settlement under way, the outcome
\* of the attempt, and the two flags the deferred refund reads.
Request == [at : Places, user : Users \cup {NoUser}, amount : Nat, stream : BOOLEAN,
            candidates : Seq(Channels), channel : Channels \cup {NoChannel},
            generation : Nat, kept : BOOLEAN, cost : Nat, tries : Nat, outcome : Outcome,
            consumed : BOOLEAN, settled : BOOLEAN, answer : Answers]

NoOutcome == [kind |-> "none", spent |-> FALSE, paid |-> FALSE, committed |-> FALSE]

NewRequest == [at |-> "start", user |-> NoUser, amount |-> 0, stream |-> FALSE,
               candidates |-> <<>>, channel |-> NoChannel,
               generation |-> 0, kept |-> FALSE, cost |-> 0, tries |-> 0, outcome |-> NoOutcome,
               consumed |-> FALSE, settled |-> FALSE, answer |-> "none"]

Idle == [running |-> FALSE, finalize |-> {}, refund |-> {}]

Init == /\ L!Init
        /\ breaker = [ch \in Channels |-> B!NewBreaker]
        /\ request = [q \in Requests |-> NewRequest]
        /\ cancelled = {}
        /\ generated = [q \in Requests |-> {}]
        /\ worker = Idle
        /\ crashes = 0

-----------------------------------------------------------------------------
(* Helpers.                                                                *)

At(q, place) == request[q].at = place

Becomes(q, locals) == request' = [request EXCEPT ![q] = locals]

\* forward returns; its locals are gone.
Ends(q, answer) ==
  Becomes(q, [NewRequest EXCEPT !.at = "done", !.answer = answer,
                                !.consumed = request[q].consumed, !.settled = request[q].settled])

GoTo(q, place) == Becomes(q, [request[q] EXCEPT !.at = place])

\* A reply of the database other than "error", unless it may fail.
Possible(reply) == reply = "error" => "database" \in Faults

\* tryCandidate returns this outcome.
Returns(q, kind, spent, committed) ==
  Becomes(q, [request[q] EXCEPT !.at = "verdict", !.outcome =
    [kind |-> kind, spent |-> spent, paid |-> FALSE, committed |-> committed]])

LedgerOnly == UNCHANGED <<breaker, cancelled, generated, worker, crashes>>
LocalOnly  == UNCHANGED database /\ LedgerOnly

-----------------------------------------------------------------------------
(* Forwarder.forward up to the candidate loop.                             *)

\* Checks, limits and Router.Select: the ready channels in some order.
Select(q) ==
  /\ At(q, "start")
  /\ LET ready == {ch \in Channels : B!Ready(breaker[ch])} IN
     IF ready = {}
     THEN Ends(q, "no_channel")
     ELSE \E u \in Users, a \in Amounts, stream \in BOOLEAN, order \in SetToSeqs(ready) :
            Becomes(q, [request[q] EXCEPT !.at = "reserve", !.user = u, !.amount = a,
                                          !.stream = stream, !.candidates = order])
  /\ LocalOnly

\* The one transaction that runs under the client's own context, so it may also be
\* cut off by the client.  An error leaves no deferred refund behind, even if the
\* hold was committed.
Reserve(q) ==
  /\ At(q, "reserve")
  /\ \E reply \in L!Replies :
       /\ Possible(reply) \/ q \in cancelled
       /\ L!Reserve(q, request[q].user, request[q].amount, reply)
       /\ CASE reply = "ok"      -> GoTo(q, "next")
            [] reply = "refused" -> Ends(q, "no_quota")
            [] OTHER             -> Ends(q, "internal_error")
  /\ LedgerOnly

\* The head of the loop: stop when the client is gone or nobody is left,
\* otherwise ask the candidate's breaker and skip it if it refuses.
NextCandidate(q) ==
  /\ At(q, "next")
  /\ LET rq == request[q]
         ch == Head(rq.candidates)
     IN
     \/ /\ q \in cancelled
        /\ GoTo(q, "defer")
        /\ UNCHANGED breaker
     \/ /\ q \notin cancelled /\ rq.candidates = <<>>
        /\ Becomes(q, [rq EXCEPT !.at = "defer",
             !.answer = IF rq.kept THEN "rejected" ELSE "unavailable"])
        /\ UNCHANGED breaker
     \/ /\ q \notin cancelled /\ rq.candidates # <<>> /\ ~B!Ready(breaker[ch])
        /\ Becomes(q, [rq EXCEPT !.candidates = Tail(@)])
        /\ UNCHANGED breaker
     \/ /\ q \notin cancelled /\ rq.candidates # <<>> /\ B!Ready(breaker[ch])
        /\ breaker' = [breaker EXCEPT ![ch] = B!Admitted(@)]
        /\ Becomes(q, [rq EXCEPT !.at = "prepare", !.candidates = Tail(@), !.channel = ch,
                                 !.generation = breaker'[ch].generation])
  /\ UNCHANGED <<database, cancelled, generated, worker, crashes>>

-----------------------------------------------------------------------------
(* forwardNonStream and forwardStream: one attempt.                        *)

\* Building the upstream request is local; it may fail, or find the client gone.
Prepare(q) ==
  /\ At(q, "prepare")
  /\ \/ q \in cancelled /\ Returns(q, "neutral", FALSE, FALSE)
     \/ Returns(q, "channel_error", FALSE, FALSE)
     \/ GoTo(q, "mark")
  /\ LocalOnly

\* The reservation is in_flight before anything is sent.
Mark(q) ==
  /\ At(q, "mark")
  /\ \E reply \in L!Replies :
       /\ Possible(reply)
       /\ L!MarkInFlight(q, request[q].channel, reply)
       /\ GoTo(q, IF reply = "ok" THEN "send" ELSE "unmark")
  /\ LedgerOnly

\* Nothing was sent, so an uncertain mark may be taken back.
Unmark(q) ==
  /\ At(q, "unmark")
  /\ \E reply \in L!Replies :
       /\ Possible(reply)
       /\ L!ReleaseAttempt(q, reply)
       /\ Returns(q, "channel_error", reply # "ok", FALSE)
  /\ LedgerOnly

\* Mutant: any status below 500 is taken for a success.
SendAnyStatus(q) ==
  /\ At(q, "send")
  /\ \E ran \in BOOLEAN :
       /\ generated' = [generated EXCEPT ![q] = IF ran THEN @ \cup {request[q].channel} ELSE @]
       /\ GoTo(q, "body") \/ GoTo(q, "lost")
  /\ UNCHANGED <<database, breaker, cancelled, worker, crashes>>

\* Mutant: a 5xx is taken for a refusal that consumed nothing.
SendTrusting5xx(q) ==
  /\ At(q, "send")
  /\ \E ran \in BOOLEAN :
       /\ generated' = [generated EXCEPT ![q] = IF ran THEN @ \cup {request[q].channel} ELSE @]
       /\ GoTo(q, "rejected_channel") \/ GoTo(q, "lost") \/ (ran /\ GoTo(q, "body"))
  /\ UNCHANGED <<database, breaker, cancelled, worker, crashes>>

\* The provider: it may run the model unless the call was never dialled or was
\* refused with a status of definitelyUnconsumedStatus; a 2xx proves it did.
Send(q) ==
  /\ At(q, "send")
  /\ \E ran \in BOOLEAN :
       /\ generated' = [generated EXCEPT ![q] = IF ran THEN @ \cup {request[q].channel} ELSE @]
       /\ \/ ~ran /\ GoTo(q, "undial")                       \* ErrUpstreamNotDialed
          \/ ~ran /\ GoTo(q, "rejected_channel")             \* 401, 403, 429
          \/ ~ran /\ GoTo(q, "rejected_request")             \* 400, 402, 404, 405, 413, 415, 422
          \/ GoTo(q, "lost")                                 \* network error, timeout, cancelled
          \/ Becomes(q, [request[q] EXCEPT !.at = "verdict",  \* 3xx, 408, 5xx and other 4xx
               !.answer = "upstream_error", !.outcome =
               [kind |-> "channel_error", spent |-> TRUE, paid |-> FALSE, committed |-> TRUE]])
          \/ ran /\ GoTo(q, "body")                          \* 2xx
  /\ UNCHANGED <<database, breaker, cancelled, worker, crashes>>

\* Mutant: nothing was dialled, so nothing is released.
UndialNoRelease(q) ==
  /\ At(q, "undial")
  /\ Returns(q, IF q \in cancelled THEN "neutral" ELSE "channel_error", FALSE, FALSE)
  /\ LocalOnly

\* Policy refused the address: release, and treat a failed release as lost.
Undial(q) ==
  /\ At(q, "undial")
  /\ \E reply \in L!Replies :
       /\ Possible(reply)
       /\ L!ReleaseAttempt(q, reply)
       /\ IF reply # "ok" THEN GoTo(q, "lost")
          ELSE Returns(q, IF q \in cancelled THEN "neutral" ELSE "channel_error", FALSE, FALSE)
  /\ LedgerOnly

\* Mutant: without a timeout only the client ends an exchange that hangs.
LostNoTimeout(q) ==
  /\ At(q, "lost") /\ q \in cancelled
  /\ Returns(q, "neutral", TRUE, FALSE)
  /\ LocalOnly

\* Whether it was delivered cannot be known: keep the hold, replay nowhere.
Lost(q) ==
  /\ At(q, "lost")
  /\ Returns(q, IF q \in cancelled THEN "neutral" ELSE "channel_error", TRUE, FALSE)
  /\ LocalOnly

\* Mutant: a failed release is taken for a successful one.
RejectedTrusting(q) ==
  /\ At(q, "rejected_channel") \/ At(q, "rejected_request")
  /\ \E reply \in L!Replies :
       /\ Possible(reply)
       /\ L!ReleaseAttempt(q, reply)
       /\ Returns(q, "channel_error", FALSE, FALSE)
  /\ LedgerOnly

\* An explicit refusal takes the attempt back; the channel's own trouble lets the
\* next candidate try, trouble with the request is relayed at once.
Rejected(q) ==
  /\ At(q, "rejected_channel") \/ At(q, "rejected_request")
  /\ \E reply \in L!Replies :
       /\ Possible(reply)
       /\ L!ReleaseAttempt(q, reply)
       /\ \/ reply # "ok" /\ Returns(q, "channel_error", TRUE, FALSE)
          \/ reply = "ok" /\ At(q, "rejected_channel") /\
               Becomes(q, [request[q] EXCEPT !.at = "verdict", !.kept = TRUE, !.outcome =
                 [kind |-> "channel_error", spent |-> FALSE, paid |-> FALSE, committed |-> FALSE]])
          \/ reply = "ok" /\ At(q, "rejected_request") /\
               Becomes(q, [request[q] EXCEPT !.at = "verdict", !.answer = "rejected", !.outcome =
                 [kind |-> "client_error", spent |-> FALSE, paid |-> FALSE, committed |-> FALSE]])
  /\ LedgerOnly

\* Mutant: a usage that is not known is recorded as -1.
SettleAsUnknown(q, kind, committed, answer, cost) ==
  Becomes(q, [request[q] EXCEPT !.at = "record", !.cost = -1, !.answer = answer, !.outcome =
    [kind |-> kind, spent |-> TRUE, paid |-> FALSE, committed |-> committed]])

\* Billing.Settle with the cost it derived; beyond the hold nothing is recorded.
SettleAs(q, kind, committed, answer, cost) ==
  Becomes(q, [request[q] EXCEPT
    !.at = IF cost > request[q].amount THEN "verdict" ELSE "record",
    !.cost = cost, !.tries = 0, !.answer = answer, !.outcome =
    [kind |-> kind, spent |-> TRUE, paid |-> FALSE, committed |-> committed]])

\* The body of a 2xx.  A usage that cannot be relied on costs the whole hold: a
\* response that cannot be parsed, a stream that breaks off or whose client left.
Body(q) ==
  /\ At(q, "body")
  /\ LET amount == request[q].amount IN
     IF request[q].stream
     THEN \/ \E cost \in Costs : SettleAs(q, "success", TRUE, "content", cost)
          \/ \E answer \in {"content", "bad_gateway"} :
               SettleAs(q, "channel_error", TRUE, answer, amount)
          \/ SettleAs(q, "neutral", TRUE, "content", amount)
          \/ SettleAs(q, "neutral", FALSE, "none", amount)
     ELSE \E cost \in Costs \cup {amount}, answer \in {"content", "bad_gateway"} :
            SettleAs(q, "success", TRUE, answer, cost)
  /\ LocalOnly

\* recordConsumptionWithRetry: a failed transaction is tried again unless the
\* time for it is up, a refusal is final.
Record(q) ==
  /\ At(q, "record")
  /\ \E reply \in L!Replies :
       /\ Possible(reply)
       /\ L!RecordConsumption(q, request[q].channel, request[q].cost, reply)
       /\ \/ reply = "ok" /\ GoTo(q, "finalize")
          \/ reply = "error" /\ request[q].tries + 1 < Recorders
               /\ Becomes(q, [request[q] EXCEPT !.tries = @ + 1])
          \/ reply # "ok" /\ GoTo(q, "verdict")
  /\ LedgerOnly

Finalize(q) ==
  /\ At(q, "finalize")
  /\ \E reply \in L!Replies :
       /\ Possible(reply)
       /\ L!Finalize(q, reply)
       /\ Becomes(q, [request[q] EXCEPT !.at = "verdict", !.outcome.paid = (reply = "ok")])
  /\ LedgerOnly

-----------------------------------------------------------------------------
(* The candidate loop judges the attempt; the deferred refund.             *)

\* Mutant: a neutral outcome does not resolve the permit.
VerdictKeepsPermit(q) ==
  /\ At(q, "verdict")
  /\ Becomes(q, [request[q] EXCEPT !.at = "defer", !.consumed = request[q].outcome.spent,
                                    !.settled = request[q].outcome.paid])
  /\ LET rq == request[q] IN
     breaker' = IF rq.outcome.kind = "neutral" THEN breaker
                ELSE [breaker EXCEPT ![rq.channel] = B!Recorded(@, rq.generation,
                        IF rq.outcome.kind = "channel_error" THEN "failure" ELSE "success")]
  /\ UNCHANGED <<database, cancelled, generated, worker, crashes>>

\* The permit is resolved whatever the outcome.  Only a channel's failure that
\* consumed nothing and committed nothing lets the loop go on.
Verdict(q) ==
  /\ At(q, "verdict")
  /\ LET rq == request[q]
         o  == rq.outcome
         result == CASE o.kind \in {"success", "client_error"} -> "success"
                     [] o.kind = "channel_error"               -> "failure"
                     [] o.kind = "neutral"                     -> "neutral"
         goesOn == o.kind = "channel_error" /\ ~o.committed /\ ~o.spent
         held   == o.kind = "channel_error" /\ ~o.committed /\ o.spent
     IN
     /\ breaker' = [breaker EXCEPT ![rq.channel] = B!Recorded(@, rq.generation, result)]
     /\ IF goesOn
        THEN GoTo(q, "next")
        ELSE Becomes(q, [rq EXCEPT !.at = "defer", !.consumed = o.spent, !.settled = o.paid,
                                   !.answer = IF held THEN "held" ELSE @])
  /\ UNCHANGED <<database, cancelled, generated, worker, crashes>>

\* The deferred function of forward; a failed refund is only logged.
Return(q) ==
  /\ At(q, "defer")
  /\ IF request[q].consumed \/ request[q].settled
     THEN UNCHANGED database
     ELSE \E reply \in L!Replies : Possible(reply) /\ L!Refund(q, reply)
  /\ Ends(q, request[q].answer)
  /\ LedgerOnly

-----------------------------------------------------------------------------
(* What befalls a request.                                                 *)

\* The client disconnects.
HangUp(q) ==
  /\ "cancel" \in Faults
  /\ ~At(q, "start") /\ ~At(q, "done") /\ ~At(q, "dead")
  /\ cancelled' = cancelled \cup {q}
  /\ UNCHANGED <<database, breaker, request, generated, worker, crashes>>

\* The code of an attempt panics: the middleware recovers after the deferred
\* refund ran with both flags still false, and the permit is never resolved.
Attempting == {"prepare", "mark", "unmark", "send", "undial", "lost", "rejected_channel",
               "rejected_request", "body", "record", "finalize"}

Panic(q) ==
  /\ "panic" \in Faults
  /\ request[q].at \in Attempting
  /\ Becomes(q, [request[q] EXCEPT !.at = "defer", !.answer = "internal_error"])
  /\ LocalOnly

\* The process dies and another one starts with fresh breakers.
Crash ==
  /\ crashes < MaxCrashes
  /\ crashes' = crashes + 1
  /\ request' = [q \in Requests |-> IF request[q].at \in {"start", "done"} THEN request[q]
                                    ELSE [NewRequest EXCEPT !.at = "dead"]]
  /\ breaker' = [ch \in Channels |-> B!NewBreaker]
  /\ worker' = Idle
  /\ UNCHANGED <<database, cancelled, generated>>

-----------------------------------------------------------------------------
(* The recovery worker: one Recover at start and one every 30 seconds.     *)

\* Mutant: only recorded consumptions are recovered.
ScanConsumedOnly ==
  /\ ~worker.running
  /\ worker' = [running |-> L!ConsumedUnsettled # {}, finalize |-> L!ConsumedUnsettled, refund |-> {}]
  /\ UNCHANGED <<database, breaker, request, cancelled, generated, crashes>>

\* Recover lists its work in a transaction of its own; rows may move on before
\* it comes to them.  Ambiguous in_flight rows are only reported.
Scan ==
  /\ ~worker.running
  /\ worker' = [running |-> L!ConsumedUnsettled \cup L!StaleReserved # {},
                finalize |-> L!ConsumedUnsettled, refund |-> L!StaleReserved]
  /\ UNCHANGED <<database, breaker, request, cancelled, generated, crashes>>

RecoverConsumed(q, reply) ==
  /\ q \in worker.finalize
  /\ Possible(reply)
  /\ L!Finalize(q, reply)
  /\ worker' = [worker EXCEPT !.finalize = @ \ {q}]
  /\ UNCHANGED <<breaker, request, cancelled, generated, crashes>>

RecoverStale(q, reply) ==
  /\ worker.finalize = {} /\ q \in worker.refund
  /\ Possible(reply)
  /\ L!Refund(q, reply)
  /\ worker' = [worker EXCEPT !.refund = @ \ {q}]
  /\ UNCHANGED <<breaker, request, cancelled, generated, crashes>>

RecoverEnds ==
  /\ worker.running /\ worker.finalize = {} /\ worker.refund = {}
  /\ worker' = Idle
  /\ UNCHANGED <<database, breaker, request, cancelled, generated, crashes>>

Recover == \/ Scan
           \/ \E q \in Requests, reply \in L!Replies : RecoverConsumed(q, reply) \/ RecoverStale(q, reply)
           \/ RecoverEnds

\* The clock: a row outlives its recovery threshold, which takes longer than any
\* request lives unless the process stalls; a cooldown ends.
Ended(q) == request[q].at \in {"done", "dead"}

Age(q) == /\ Ended(q) \/ "stall" \in Faults
          /\ L!GrowStale(q)
          /\ UNCHANGED <<breaker, request, cancelled, generated, worker, crashes>>

Cool(ch) == /\ breaker[ch].state = "open" /\ ~breaker[ch].cooled
            /\ breaker' = [breaker EXCEPT ![ch] = B!Cooled(@)]
            /\ UNCHANGED <<database, request, cancelled, generated, worker, crashes>>

Serve(q) == \/ Select(q) \/ Reserve(q) \/ NextCandidate(q) \/ Prepare(q) \/ Mark(q) \/ Unmark(q)
            \/ Send(q) \/ Undial(q) \/ Lost(q) \/ Rejected(q) \/ Body(q) \/ Record(q)
            \/ Finalize(q) \/ Verdict(q) \/ Return(q)

Next == \/ \E q \in Requests : Serve(q) \/ HangUp(q) \/ Panic(q)
        \/ Crash
        \/ Recover
        \/ \E q \in Requests : Age(q)
        \/ \E ch \in Channels : Cool(ch)

Spec == Init /\ [][Next]_vars

\* Handlers run (every call they wait for has a timeout), the worker's timer
\* fires, time passes, and a database that is asked again and again for the same
\* transaction commits it in the end.  Clients, crashes, panics and providers owe
\* nothing.
Fairness ==
  /\ \A q \in Requests : /\ WF_vars(Serve(q))
                         /\ WF_vars(Age(q))
                         /\ WF_vars(\E reply \in L!Replies : RecoverConsumed(q, reply) \/ RecoverStale(q, reply))
                         /\ SF_vars(RecoverConsumed(q, "ok"))
                         /\ SF_vars(RecoverStale(q, "ok"))
  /\ WF_vars(Scan) /\ WF_vars(RecoverEnds)

FairSpec == Spec /\ Fairness

-----------------------------------------------------------------------------
(* Correctness.                                                            *)

TypeOK == /\ L!TypeOK
          /\ breaker \in [Channels -> B!BreakerType]
          /\ request \in [Requests -> Request]
          /\ cancelled \subseteq Requests
          /\ generated \in [Requests -> SUBSET Channels]
          /\ worker \in [running : BOOLEAN, finalize : SUBSET Requests, refund : SUBSET Requests]
          /\ crashes \in 0..MaxCrashes

\* NoFreeGeneration: from the moment a provider may have run the model, the hold
\* of the request is neither refunded nor up for refund, whatever fails, hangs up,
\* panics, stalls or crashes, and although the worker and the deferred refund try
\* (MarkInFlight before send, definitelyUnconsumedStatus, ReleaseAttempt, Refund).
NoFreeGeneration ==
  \A q \in Requests :
    generated[q] # {} => row[q].status \in {"in_flight", "consumed_unsettled", "settled"}

\* OneGeneration: a request is never replayed on a second channel once a first
\* one may have run the model (the candidate loop's consumed and committed tests).
OneGeneration == \A q \in Requests : Cardinality(generated[q]) <= 1

\* ChargedForService: a user is charged only for a generation that took place,
\* under the channel that ran it (Settle after a 2xx, the channel in
\* RecordConsumption against the one of the latest MarkInFlight).
ChargedForService ==
  \A q \in Requests :
    row[q].status \in {"consumed_unsettled", "settled"} => generated[q] = {row[q].channel}

\* HonestAnswers: a client told that it was refused, that no channel is available
\* or that its request was rejected got nothing generated and keeps no money
\* withheld for good; one that got content had it generated (writeError and
\* relayUpstreamError at the ends of forward).
HonestAnswers ==
  \A q \in Requests :
    At(q, "done") =>
      /\ request[q].answer \in {"no_channel", "no_quota", "unavailable", "rejected"} =>
           generated[q] = {} /\ row[q].status \notin {"in_flight", "consumed_unsettled", "settled"}
      /\ request[q].answer \in {"content", "bad_gateway"} => generated[q] # {}

\* The attempts whose result breaker ch still waits for.
Outstanding(ch) ==
  {q \in Requests : /\ request[q].at \in Attempting \cup {"verdict"}
                    /\ request[q].channel = ch
                    /\ request[q].generation = breaker[ch].generation}

\* PermitsPaired: the slots a half-open breaker has given out belong to attempts
\* still running: every Allow is followed by a call of a result method of its
\* permit (the contract stated at Breaker.Allow, which forward has to keep).
PermitsPaired ==
  \A ch \in Channels :
    breaker[ch].state = "half_open" => breaker[ch].probes = Cardinality(Outstanding(ch))

\* ProbesReturned: every way an attempt ends, short of a panic, gives its slot
\* back, with concurrent attempts and late results in between (the switch over
\* the outcome in forward).
ProbesReturned == "panic" \notin Faults => PermitsPaired

\* EndsClean: with a database that answers, what a finished request did to its
\* hold is what its flags say: settled, or kept because the provider may have run
\* the model, or given back; nothing is left for the recovery worker, unless the
\* client cut off the reservation itself.
EndsClean ==
  Faults \cap {"database", "panic", "stall"} = {} =>
    \A q \in Requests :
      At(q, "done") /\ request[q].answer # "internal_error" =>
        row[q].status \in CASE request[q].settled                           -> {"settled"}
                            [] request[q].consumed /\ ~request[q].settled -> {"in_flight"}
                            [] ~request[q].consumed                       -> {"absent", "refunded"}

\* GivesBack: what a request took, its hold and its probe slots, it disposes of or
\* gives back (the deferred refund and the switch over the outcome in forward).
GivesBack == EndsClean /\ ProbesReturned

\* Answered: every request comes to an end.
Answered == \A q \in Requests : <>Ended(q)

\* Disposed: every hold is refunded, settled or kept for manual reconciliation in
\* the end: lost acknowledgements, failed settlements and crashes leave nothing
\* reserved or consumed_unsettled for ever (Recover and its ticker).
Disposed ==
  \A q \in Requests : <>[](row[q].status \in {"absent", "in_flight", "settled", "refunded"})

\* Concluded: requests and holds come to their ends.
Concluded == Answered /\ Disposed
=============================================================================

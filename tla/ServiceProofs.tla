--------------------------- MODULE ServiceProofs ---------------------------
(***************************************************************************)
(* Proofs about module Service.  Of Gateway, for any requests, users,      *)
(* channels, faults, crashes and sums: a provider that may have run the    *)
(* model is paid or its hold is kept, no request is replayed after that, a *)
(* user is charged only for what was generated, the answers are honest,    *)
(* and an attempt gives back the hold and the probe slot it took.  Of      *)
(* Lifecycle, for any instances and holds: starts, recoveries, stops and   *)
(* deaths keep all that, a start leaves nothing unfinished behind, and an  *)
(* orderly stop nothing half done.  And of both, that what they keep has   *)
(* its type.                                                               *)
(***************************************************************************)
EXTENDS Service, FiniteSetTheorems, TLAPS

LocalFields   == {"at", "user", "amount", "stream", "candidates", "channel", "generation", "kept",
                  "cost", "tries", "outcome", "consumed", "settled", "answer"}
OutcomeFields == {"kind", "spent", "paid", "committed"}
RowFields     == {"status", "user", "amount", "channel", "cost", "stale"}

Kept    == {"in_flight", "consumed_unsettled", "settled"}
Quiet   == {"no_channel", "no_quota", "unavailable", "rejected"}
Content == {"content", "bad_gateway"}

\* What is known of a request by where it stands: its locals, its row, and the channels that
\* may have run the model for it.  Up to the exchange nothing ran; from a run on the row
\* names the channel and cannot be refunded; an attempt that is said to have consumed
\* nothing left the row as a hold, so that the loop may go on.
Consistent(l, x, g) ==
  /\ DOMAIN l = LocalFields /\ DOMAIN l.outcome = OutcomeFields /\ DOMAIN x = RowFields
  /\ l.outcome.spent \in BOOLEAN
  /\ g # {} => x.status \in Kept /\ g = {x.channel}
  /\ x.status \in {"consumed_unsettled", "settled"} => g # {}
  /\ l.at \in {"start", "reserve"} => g = {} /\ x.status = "absent"
  /\ l.at \in {"next", "prepare", "mark"} => g = {} /\ x.status \in {"reserved", "refunded"}
  /\ l.at \in {"unmark", "undial", "rejected_channel", "rejected_request"} => g = {}
  /\ l.at = "send" => g = {} /\ x.status = "in_flight" /\ x.channel = l.channel
  /\ l.at \in {"body", "record"} => g = {l.channel}
  /\ l.at \in {"record", "finalize"} => l.outcome.spent = TRUE
  /\ l.at = "verdict" /\ l.outcome.spent = FALSE => g = {} /\ x.status \in {"reserved", "refunded"}
  /\ l.answer \in Content => g # {}
  /\ l.answer \in Quiet => /\ g = {} /\ x.status \notin Kept
                           /\ l.at \in {"defer", "done"} \/ (l.at = "verdict" /\ l.outcome.kind = "client_error")

GatewayInv ==
  /\ DOMAIN request = Requests /\ DOMAIN row = Requests /\ DOMAIN generated = Requests
  /\ \A q \in Requests : Consistent(request[q], row[q], generated[q])

\* A step of one request leaves the others as they are.
LEMMA OneRequest ==
  ASSUME GatewayInv, NEW q \in Requests,
         DOMAIN request' = Requests, DOMAIN row' = Requests, DOMAIN generated' = Requests,
         \A p \in Requests \ {q} : request'[p] = request[p] /\ row'[p] = row[p] /\ generated'[p] = generated[p],
         Consistent(request'[q], row'[q], generated'[q])
  PROVE  GatewayInv'
<1>1. \A p \in Requests : Consistent(request'[p], row'[p], generated'[p])
  BY DEF GatewayInv
<1>. HIDE DEF Consistent
<1>2. QED
  BY <1>1 DEF GatewayInv, Consistent

-----------------------------------------------------------------------------
(* What the transactions do to a row.                                      *)

\* The row of q keeps or changes its status, and its channel unless it is being marked.
RowMoves(q, from, to) ==
  /\ row[q].status = from /\ row'[q].status = to /\ DOMAIN row'[q] = RowFields

RowsShaped(q) == DOMAIN row = Requests /\ DOMAIN row[q] = RowFields

OthersStay(q) == DOMAIN row' = Requests /\ \A p \in Requests \ {q} : row'[p] = row[p]

LEMMA LedgerReserve ==
  ASSUME NEW q \in Requests, RowsShaped(q), row[q].status = "absent",
         NEW u, NEW a, NEW reply, L!Reserve(q, u, a, reply)
  PROVE  /\ OthersStay(q)
         /\ row' = row \/ RowMoves(q, "absent", "reserved")
         /\ reply = "ok" => row'[q].status = "reserved"
         /\ reply = "refused" => row' = row
<1>1. CASE L!CommitReserve(q, u, a) /\ L!Committed(reply)
  <2>1. row' = [row EXCEPT ![q] = [L!AbsentRow EXCEPT !.status = "reserved", !.user = u, !.amount = a]]
    BY <1>1 DEF L!CommitReserve
  <2>2. /\ row'[q] = [L!AbsentRow EXCEPT !.status = "reserved", !.user = u, !.amount = a] /\ OthersStay(q)
    BY <2>1 DEF RowsShaped, OthersStay
  <2>3. row'[q].status = "reserved" /\ DOMAIN row'[q] = RowFields
    BY <2>2 DEF L!AbsentRow, RowFields
  <2>4. reply # "refused"
    BY <1>1 DEF L!Committed
  <2>5. QED
    BY <2>2, <2>3, <2>4 DEF RowMoves
<1>2. CASE ~(L!CommitReserve(q, u, a) /\ L!Committed(reply))
  <2>1. row' = row /\ reply # "ok"
    BY <1>2 DEF L!Reserve, L!NoCommit, L!vars
  <2>2. QED
    BY <2>1 DEF OthersStay, RowsShaped
<1>3. QED
  BY <1>1, <1>2

LEMMA LedgerMark ==
  ASSUME NEW q \in Requests, RowsShaped(q), NEW ch, NEW reply, L!MarkInFlight(q, ch, reply)
  PROVE  /\ OthersStay(q)
         /\ row' = row \/ RowMoves(q, "reserved", "in_flight")
         /\ reply = "ok" => row'[q].status = "in_flight" /\ row'[q].channel = ch
<1>1. CASE L!CommitMark(q, ch)
  <2>1. /\ row[q].status = "reserved"
        /\ row' = [row EXCEPT ![q] = [row[q] EXCEPT !.status = "in_flight", !.channel = ch, !.stale = FALSE]]
    BY <1>1 DEF L!CommitMark, RowsShaped
  <2>2. row'[q] = [row[q] EXCEPT !.status = "in_flight", !.channel = ch, !.stale = FALSE] /\ OthersStay(q)
    BY <2>1 DEF RowsShaped, OthersStay
  <2>3. row'[q].status = "in_flight" /\ row'[q].channel = ch /\ DOMAIN row'[q] = RowFields
    BY <2>2 DEF RowsShaped, RowFields
  <2>4. QED
    BY <2>1, <2>2, <2>3 DEF RowMoves
<1>2. CASE ~L!CommitMark(q, ch)
  <2>1. row' = row /\ (reply = "ok" => row[q].status = "in_flight" /\ row[q].channel = ch)
    BY <1>2 DEF L!MarkInFlight, L!NoCommit, L!vars
  <2>2. QED
    BY <2>1 DEF OthersStay, RowsShaped
<1>3. QED
  BY <1>1, <1>2

LEMMA LedgerRelease ==
  ASSUME NEW q \in Requests, RowsShaped(q), NEW reply, L!ReleaseAttempt(q, reply)
  PROVE  /\ OthersStay(q)
         /\ row' = row \/ RowMoves(q, "in_flight", "reserved")
         /\ reply = "ok" => row'[q].status = "reserved"
<1>1. CASE L!CommitRelease(q)
  <2>1. /\ row[q].status = "in_flight"
        /\ row' = [row EXCEPT ![q] = [row[q] EXCEPT !.status = "reserved", !.stale = FALSE]]
    BY <1>1 DEF L!CommitRelease, RowsShaped
  <2>2. row'[q] = [row[q] EXCEPT !.status = "reserved", !.stale = FALSE] /\ OthersStay(q)
    BY <2>1 DEF RowsShaped, OthersStay
  <2>3. row'[q].status = "reserved" /\ DOMAIN row'[q] = RowFields
    BY <2>2 DEF RowsShaped, RowFields
  <2>4. QED
    BY <2>1, <2>2, <2>3 DEF RowMoves
<1>2. CASE ~L!CommitRelease(q)
  <2>1. row' = row /\ (reply = "ok" => row[q].status = "reserved")
    BY <1>2 DEF L!ReleaseAttempt, L!NoCommit, L!vars
  <2>2. QED
    BY <2>1 DEF OthersStay, RowsShaped
<1>3. QED
  BY <1>1, <1>2

LEMMA LedgerRecord ==
  ASSUME NEW q \in Requests, RowsShaped(q), NEW ch, NEW c, NEW reply, L!RecordConsumption(q, ch, c, reply)
  PROVE  /\ OthersStay(q)
         /\ row' = row \/ (RowMoves(q, "in_flight", "consumed_unsettled") /\ row'[q].channel = row[q].channel)
<1>1. CASE L!CommitConsumption(q, ch, c)
  <2>1. /\ row[q].status = "in_flight"
        /\ row' = [row EXCEPT ![q] = [row[q] EXCEPT !.status = "consumed_unsettled", !.cost = c, !.stale = FALSE]]
    BY <1>1 DEF L!CommitConsumption, RowsShaped
  <2>2. row'[q] = [row[q] EXCEPT !.status = "consumed_unsettled", !.cost = c, !.stale = FALSE] /\ OthersStay(q)
    BY <2>1 DEF RowsShaped, OthersStay
  <2>3. row'[q].status = "consumed_unsettled" /\ row'[q].channel = row[q].channel /\ DOMAIN row'[q] = RowFields
    BY <2>2 DEF RowsShaped, RowFields
  <2>4. QED
    BY <2>1, <2>2, <2>3 DEF RowMoves
<1>2. CASE ~L!CommitConsumption(q, ch, c)
  <2>1. row' = row
    BY <1>2 DEF L!RecordConsumption, L!NoCommit, L!vars
  <2>2. QED
    BY <2>1 DEF OthersStay, RowsShaped
<1>3. QED
  BY <1>1, <1>2

LEMMA LedgerFinalize ==
  ASSUME NEW q \in Requests, RowsShaped(q), NEW reply, L!Finalize(q, reply)
  PROVE  /\ OthersStay(q)
         /\ row' = row \/ (RowMoves(q, "consumed_unsettled", "settled") /\ row'[q].channel = row[q].channel)
<1>1. CASE L!CommitFinalize(q)
  <2>1. /\ row[q].status = "consumed_unsettled"
        /\ row' = [row EXCEPT ![q] = [row[q] EXCEPT !.status = "settled", !.stale = FALSE]]
    BY <1>1 DEF L!CommitFinalize, RowsShaped
  <2>2. row'[q] = [row[q] EXCEPT !.status = "settled", !.stale = FALSE] /\ OthersStay(q)
    BY <2>1 DEF RowsShaped, OthersStay
  <2>3. row'[q].status = "settled" /\ row'[q].channel = row[q].channel /\ DOMAIN row'[q] = RowFields
    BY <2>2 DEF RowsShaped, RowFields
  <2>4. QED
    BY <2>1, <2>2, <2>3 DEF RowMoves
<1>2. CASE ~L!CommitFinalize(q)
  <2>1. row' = row
    BY <1>2 DEF L!Finalize, L!NoCommit, L!vars
  <2>2. QED
    BY <2>1 DEF OthersStay, RowsShaped
<1>3. QED
  BY <1>1, <1>2

LEMMA LedgerRefund ==
  ASSUME NEW q \in Requests, RowsShaped(q), NEW reply, L!Refund(q, reply)
  PROVE  /\ OthersStay(q)
         /\ row' = row \/ RowMoves(q, "reserved", "refunded")
<1>1. CASE L!CommitRefund(q)
  <2>1. /\ row[q].status = "reserved"
        /\ row' = [row EXCEPT ![q] = [row[q] EXCEPT !.status = "refunded", !.stale = FALSE]]
    BY <1>1 DEF L!CommitRefund, RowsShaped
  <2>2. row'[q] = [row[q] EXCEPT !.status = "refunded", !.stale = FALSE] /\ OthersStay(q)
    BY <2>1 DEF RowsShaped, OthersStay
  <2>3. row'[q].status = "refunded" /\ DOMAIN row'[q] = RowFields
    BY <2>2 DEF RowsShaped, RowFields
  <2>4. QED
    BY <2>1, <2>2, <2>3 DEF RowMoves
<1>2. CASE ~L!CommitRefund(q)
  <2>1. row' = row
    BY <1>2 DEF L!Refund, L!NoCommit, L!vars
  <2>2. QED
    BY <2>1 DEF OthersStay, RowsShaped
<1>3. QED
  BY <1>1, <1>2

LEMMA LedgerGrowStale ==
  ASSUME NEW q \in Requests, RowsShaped(q), L!GrowStale(q)
  PROVE  /\ OthersStay(q) /\ DOMAIN row'[q] = RowFields
         /\ row'[q].status = row[q].status /\ row'[q].channel = row[q].channel
<1>1. row' = [row EXCEPT ![q] = [row[q] EXCEPT !.stale = TRUE]]
  BY DEF L!GrowStale, RowsShaped
<1>2. row'[q] = [row[q] EXCEPT !.stale = TRUE] /\ OthersStay(q)
  BY <1>1 DEF RowsShaped, OthersStay
<1>3. QED
  BY <1>2 DEF RowsShaped, RowFields

-----------------------------------------------------------------------------
(* The steps of a request.                                                 *)

OthersLocal(q) == DOMAIN request' = Requests /\ \A p \in Requests \ {q} : request'[p] = request[p]

LEMMA BecomesOne ==
  ASSUME GatewayInv, NEW q \in Requests, NEW l, Becomes(q, l)
  PROVE  request'[q] = l /\ OthersLocal(q)
BY DEF GatewayInv, Becomes, OthersLocal

LEMMA GoesTo ==
  ASSUME GatewayInv, NEW q \in Requests, NEW place, GoTo(q, place)
  PROVE  /\ OthersLocal(q)
         /\ request'[q] = [request[q] EXCEPT !.at = place]
BY BecomesOne DEF GoTo

LEMMA EndsWith ==
  ASSUME GatewayInv, NEW q \in Requests, NEW answer, Ends(q, answer)
  PROVE  /\ OthersLocal(q)
         /\ DOMAIN request'[q] = LocalFields /\ DOMAIN request'[q].outcome = OutcomeFields
         /\ request'[q].outcome.spent = FALSE
         /\ request'[q].at = "done" /\ request'[q].answer = answer
<1>1. /\ request'[q] = [NewRequest EXCEPT !.at = "done", !.answer = answer,
                          !.consumed = request[q].consumed, !.settled = request[q].settled]
      /\ OthersLocal(q)
  BY BecomesOne DEF Ends
<1>2. DOMAIN NewRequest = LocalFields /\ DOMAIN NewRequest.outcome = OutcomeFields
      /\ NewRequest.outcome.spent = FALSE
  BY DEF NewRequest, NoOutcome, LocalFields, OutcomeFields
<1>. HIDE DEF NewRequest
<1>3. QED
  BY <1>1, <1>2 DEF LocalFields

LEMMA ReturnsWith ==
  ASSUME GatewayInv, NEW q \in Requests, NEW kind, NEW spent, NEW committed,
         Returns(q, kind, spent, committed)
  PROVE  /\ OthersLocal(q)
         /\ DOMAIN request'[q] = LocalFields /\ DOMAIN request'[q].outcome = OutcomeFields
         /\ request'[q].outcome.spent = spent /\ request'[q].outcome.kind = kind
         /\ request'[q].at = "verdict" /\ request'[q].answer = request[q].answer
<1>1. /\ request'[q] = [request[q] EXCEPT !.at = "verdict", !.outcome =
            [kind |-> kind, spent |-> spent, paid |-> FALSE, committed |-> committed]]
      /\ OthersLocal(q)
  BY BecomesOne DEF Returns
<1>2. DOMAIN request[q] = LocalFields
  BY DEF GatewayInv, Consistent
<1>3. /\ DOMAIN request'[q] = LocalFields /\ request'[q].at = "verdict"
      /\ request'[q].outcome = [kind |-> kind, spent |-> spent, paid |-> FALSE, committed |-> committed]
      /\ request'[q].answer = request[q].answer
  BY <1>1, <1>2 DEF LocalFields
<1>4. QED
  BY <1>1, <1>3 DEF OutcomeFields

\* A step in which only q's locals and row move, and nothing is generated.
LEMMA QuietStep ==
  ASSUME GatewayInv, NEW q \in Requests, OthersLocal(q), OthersStay(q), generated' = generated,
         Consistent(request'[q], row'[q], generated[q])
  PROVE  GatewayInv'
<1>. HIDE DEF Consistent
<1>1. DOMAIN generated' = Requests /\ DOMAIN request' = Requests /\ DOMAIN row' = Requests
  BY DEF GatewayInv, OthersLocal, OthersStay
<1>2. QED
  BY <1>1, OneRequest DEF OthersLocal, OthersStay

\* What is known of q, with what the ledger lemmas need.
LEMMA Known ==
  ASSUME GatewayInv, NEW q \in Requests
  PROVE  Consistent(request[q], row[q], generated[q]) /\ RowsShaped(q)
BY DEF GatewayInv, Consistent, RowsShaped

LEMMA StaysPut ==
  ASSUME GatewayInv, NEW q \in Requests, row' = row
  PROVE  OthersStay(q) /\ row'[q] = row[q]
BY DEF GatewayInv, OthersStay

LEMMA StepSelect ==
  ASSUME GatewayInv, NEW q \in Requests, Select(q)
  PROVE  GatewayInv'
<1>. USE DEF LocalOnly, LedgerOnly, database
<1>1. row' = row /\ generated' = generated /\ request[q].at = "start"
  BY DEF Select, At
<1>2. CASE Ends(q, "no_channel")
  <2>1. Consistent(request'[q], row'[q], generated[q])
    BY <1>1, <1>2, EndsWith, Known, StaysPut DEF Consistent, Content, Quiet, Kept
  <2>2. QED
    BY <1>1, <1>2, <2>1, EndsWith, StaysPut, QuietStep
<1>3. CASE \E u, a, stream, order :
             Becomes(q, [request[q] EXCEPT !.at = "reserve", !.user = u, !.amount = a,
                                           !.stream = stream, !.candidates = order])
  <2>1. PICK u, a, stream, order :
             Becomes(q, [request[q] EXCEPT !.at = "reserve", !.user = u, !.amount = a,
                                           !.stream = stream, !.candidates = order])
    BY <1>3
  <2>2. /\ OthersLocal(q)
        /\ request'[q] = [request[q] EXCEPT !.at = "reserve", !.user = u, !.amount = a,
                                            !.stream = stream, !.candidates = order]
    BY <2>1, BecomesOne
  <2>3. /\ DOMAIN request'[q] = LocalFields /\ request'[q].at = "reserve"
        /\ request'[q].answer = request[q].answer /\ request'[q].outcome = request[q].outcome
    BY <2>2, Known DEF Consistent, LocalFields
  <2>4. Consistent(request'[q], row'[q], generated[q])
    BY <1>1, <2>3, Known, StaysPut DEF Consistent, Content, Quiet, Kept
  <2>5. QED
    BY <1>1, <2>2, <2>4, StaysPut, QuietStep
<1>4. Ends(q, "no_channel") \/
      \E u, a, stream, order :
             Becomes(q, [request[q] EXCEPT !.at = "reserve", !.user = u, !.amount = a,
                                           !.stream = stream, !.candidates = order])
  BY DEF Select
<1>5. QED
  BY <1>2, <1>3, <1>4

LEMMA StepReserve ==
  ASSUME GatewayInv, NEW q \in Requests, Reserve(q)
  PROVE  GatewayInv'
<1>1. PICK reply \in L!Replies :
        /\ L!Reserve(q, request[q].user, request[q].amount, reply)
        /\ CASE reply = "ok"      -> GoTo(q, "next")
             [] reply = "refused" -> Ends(q, "no_quota")
             [] OTHER             -> Ends(q, "internal_error")
  BY DEF Reserve
<1>2. generated' = generated /\ request[q].at = "reserve"
  BY DEF Reserve, LedgerOnly, At
<1>3. Consistent(request[q], row[q], generated[q]) /\ RowsShaped(q) /\ row[q].status = "absent"
  BY <1>2, Known DEF Consistent
<1>4. /\ OthersStay(q)
      /\ row' = row \/ RowMoves(q, "absent", "reserved")
      /\ reply = "ok" => row'[q].status = "reserved"
      /\ reply = "refused" => row' = row
  BY <1>1, <1>3, LedgerReserve
<1>5. /\ DOMAIN row'[q] = RowFields
      /\ row'[q].status \in {"absent", "reserved"}
      /\ reply = "ok" => row'[q].status = "reserved"
      /\ reply = "refused" => row'[q].status = "absent"
  BY <1>3, <1>4 DEF RowMoves, RowsShaped
<1>6. OthersLocal(q) /\ Consistent(request'[q], row'[q], generated[q])
  <2>1. CASE reply = "ok"
    <3>1. OthersLocal(q) /\ request'[q] = [request[q] EXCEPT !.at = "next"]
      BY <1>1, <2>1, GoesTo
    <3>2. QED
      BY <1>2, <1>3, <1>5, <2>1, <3>1 DEF Consistent, LocalFields, Content, Quiet, Kept
  <2>2. CASE reply = "refused"
    <3>1. Ends(q, "no_quota")
      BY <1>1, <2>2
    <3>2. /\ OthersLocal(q) /\ DOMAIN request'[q] = LocalFields
          /\ DOMAIN request'[q].outcome = OutcomeFields /\ request'[q].outcome.spent = FALSE
          /\ request'[q].at = "done" /\ request'[q].answer = "no_quota"
      BY <3>1, EndsWith
    <3>3. QED
      BY <1>2, <1>3, <1>5, <2>2, <3>2 DEF Consistent, Content, Quiet, Kept
  <2>3. CASE reply # "ok" /\ reply # "refused"
    <3>1. Ends(q, "internal_error")
      BY <1>1, <2>3
    <3>2. /\ OthersLocal(q) /\ DOMAIN request'[q] = LocalFields
          /\ DOMAIN request'[q].outcome = OutcomeFields /\ request'[q].outcome.spent = FALSE
          /\ request'[q].at = "done" /\ request'[q].answer = "internal_error"
      BY <3>1, EndsWith
    <3>3. QED
      BY <1>2, <1>3, <1>5, <3>2 DEF Consistent, Content, Quiet, Kept
  <2>4. QED
    BY <2>1, <2>2, <2>3
<1>7. QED
  BY <1>2, <1>4, <1>6, QuietStep

LEMMA StepNextCandidate ==
  ASSUME GatewayInv, NEW q \in Requests, NextCandidate(q)
  PROVE  GatewayInv'
<1>1. row' = row /\ generated' = generated /\ request[q].at = "next"
  BY DEF NextCandidate, At, database
<1>2. \/ GoTo(q, "defer")
      \/ Becomes(q, [request[q] EXCEPT !.at = "defer",
                       !.answer = IF request[q].kept THEN "rejected" ELSE "unavailable"])
      \/ \E c : Becomes(q, [request[q] EXCEPT !.candidates = c])
      \/ \E c, ch, g : Becomes(q, [request[q] EXCEPT !.at = "prepare", !.candidates = c,
                                                     !.channel = ch, !.generation = g])
  BY DEF NextCandidate
<1>3. /\ OthersLocal(q)
      /\ DOMAIN request'[q] = LocalFields /\ request'[q].outcome = request[q].outcome
      /\ \/ request'[q].at \in {"defer", "next", "prepare"} /\ request'[q].answer = request[q].answer
         \/ request'[q].at = "defer" /\ request'[q].answer \in {"rejected", "unavailable"}
  <2>1. DOMAIN request[q] = LocalFields
    BY Known DEF Consistent
  <2>2. CASE GoTo(q, "defer")
    <3>1. OthersLocal(q) /\ request'[q] = [request[q] EXCEPT !.at = "defer"]
      BY <2>2, GoesTo
    <3>2. QED
      BY <2>1, <3>1 DEF LocalFields
  <2>3. CASE Becomes(q, [request[q] EXCEPT !.at = "defer",
                           !.answer = IF request[q].kept THEN "rejected" ELSE "unavailable"])
    <3>1. /\ OthersLocal(q)
          /\ request'[q] = [request[q] EXCEPT !.at = "defer",
                           !.answer = IF request[q].kept THEN "rejected" ELSE "unavailable"]
      BY <2>3, BecomesOne
    <3>2. QED
      BY <2>1, <3>1 DEF LocalFields
  <2>4. CASE \E c : Becomes(q, [request[q] EXCEPT !.candidates = c])
    <3>1. PICK c : Becomes(q, [request[q] EXCEPT !.candidates = c])
      BY <2>4
    <3>2. QED
      BY <1>1, <2>1, <3>1, BecomesOne DEF LocalFields
  <2>5. CASE \E c, ch, g : Becomes(q, [request[q] EXCEPT !.at = "prepare", !.candidates = c,
                                                     !.channel = ch, !.generation = g])
    <3>1. PICK c, ch, g : Becomes(q, [request[q] EXCEPT !.at = "prepare", !.candidates = c,
                                                     !.channel = ch, !.generation = g])
      BY <2>5
    <3>2. /\ OthersLocal(q)
          /\ request'[q] = [request[q] EXCEPT !.at = "prepare", !.candidates = c,
                                              !.channel = ch, !.generation = g]
      BY <3>1, BecomesOne
    <3>3. QED
      BY <2>1, <3>2 DEF LocalFields
  <2>6. QED
    BY <1>2, <2>2, <2>3, <2>4, <2>5
<1>4. Consistent(request'[q], row'[q], generated[q])
  BY <1>1, <1>3, Known, StaysPut DEF Consistent, Content, Quiet, Kept
<1>5. QED
  BY <1>1, <1>3, <1>4, StaysPut, QuietStep

LEMMA StepPrepare ==
  ASSUME GatewayInv, NEW q \in Requests, Prepare(q)
  PROVE  GatewayInv'
<1>1. row' = row /\ generated' = generated /\ request[q].at = "prepare"
  BY DEF Prepare, At, LocalOnly, LedgerOnly, database
<1>2. Consistent(request[q], row[q], generated[q]) /\ row'[q] = row[q] /\ OthersStay(q)
  BY <1>1, Known, StaysPut
<1>3. \/ \E kind \in {"neutral", "channel_error"} : Returns(q, kind, FALSE, FALSE)
      \/ GoTo(q, "mark")
  BY DEF Prepare
<1>4. OthersLocal(q) /\ Consistent(request'[q], row'[q], generated[q])
  <2>1. CASE \E kind \in {"neutral", "channel_error"} : Returns(q, kind, FALSE, FALSE)
    <3>1. PICK kind \in {"neutral", "channel_error"} : Returns(q, kind, FALSE, FALSE)
      BY <2>1
    <3>2. /\ OthersLocal(q)
          /\ DOMAIN request'[q] = LocalFields /\ DOMAIN request'[q].outcome = OutcomeFields
          /\ request'[q].outcome.spent = FALSE /\ request'[q].outcome.kind = kind
          /\ request'[q].at = "verdict" /\ request'[q].answer = request[q].answer
      BY <3>1, ReturnsWith
    <3>3. QED
      BY <1>1, <1>2, <3>2 DEF Consistent, Content, Quiet, Kept
  <2>2. CASE GoTo(q, "mark")
    <3>1. OthersLocal(q) /\ request'[q] = [request[q] EXCEPT !.at = "mark"]
      BY <2>2, GoesTo
    <3>2. /\ DOMAIN request'[q] = LocalFields /\ request'[q].at = "mark"
          /\ request'[q].outcome = request[q].outcome /\ request'[q].answer = request[q].answer
      BY <1>2, <3>1 DEF Consistent, LocalFields
    <3>3. QED
      BY <1>1, <1>2, <3>1, <3>2 DEF Consistent
  <2>3. QED
    BY <1>3, <2>1, <2>2
<1>5. QED
  BY <1>1, <1>2, <1>4, QuietStep

LEMMA StepMark ==
  ASSUME GatewayInv, NEW q \in Requests, Mark(q)
  PROVE  GatewayInv'
<1>1. PICK reply \in L!Replies :
        /\ L!MarkInFlight(q, request[q].channel, reply)
        /\ GoTo(q, IF reply = "ok" THEN "send" ELSE "unmark")
  BY DEF Mark
<1>2. generated' = generated /\ request[q].at = "mark"
  BY DEF Mark, LedgerOnly, At
<1>3. Consistent(request[q], row[q], generated[q]) /\ RowsShaped(q)
  BY Known
<1>4. /\ OthersStay(q)
      /\ row' = row \/ RowMoves(q, "reserved", "in_flight")
      /\ reply = "ok" => row'[q].status = "in_flight" /\ row'[q].channel = request[q].channel
  BY <1>1, <1>3, LedgerMark
<1>5. DOMAIN row'[q] = RowFields
  BY <1>3, <1>4 DEF RowMoves, RowsShaped
<1>6. /\ OthersLocal(q)
      /\ request'[q] = [request[q] EXCEPT !.at = IF reply = "ok" THEN "send" ELSE "unmark"]
  BY <1>1, GoesTo
<1>7. /\ DOMAIN request'[q] = LocalFields /\ request'[q].outcome = request[q].outcome
      /\ request'[q].at = (IF reply = "ok" THEN "send" ELSE "unmark")
      /\ request'[q].answer = request[q].answer /\ request'[q].channel = request[q].channel
  BY <1>3, <1>6 DEF Consistent, LocalFields
<1>8. generated[q] = {} /\ request[q].answer \notin Content \cup Quiet
  BY <1>2, <1>3 DEF Consistent
<1>9. row'[q].status \notin {"consumed_unsettled", "settled"}
  BY <1>2, <1>3, <1>4 DEF Consistent, RowMoves
<1>10. Consistent(request'[q], row'[q], generated[q])
  BY <1>3, <1>4, <1>5, <1>7, <1>8, <1>9 DEF Consistent
<1>11. QED
  BY <1>2, <1>4, <1>6, <1>10, QuietStep

\* A release, wherever nothing can have been generated.
LEMMA Releases ==
  ASSUME GatewayInv, NEW q \in Requests, NEW reply, L!ReleaseAttempt(q, reply),
         request[q].at \in {"unmark", "undial", "rejected_channel", "rejected_request"}
  PROVE  /\ OthersStay(q) /\ DOMAIN row'[q] = RowFields
         /\ generated[q] = {} /\ row'[q].status \notin {"consumed_unsettled", "settled"}
         /\ reply = "ok" => row'[q].status = "reserved"
         /\ request[q].answer \notin Content \cup Quiet
<1>1. Consistent(request[q], row[q], generated[q]) /\ RowsShaped(q)
  BY Known
<1>2. /\ OthersStay(q)
      /\ row' = row \/ RowMoves(q, "in_flight", "reserved")
      /\ reply = "ok" => row'[q].status = "reserved"
  BY <1>1, LedgerRelease
<1>3. generated[q] = {} /\ row[q].status \notin {"consumed_unsettled", "settled"}
      /\ request[q].answer \notin Content \cup Quiet
  BY <1>1 DEF Consistent
<1>4. QED
  BY <1>1, <1>2, <1>3 DEF RowMoves, RowsShaped

LEMMA StepUnmark ==
  ASSUME GatewayInv, NEW q \in Requests, Unmark(q)
  PROVE  GatewayInv'
<1>1. PICK reply \in L!Replies :
        /\ L!ReleaseAttempt(q, reply)
        /\ Returns(q, "channel_error", reply # "ok", FALSE)
  BY DEF Unmark
<1>2. generated' = generated /\ request[q].at = "unmark"
  BY DEF Unmark, LedgerOnly, At
<1>3. /\ OthersStay(q) /\ DOMAIN row'[q] = RowFields
      /\ generated[q] = {} /\ row'[q].status \notin {"consumed_unsettled", "settled"}
      /\ reply = "ok" => row'[q].status = "reserved"
      /\ request[q].answer \notin Content \cup Quiet
  BY <1>1, <1>2, Releases
<1>4. /\ OthersLocal(q)
      /\ DOMAIN request'[q] = LocalFields /\ DOMAIN request'[q].outcome = OutcomeFields
      /\ request'[q].outcome.spent = (reply # "ok")
      /\ request'[q].at = "verdict" /\ request'[q].answer = request[q].answer
  BY <1>1, ReturnsWith
<1>5. Consistent(request'[q], row'[q], generated[q])
  BY <1>3, <1>4 DEF Consistent
<1>6. QED
  BY <1>2, <1>3, <1>4, <1>5, QuietStep

LEMMA StepSend ==
  ASSUME GatewayInv, NEW q \in Requests, Send(q)
  PROVE  GatewayInv'
<1>1. PICK ran \in BOOLEAN :
        /\ generated' = [generated EXCEPT ![q] =
                           IF ran THEN generated[q] \cup {request[q].channel} ELSE generated[q]]
        /\ \/ /\ ~ran
              /\ \E place \in {"undial", "rejected_channel", "rejected_request"} : GoTo(q, place)
           \/ GoTo(q, "lost")
           \/ Becomes(q, [request[q] EXCEPT !.at = "verdict",
               !.answer = "upstream_error", !.outcome =
               [kind |-> "channel_error", spent |-> TRUE, paid |-> FALSE, committed |-> TRUE]])
           \/ ran /\ GoTo(q, "body")
  BY DEF Send
<1>2. row' = row /\ request[q].at = "send"
  BY DEF Send, At, database
<1>3. Consistent(request[q], row[q], generated[q]) /\ row'[q] = row[q] /\ OthersStay(q)
  BY <1>2, Known, StaysPut
<1>4. /\ generated[q] = {} /\ row[q].status = "in_flight" /\ row[q].channel = request[q].channel
      /\ request[q].answer \notin Content \cup Quiet /\ DOMAIN request[q] = LocalFields
  BY <1>2, <1>3 DEF Consistent
<1>5. /\ DOMAIN generated' = Requests
      /\ \A p \in Requests \ {q} : generated'[p] = generated[p]
      /\ generated'[q] = IF ran THEN {request[q].channel} ELSE {}
  BY <1>1, <1>4 DEF GatewayInv
<1>6. OthersLocal(q) /\ Consistent(request'[q], row'[q], generated'[q])
  <2>1. CASE \E place \in {"undial", "rejected_channel", "rejected_request", "lost", "body"} :
               /\ GoTo(q, place)
               /\ place \in {"undial", "rejected_channel", "rejected_request"} => ~ran
               /\ place = "body" => ran
    <3>1. PICK place \in {"undial", "rejected_channel", "rejected_request", "lost", "body"} :
               /\ GoTo(q, place)
               /\ place \in {"undial", "rejected_channel", "rejected_request"} => ~ran
               /\ place = "body" => ran
      BY <2>1
    <3>2. OthersLocal(q) /\ request'[q] = [request[q] EXCEPT !.at = place]
      BY <3>1, GoesTo
    <3>3. /\ DOMAIN request'[q] = LocalFields /\ request'[q].at = place
          /\ request'[q].outcome = request[q].outcome /\ request'[q].answer = request[q].answer
          /\ request'[q].channel = request[q].channel
      BY <1>4, <3>2 DEF LocalFields
    <3>4. QED
      BY <1>3, <1>4, <1>5, <3>1, <3>2, <3>3 DEF Consistent, Kept
  <2>2. CASE Becomes(q, [request[q] EXCEPT !.at = "verdict",
               !.answer = "upstream_error", !.outcome =
               [kind |-> "channel_error", spent |-> TRUE, paid |-> FALSE, committed |-> TRUE]])
    <3>1. /\ OthersLocal(q)
          /\ request'[q] = [request[q] EXCEPT !.at = "verdict",
               !.answer = "upstream_error", !.outcome =
               [kind |-> "channel_error", spent |-> TRUE, paid |-> FALSE, committed |-> TRUE]]
      BY <2>2, BecomesOne
    <3>2. /\ DOMAIN request'[q] = LocalFields /\ request'[q].at = "verdict"
          /\ request'[q].outcome = [kind |-> "channel_error", spent |-> TRUE, paid |-> FALSE, committed |-> TRUE]
          /\ request'[q].answer = "upstream_error"
      BY <1>4, <3>1 DEF LocalFields
    <3>3. DOMAIN request'[q].outcome = OutcomeFields /\ request'[q].outcome.spent = TRUE
      BY <3>2 DEF OutcomeFields
    <3>4. request'[q].answer \notin Content \cup Quiet
      BY <3>2 DEF Content, Quiet
    <3>5. /\ DOMAIN row'[q] = RowFields /\ row'[q].status = "in_flight"
          /\ row'[q].channel = request[q].channel
      BY <1>3, <1>4 DEF Consistent
    <3>6. Consistent(request'[q], row'[q], generated'[q])
      BY <1>5, <3>2, <3>3, <3>4, <3>5 DEF Consistent, Kept
    <3>7. QED
      BY <3>1, <3>6
  <2>3. QED
    BY <1>1, <2>1, <2>2
<1>7. DOMAIN request' = Requests /\ DOMAIN row' = Requests
  BY <1>3, <1>6 DEF OthersLocal, OthersStay
<1>. HIDE DEF Consistent
<1>8. QED
  BY <1>3, <1>5, <1>6, <1>7, OneRequest DEF OthersLocal, OthersStay

LEMMA StepUndial ==
  ASSUME GatewayInv, NEW q \in Requests, Undial(q)
  PROVE  GatewayInv'
<1>1. PICK reply \in L!Replies :
        /\ L!ReleaseAttempt(q, reply)
        /\ IF reply # "ok" THEN GoTo(q, "lost")
           ELSE Returns(q, IF q \in cancelled THEN "neutral" ELSE "channel_error", FALSE, FALSE)
  BY DEF Undial
<1>2. generated' = generated /\ request[q].at = "undial"
  BY DEF Undial, LedgerOnly, At
<1>3. /\ OthersStay(q) /\ DOMAIN row'[q] = RowFields
      /\ generated[q] = {} /\ row'[q].status \notin {"consumed_unsettled", "settled"}
      /\ reply = "ok" => row'[q].status = "reserved"
      /\ request[q].answer \notin Content \cup Quiet
  BY <1>1, <1>2, Releases
<1>4. OthersLocal(q) /\ Consistent(request'[q], row'[q], generated[q])
  <2>1. CASE reply # "ok"
    <3>1. OthersLocal(q) /\ request'[q] = [request[q] EXCEPT !.at = "lost"]
      BY <1>1, <2>1, GoesTo
    <3>2. /\ DOMAIN request'[q] = LocalFields /\ request'[q].at = "lost"
          /\ request'[q].outcome = request[q].outcome /\ request'[q].answer = request[q].answer
      BY <3>1, Known DEF Consistent, LocalFields
    <3>3. QED
      BY <1>3, <3>1, <3>2, Known DEF Consistent
  <2>2. CASE reply = "ok"
    <3>1. Returns(q, IF q \in cancelled THEN "neutral" ELSE "channel_error", FALSE, FALSE)
      BY <1>1, <2>2
    <3>2. /\ OthersLocal(q)
          /\ DOMAIN request'[q] = LocalFields /\ DOMAIN request'[q].outcome = OutcomeFields
          /\ request'[q].outcome.spent = FALSE
          /\ request'[q].at = "verdict" /\ request'[q].answer = request[q].answer
      BY <3>1, ReturnsWith
    <3>3. QED
      BY <1>3, <2>2, <3>2 DEF Consistent
  <2>3. QED
    BY <2>1, <2>2
<1>5. QED
  BY <1>2, <1>3, <1>4, QuietStep

LEMMA StepLost ==
  ASSUME GatewayInv, NEW q \in Requests, Lost(q)
  PROVE  GatewayInv'
<1>1. row' = row /\ generated' = generated /\ request[q].at = "lost"
  BY DEF Lost, At, LocalOnly, LedgerOnly, database
<1>2. Consistent(request[q], row[q], generated[q]) /\ row'[q] = row[q] /\ OthersStay(q)
  BY <1>1, Known, StaysPut
<1>3. Returns(q, IF q \in cancelled THEN "neutral" ELSE "channel_error", TRUE, FALSE)
  BY DEF Lost
<1>4. /\ OthersLocal(q)
      /\ DOMAIN request'[q] = LocalFields /\ DOMAIN request'[q].outcome = OutcomeFields
      /\ request'[q].outcome.spent = TRUE
      /\ request'[q].at = "verdict" /\ request'[q].answer = request[q].answer
  BY <1>3, ReturnsWith
<1>5. Consistent(request'[q], row'[q], generated[q])
  BY <1>1, <1>2, <1>4 DEF Consistent
<1>6. QED
  BY <1>1, <1>2, <1>4, <1>5, QuietStep

LEMMA StepRejected ==
  ASSUME GatewayInv, NEW q \in Requests, Rejected(q)
  PROVE  GatewayInv'
<1>1. PICK reply \in L!Replies :
        /\ L!ReleaseAttempt(q, reply)
        /\ \/ reply # "ok" /\ Returns(q, "channel_error", TRUE, FALSE)
           \/ reply = "ok" /\
                Becomes(q, [request[q] EXCEPT !.at = "verdict", !.kept = TRUE, !.outcome =
                  [kind |-> "channel_error", spent |-> FALSE, paid |-> FALSE, committed |-> FALSE]])
           \/ reply = "ok" /\
                Becomes(q, [request[q] EXCEPT !.at = "verdict", !.answer = "rejected", !.outcome =
                  [kind |-> "client_error", spent |-> FALSE, paid |-> FALSE, committed |-> FALSE]])
  BY DEF Rejected
<1>2. generated' = generated /\ request[q].at \in {"rejected_channel", "rejected_request"}
  BY DEF Rejected, LedgerOnly, At
<1>3. /\ OthersStay(q) /\ DOMAIN row'[q] = RowFields
      /\ generated[q] = {} /\ row'[q].status \notin {"consumed_unsettled", "settled"}
      /\ reply = "ok" => row'[q].status = "reserved"
      /\ request[q].answer \notin Content \cup Quiet
  BY <1>1, <1>2, Releases
<1>4. DOMAIN request[q] = LocalFields
  BY Known DEF Consistent
<1>5. OthersLocal(q) /\ Consistent(request'[q], row'[q], generated[q])
  <2>1. CASE Returns(q, "channel_error", TRUE, FALSE)
    <3>1. /\ OthersLocal(q)
          /\ DOMAIN request'[q] = LocalFields /\ DOMAIN request'[q].outcome = OutcomeFields
          /\ request'[q].outcome.spent = TRUE
          /\ request'[q].at = "verdict" /\ request'[q].answer = request[q].answer
      BY <2>1, ReturnsWith
    <3>2. QED
      BY <1>3, <3>1 DEF Consistent
  <2>2. CASE /\ reply = "ok"
             /\ Becomes(q, [request[q] EXCEPT !.at = "verdict", !.kept = TRUE, !.outcome =
                  [kind |-> "channel_error", spent |-> FALSE, paid |-> FALSE, committed |-> FALSE]])
    <3>1. /\ OthersLocal(q)
          /\ request'[q] = [request[q] EXCEPT !.at = "verdict", !.kept = TRUE, !.outcome =
                  [kind |-> "channel_error", spent |-> FALSE, paid |-> FALSE, committed |-> FALSE]]
      BY <2>2, BecomesOne
    <3>2. /\ DOMAIN request'[q] = LocalFields /\ request'[q].at = "verdict"
          /\ request'[q].outcome = [kind |-> "channel_error", spent |-> FALSE, paid |-> FALSE, committed |-> FALSE]
          /\ request'[q].answer = request[q].answer
      BY <1>4, <3>1 DEF LocalFields
    <3>3. DOMAIN request'[q].outcome = OutcomeFields /\ request'[q].outcome.spent = FALSE
      BY <3>2 DEF OutcomeFields
    <3>4. QED
      BY <1>3, <2>2, <3>1, <3>2, <3>3 DEF Consistent
  <2>3. CASE /\ reply = "ok"
             /\ Becomes(q, [request[q] EXCEPT !.at = "verdict", !.answer = "rejected", !.outcome =
                  [kind |-> "client_error", spent |-> FALSE, paid |-> FALSE, committed |-> FALSE]])
    <3>1. /\ OthersLocal(q)
          /\ request'[q] = [request[q] EXCEPT !.at = "verdict", !.answer = "rejected", !.outcome =
                  [kind |-> "client_error", spent |-> FALSE, paid |-> FALSE, committed |-> FALSE]]
      BY <2>3, BecomesOne
    <3>2. /\ DOMAIN request'[q] = LocalFields /\ request'[q].at = "verdict"
          /\ request'[q].outcome = [kind |-> "client_error", spent |-> FALSE, paid |-> FALSE, committed |-> FALSE]
          /\ request'[q].answer = "rejected"
      BY <1>4, <3>1 DEF LocalFields
    <3>3. DOMAIN request'[q].outcome = OutcomeFields /\ request'[q].outcome.spent = FALSE
          /\ request'[q].outcome.kind = "client_error"
      BY <3>2 DEF OutcomeFields
    <3>4. /\ row'[q].status \notin Kept /\ request'[q].answer \notin Content
          /\ generated[q] = {} /\ DOMAIN row'[q] = RowFields
      BY <1>3, <2>3, <3>2 DEF Content, Kept
    <3>5. QED
      BY <1>3, <2>3, <3>1, <3>2, <3>3, <3>4 DEF Consistent
  <2>4. QED
    BY <1>1, <2>1, <2>2, <2>3
<1>6. QED
  BY <1>2, <1>3, <1>5, QuietStep

LEMMA SettlesAs ==
  ASSUME GatewayInv, NEW q \in Requests, NEW kind, NEW committed, NEW answer, NEW cost,
         request[q].at = "body", SettleAs(q, kind, committed, answer, cost)
  PROVE  /\ OthersLocal(q)
         /\ DOMAIN request'[q] = LocalFields /\ DOMAIN request'[q].outcome = OutcomeFields
         /\ request'[q].outcome.spent = TRUE /\ request'[q].at \in {"record", "verdict"}
         /\ request'[q].answer = answer /\ request'[q].channel = request[q].channel
<1>1. /\ OthersLocal(q)
      /\ request'[q] = [request[q] EXCEPT
            !.at = IF cost > request[q].amount THEN "verdict" ELSE "record",
            !.cost = cost, !.tries = 0, !.answer = answer, !.outcome =
            [kind |-> kind, spent |-> TRUE, paid |-> FALSE, committed |-> committed]]
  BY BecomesOne DEF SettleAs
<1>2. DOMAIN request[q] = LocalFields
  BY Known DEF Consistent
<1>3. /\ DOMAIN request'[q] = LocalFields
      /\ request'[q].at = IF cost > request[q].amount THEN "verdict" ELSE "record"
      /\ request'[q].answer = answer /\ request'[q].channel = request[q].channel
      /\ request'[q].outcome = [kind |-> kind, spent |-> TRUE, paid |-> FALSE, committed |-> committed]
  BY <1>1, <1>2 DEF LocalFields
<1>4. DOMAIN request'[q].outcome = OutcomeFields /\ request'[q].outcome.spent = TRUE
  BY <1>3 DEF OutcomeFields
<1>5. QED
  BY <1>1, <1>3, <1>4

LEMMA StepBody ==
  ASSUME GatewayInv, NEW q \in Requests, Body(q)
  PROVE  GatewayInv'
<1>1. row' = row /\ generated' = generated /\ request[q].at = "body"
  BY DEF Body, At, LocalOnly, LedgerOnly, database
<1>2. Consistent(request[q], row[q], generated[q]) /\ row'[q] = row[q] /\ OthersStay(q)
  BY <1>1, Known, StaysPut
<1>3. PICK kind, committed, answer, cost :
        SettleAs(q, kind, committed, answer, cost) /\ answer \in {"none", "content", "bad_gateway"}
  BY DEF Body
<1>4. /\ OthersLocal(q)
      /\ DOMAIN request'[q] = LocalFields /\ DOMAIN request'[q].outcome = OutcomeFields
      /\ request'[q].outcome.spent = TRUE /\ request'[q].at \in {"record", "verdict"}
      /\ request'[q].answer = answer /\ request'[q].channel = request[q].channel
  BY <1>1, <1>3, SettlesAs
<1>5. Consistent(request'[q], row'[q], generated[q])
  BY <1>1, <1>2, <1>3, <1>4 DEF Consistent, Quiet
<1>6. QED
  BY <1>1, <1>2, <1>4, <1>5, QuietStep

LEMMA StepRecord ==
  ASSUME GatewayInv, NEW q \in Requests, Record(q)
  PROVE  GatewayInv'
<1>1. PICK reply \in L!Replies :
        /\ L!RecordConsumption(q, request[q].channel, request[q].cost, reply)
        /\ \/ GoTo(q, "finalize")
           \/ Becomes(q, [request[q] EXCEPT !.tries = request[q].tries + 1])
           \/ GoTo(q, "verdict")
  BY DEF Record
<1>2. generated' = generated /\ request[q].at = "record"
  BY DEF Record, LedgerOnly, At
<1>3. Consistent(request[q], row[q], generated[q]) /\ RowsShaped(q)
  BY Known
<1>4. /\ OthersStay(q)
      /\ row' = row \/ (RowMoves(q, "in_flight", "consumed_unsettled") /\ row'[q].channel = row[q].channel)
  BY <1>1, <1>3, LedgerRecord
<1>5. /\ DOMAIN row'[q] = RowFields /\ row'[q].channel = row[q].channel
      /\ row'[q].status \in Kept /\ generated[q] = {row[q].channel}
      /\ generated[q] = {request[q].channel}
  BY <1>2, <1>3, <1>4 DEF Consistent, Kept, RowMoves, RowsShaped
<1>6. /\ OthersLocal(q)
      /\ DOMAIN request'[q] = LocalFields /\ request'[q].outcome = request[q].outcome
      /\ request'[q].at \in {"finalize", "record", "verdict"}
      /\ request'[q].answer = request[q].answer /\ request'[q].channel = request[q].channel
  <2>1. DOMAIN request[q] = LocalFields
    BY <1>3 DEF Consistent
  <2>2. CASE \E place \in {"finalize", "verdict"} : GoTo(q, place)
    <3>1. PICK place \in {"finalize", "verdict"} : GoTo(q, place)
      BY <2>2
    <3>2. OthersLocal(q) /\ request'[q] = [request[q] EXCEPT !.at = place]
      BY <3>1, GoesTo
    <3>3. QED
      BY <2>1, <3>2 DEF LocalFields
  <2>3. CASE Becomes(q, [request[q] EXCEPT !.tries = request[q].tries + 1])
    <3>1. OthersLocal(q) /\ request'[q] = [request[q] EXCEPT !.tries = request[q].tries + 1]
      BY <2>3, BecomesOne
    <3>2. QED
      BY <1>2, <2>1, <3>1 DEF LocalFields
  <2>4. QED
    BY <1>1, <2>2, <2>3
<1>7. Consistent(request'[q], row'[q], generated[q])
  BY <1>2, <1>3, <1>5, <1>6 DEF Consistent, Quiet
<1>8. QED
  BY <1>2, <1>4, <1>6, <1>7, QuietStep

\* Finalising is done by the request itself and by the worker, whatever the request is at.
LEMMA Finalized ==
  ASSUME GatewayInv, NEW q \in Requests, NEW reply, L!Finalize(q, reply)
  PROVE  OthersStay(q) /\ Consistent(request[q], row'[q], generated[q])
<1>1. Consistent(request[q], row[q], generated[q]) /\ RowsShaped(q)
  BY Known
<1>2. /\ OthersStay(q)
      /\ row' = row \/ (RowMoves(q, "consumed_unsettled", "settled") /\ row'[q].channel = row[q].channel)
  BY <1>1, LedgerFinalize
<1>3. CASE row' = row
  BY <1>1, <1>2, <1>3
<1>4. CASE RowMoves(q, "consumed_unsettled", "settled") /\ row'[q].channel = row[q].channel
  <2>1. /\ row[q].status = "consumed_unsettled" /\ row'[q].status = "settled"
        /\ DOMAIN row'[q] = RowFields /\ row'[q].channel = row[q].channel
    BY <1>4 DEF RowMoves
  <2>2. QED
    BY <1>1, <1>2, <2>1 DEF Consistent, Kept
<1>5. QED
  BY <1>2, <1>3, <1>4

\* So is a refund, and it only finds holds of which nothing was generated.
LEMMA Refunded ==
  ASSUME GatewayInv, NEW q \in Requests, NEW reply, L!Refund(q, reply)
  PROVE  OthersStay(q) /\ Consistent(request[q], row'[q], generated[q])
<1>1. Consistent(request[q], row[q], generated[q]) /\ RowsShaped(q)
  BY Known
<1>2. OthersStay(q) /\ (row' = row \/ RowMoves(q, "reserved", "refunded"))
  BY <1>1, LedgerRefund
<1>3. CASE row' = row
  BY <1>1, <1>2, <1>3
<1>4. CASE RowMoves(q, "reserved", "refunded")
  <2>1. row[q].status = "reserved" /\ row'[q].status = "refunded" /\ DOMAIN row'[q] = RowFields
    BY <1>4 DEF RowMoves
  <2>2. generated[q] = {}
    BY <1>1, <2>1 DEF Consistent, Kept
  <2>3. row'[q].status \notin Kept
    BY <2>1 DEF Kept
  <2>4. QED
    BY <1>1, <1>2, <2>1, <2>2, <2>3 DEF Consistent
<1>5. QED
  BY <1>2, <1>3, <1>4

LEMMA StepFinalize ==
  ASSUME GatewayInv, NEW q \in Requests, Finalize(q)
  PROVE  GatewayInv'
<1>1. PICK reply \in L!Replies :
        /\ L!Finalize(q, reply)
        /\ Becomes(q, [request[q] EXCEPT !.at = "verdict", !.outcome.paid = (reply = "ok")])
  BY DEF Finalize
<1>2. generated' = generated /\ request[q].at = "finalize"
  BY DEF Finalize, LedgerOnly, At
<1>3. OthersStay(q) /\ Consistent(request[q], row'[q], generated[q])
  BY <1>1, Finalized
<1>4. /\ OthersLocal(q)
      /\ request'[q] = [request[q] EXCEPT !.at = "verdict", !.outcome.paid = (reply = "ok")]
  BY <1>1, BecomesOne
<1>5. /\ DOMAIN request[q] = LocalFields /\ DOMAIN request[q].outcome = OutcomeFields
      /\ request[q].outcome.spent = TRUE
  BY <1>2, Known DEF Consistent
<1>6. /\ DOMAIN request'[q] = LocalFields /\ request'[q].at = "verdict"
      /\ request'[q].outcome = [request[q].outcome EXCEPT !.paid = (reply = "ok")]
      /\ request'[q].answer = request[q].answer
  BY <1>4, <1>5 DEF LocalFields
<1>7. DOMAIN request'[q].outcome = OutcomeFields /\ request'[q].outcome.spent = TRUE
  BY <1>5, <1>6 DEF OutcomeFields
<1>8. Consistent(request'[q], row'[q], generated[q])
  BY <1>2, <1>3, <1>6, <1>7 DEF Consistent
<1>9. QED
  BY <1>2, <1>3, <1>4, <1>8, QuietStep

LEMMA StepVerdict ==
  ASSUME GatewayInv, NEW q \in Requests, Verdict(q)
  PROVE  GatewayInv'
<1>1. row' = row /\ generated' = generated /\ request[q].at = "verdict"
  BY DEF Verdict, At, database
<1>2. Consistent(request[q], row[q], generated[q]) /\ row'[q] = row[q] /\ OthersStay(q)
  BY <1>1, Known, StaysPut
<1>. DEFINE o == request[q].outcome
            goesOn == o.kind = "channel_error" /\ ~o.committed /\ ~o.spent
            held   == o.kind = "channel_error" /\ ~o.committed /\ o.spent
<1>3. IF goesOn
      THEN GoTo(q, "next")
      ELSE Becomes(q, [request[q] EXCEPT !.at = "defer", !.consumed = o.spent, !.settled = o.paid,
                                         !.answer = IF held THEN "held" ELSE request[q].answer])
  BY DEF Verdict
<1>4. DOMAIN request[q] = LocalFields /\ o.spent \in BOOLEAN
  BY <1>2 DEF Consistent
<1>5. CASE goesOn
  <2>1. OthersLocal(q) /\ request'[q] = [request[q] EXCEPT !.at = "next"]
    BY <1>3, <1>5, GoesTo
  <2>2. /\ DOMAIN request'[q] = LocalFields /\ request'[q].at = "next"
        /\ request'[q].outcome = request[q].outcome /\ request'[q].answer = request[q].answer
    BY <1>4, <2>1 DEF LocalFields
  <2>3. o.spent = FALSE /\ o.kind # "client_error"
    BY <1>4, <1>5
  <2>4. Consistent(request'[q], row'[q], generated[q])
    BY <1>1, <1>2, <2>2, <2>3 DEF Consistent
  <2>5. QED
    BY <1>1, <1>2, <2>1, <2>4, QuietStep
<1>6. CASE ~goesOn
  <2>1. /\ OthersLocal(q)
        /\ request'[q] = [request[q] EXCEPT !.at = "defer", !.consumed = o.spent, !.settled = o.paid,
                                         !.answer = IF held THEN "held" ELSE request[q].answer]
    BY <1>3, <1>6, BecomesOne
  <2>2. /\ DOMAIN request'[q] = LocalFields /\ request'[q].at = "defer"
        /\ request'[q].outcome = request[q].outcome
        /\ request'[q].answer \in {"held", request[q].answer}
    BY <1>4, <2>1 DEF LocalFields
  <2>3. "held" \notin Content \cup Quiet
    BY DEF Content, Quiet
  <2>4. Consistent(request'[q], row'[q], generated[q])
    BY <1>1, <1>2, <2>2, <2>3 DEF Consistent
  <2>5. QED
    BY <1>1, <1>2, <2>1, <2>4, QuietStep
<1>7. QED
  BY <1>5, <1>6

LEMMA StepReturn ==
  ASSUME GatewayInv, NEW q \in Requests, Return(q)
  PROVE  GatewayInv'
<1>1. /\ row' = row \/ (\E reply \in L!Replies : L!Refund(q, reply))
      /\ Ends(q, request[q].answer) /\ generated' = generated /\ request[q].at = "defer"
  BY DEF Return, LedgerOnly, database, At
<1>2. OthersStay(q) /\ Consistent(request[q], row'[q], generated[q])
  <2>1. CASE row' = row
    BY <2>1, Known, StaysPut
  <2>2. CASE \E reply \in L!Replies : L!Refund(q, reply)
    <3>1. PICK reply \in L!Replies : L!Refund(q, reply)
      BY <2>2
    <3>2. QED
      BY <3>1, Refunded
  <2>3. QED
    BY <1>1, <2>1, <2>2
<1>3. /\ OthersLocal(q)
      /\ DOMAIN request'[q] = LocalFields /\ DOMAIN request'[q].outcome = OutcomeFields
      /\ request'[q].outcome.spent = FALSE
      /\ request'[q].at = "done" /\ request'[q].answer = request[q].answer
  BY <1>1, EndsWith
<1>4. Consistent(request'[q], row'[q], generated[q])
  BY <1>1, <1>2, <1>3 DEF Consistent
<1>5. QED
  BY <1>1, <1>2, <1>3, <1>4, QuietStep

-----------------------------------------------------------------------------
(* What befalls requests, the worker and the clock.                        *)

LEMMA StepPanic ==
  ASSUME GatewayInv, NEW q \in Requests, Panic(q)
  PROVE  GatewayInv'
<1>1. row' = row /\ generated' = generated /\ request[q].at \in Attempting
  BY DEF Panic, LocalOnly, LedgerOnly, database
<1>2. Consistent(request[q], row[q], generated[q]) /\ row'[q] = row[q] /\ OthersStay(q)
  BY <1>1, Known, StaysPut
<1>3. /\ OthersLocal(q)
      /\ request'[q] = [request[q] EXCEPT !.at = "defer", !.answer = "internal_error"]
  BY BecomesOne DEF Panic
<1>4. /\ DOMAIN request'[q] = LocalFields /\ request'[q].at = "defer"
      /\ request'[q].outcome = request[q].outcome /\ request'[q].answer = "internal_error"
  BY <1>2, <1>3 DEF Consistent, LocalFields
<1>5. request'[q].answer \notin Content \cup Quiet
  BY <1>4 DEF Content, Quiet
<1>6. Consistent(request'[q], row'[q], generated[q])
  BY <1>2, <1>4, <1>5 DEF Consistent
<1>7. QED
  BY <1>1, <1>2, <1>3, <1>6, QuietStep

\* A request that dies knows nothing any more.
LEMMA StepCrash ==
  ASSUME GatewayInv, Crash
  PROVE  GatewayInv'
<1>1. /\ row' = row /\ generated' = generated
      /\ request' = [q \in Requests |-> IF request[q].at \in {"start", "done"} THEN request[q]
                                        ELSE [NewRequest EXCEPT !.at = "dead"]]
  BY DEF Crash, database
<1>2. \A q \in Requests : Consistent(request'[q], row'[q], generated'[q])
  <2>. SUFFICES ASSUME NEW q \in Requests
                PROVE  Consistent(request'[q], row[q], generated[q])
    BY <1>1
  <2>1. Consistent(request[q], row[q], generated[q])
    BY Known
  <2>2. CASE request[q].at \in {"start", "done"}
    BY <1>1, <2>1, <2>2
  <2>3. CASE request[q].at \notin {"start", "done"}
    <3>1. request'[q] = [NewRequest EXCEPT !.at = "dead"]
      BY <1>1, <2>3
    <3>2. /\ DOMAIN NewRequest = LocalFields /\ DOMAIN NewRequest.outcome = OutcomeFields
          /\ NewRequest.outcome.spent = FALSE /\ NewRequest.answer = "none"
      BY DEF NewRequest, NoOutcome, LocalFields, OutcomeFields
    <3>. HIDE DEF NewRequest
    <3>3. /\ DOMAIN request'[q] = LocalFields /\ DOMAIN request'[q].outcome = OutcomeFields
          /\ request'[q].outcome.spent = FALSE
          /\ request'[q].at = "dead" /\ request'[q].answer = "none"
      BY <3>1, <3>2 DEF LocalFields
    <3>4. request'[q].answer \notin Content \cup Quiet
      BY <3>3 DEF Content, Quiet
    <3>5. QED
      BY <2>1, <3>3, <3>4 DEF Consistent
  <2>4. QED
    BY <2>2, <2>3
<1>. HIDE DEF Consistent
<1>3. QED
  BY <1>1, <1>2 DEF GatewayInv

\* Transactions of the worker, and time, touch one row and no request.
LEMMA RowStep ==
  ASSUME GatewayInv, NEW q \in Requests, request' = request, generated' = generated,
         OthersStay(q), Consistent(request[q], row'[q], generated[q])
  PROVE  GatewayInv'
<1>. HIDE DEF Consistent
<1>1. OthersLocal(q) /\ request'[q] = request[q]
  BY DEF GatewayInv, OthersLocal
<1>2. QED
  BY <1>1, QuietStep

LEMMA StepRecover ==
  ASSUME GatewayInv, Recover
  PROVE  GatewayInv'
<1>1. request' = request /\ generated' = generated
  BY DEF Recover, Scan, RecoverConsumed, RecoverStale, RecoverEnds
<1>2. CASE row' = row
  BY <1>1, <1>2 DEF GatewayInv
<1>3. CASE \E q \in Requests, reply \in L!Replies : L!Finalize(q, reply)
  <2>1. PICK q \in Requests, reply \in L!Replies : L!Finalize(q, reply)
    BY <1>3
  <2>2. QED
    BY <1>1, <2>1, Finalized, RowStep
<1>4. CASE \E q \in Requests, reply \in L!Replies : L!Refund(q, reply)
  <2>1. PICK q \in Requests, reply \in L!Replies : L!Refund(q, reply)
    BY <1>4
  <2>2. QED
    BY <1>1, <2>1, Refunded, RowStep
<1>5. \/ row' = row
      \/ \E q \in Requests, reply \in L!Replies : L!Finalize(q, reply)
      \/ \E q \in Requests, reply \in L!Replies : L!Refund(q, reply)
  BY DEF Recover, Scan, RecoverConsumed, RecoverStale, RecoverEnds, database
<1>6. QED
  BY <1>2, <1>3, <1>4, <1>5

LEMMA StepAge ==
  ASSUME GatewayInv, NEW q \in Requests, Age(q)
  PROVE  GatewayInv'
<1>1. Consistent(request[q], row[q], generated[q]) /\ RowsShaped(q)
  BY Known
<1>2. /\ OthersStay(q) /\ DOMAIN row'[q] = RowFields
      /\ row'[q].status = row[q].status /\ row'[q].channel = row[q].channel
  BY <1>1, LedgerGrowStale DEF Age
<1>3. Consistent(request[q], row'[q], generated[q])
  BY <1>1, <1>2 DEF Consistent
<1>4. QED
  BY <1>2, <1>3, RowStep DEF Age

\* Requests that start, and requests at rest.
LEMMA InitGateway ==
  ASSUME NEW l, l = NewRequest \/ l = [NewRequest EXCEPT !.at = "done"],
         L!Init, request = [q \in Requests |-> l],
         generated = [q \in Requests |-> {}]
  PROVE  GatewayInv
<1>1. row = [q \in Requests |-> L!AbsentRow]
  BY DEF L!Init
<1>2. Consistent(l, L!AbsentRow, {})
  <2>1. /\ DOMAIN l = LocalFields /\ DOMAIN l.outcome = OutcomeFields
        /\ l.outcome.spent = FALSE /\ l.answer = "none" /\ l.at \in {"start", "done"}
    BY DEF NewRequest, NoOutcome, LocalFields, OutcomeFields
  <2>2. DOMAIN L!AbsentRow = RowFields /\ L!AbsentRow.status = "absent"
    BY DEF L!AbsentRow, RowFields
  <2>3. l.answer \notin Content \cup Quiet
    BY <2>1 DEF Content, Quiet
  <2>. HIDE DEF L!AbsentRow
  <2>4. QED
    BY <2>1, <2>2, <2>3 DEF Consistent, Kept
<1>. HIDE DEF Consistent, L!AbsentRow
<1>3. QED
  BY <1>1, <1>2 DEF GatewayInv

LEMMA NextGateway == GatewayInv /\ [Next]_vars => GatewayInv'
<1>. SUFFICES ASSUME GatewayInv, [Next]_vars
              PROVE  GatewayInv'
  OBVIOUS
<1>1. CASE \E q \in Requests : Serve(q) \/ HangUp(q) \/ Panic(q)
  <2>1. PICK q \in Requests : Serve(q) \/ HangUp(q) \/ Panic(q)
    BY <1>1
  <2>2. CASE Serve(q)
    BY <2>2, StepSelect, StepReserve, StepNextCandidate, StepPrepare, StepMark, StepUnmark,
       StepSend, StepUndial, StepLost, StepRejected, StepBody, StepRecord, StepFinalize,
       StepVerdict, StepReturn DEF Serve
  <2>3. CASE HangUp(q)
    BY <2>3 DEF HangUp, GatewayInv, database
  <2>4. CASE Panic(q)
    BY <2>4, StepPanic
  <2>5. QED
    BY <2>1, <2>2, <2>3, <2>4
<1>2. CASE Crash
  BY <1>2, StepCrash
<1>3. CASE Recover
  BY <1>3, StepRecover
<1>4. CASE \E q \in Requests : Age(q)
  BY <1>4, StepAge
<1>5. CASE \E ch \in Channels : Cool(ch)
  <2>1. row' = row /\ request' = request /\ generated' = generated
    BY <1>5 DEF Cool, database
  <2>2. QED
    BY <2>1 DEF GatewayInv
<1>6. CASE UNCHANGED vars
  BY <1>6 DEF vars, database, GatewayInv
<1>7. QED
  BY <1>1, <1>2, <1>3, <1>4, <1>5, <1>6 DEF Next

\* What is known of every request, in every state.
LEMMA AlwaysGateway == Spec => []GatewayInv
<1>1. Init => GatewayInv
  BY InitGateway DEF Init
<1>2. QED
  BY <1>1, NextGateway, PTL DEF Spec

\* The four properties, from the invariant.
LEMMA GatewayIsHonest ==
  GatewayInv => NoFreeGeneration /\ OneGeneration /\ ChargedForService /\ HonestAnswers
<1>. SUFFICES ASSUME GatewayInv PROVE NoFreeGeneration /\ OneGeneration /\ ChargedForService /\ HonestAnswers
  OBVIOUS
<1>1. NoFreeGeneration
  BY DEF GatewayInv, Consistent, Kept, NoFreeGeneration
<1>2. OneGeneration
  <2>. SUFFICES ASSUME NEW q \in Requests
                PROVE  Cardinality(generated[q]) <= 1
    BY DEF OneGeneration
  <2>1. generated[q] = {} \/ generated[q] = {row[q].channel}
    BY Known DEF Consistent
  <2>2. Cardinality(generated[q]) \in {0, 1}
    BY <2>1, FS_EmptySet, FS_Singleton
  <2>3. QED
    BY <2>2
<1>3. ChargedForService
  BY DEF GatewayInv, Consistent, ChargedForService
<1>4. HonestAnswers
  BY DEF GatewayInv, Consistent, HonestAnswers, At, Kept, Quiet, Content
<1>5. QED
  BY <1>1, <1>2, <1>3, <1>4

\* A hold of which a provider may have run the model is never refunded nor up for refund,
\* whatever fails, hangs up, panics, stalls or crashes (MarkInFlight before send,
\* definitelyUnconsumedStatus, ReleaseAttempt, Refund).
THEOREM NothingForFree == Spec => []NoFreeGeneration
BY AlwaysGateway, GatewayIsHonest, PTL

\* No request is replayed on a second channel once a first one may have run the model (the
\* candidate loop's consumed and committed tests).
THEOREM NeverReplayed == Spec => []OneGeneration
BY AlwaysGateway, GatewayIsHonest, PTL

\* A user is charged only for a generation that took place, under the channel that ran it
\* (Settle after a 2xx, the channel in RecordConsumption).
THEOREM OnlyServiceCharged == Spec => []ChargedForService
BY AlwaysGateway, GatewayIsHonest, PTL

\* What a client is told of its request is true of what was generated and of its hold
\* (writeError and relayUpstreamError at the ends of forward).
THEOREM AnswersAreHonest == Spec => []HonestAnswers
BY AlwaysGateway, GatewayIsHonest, PTL

-----------------------------------------------------------------------------
(* Attempts: what a request keeps while it holds a permit.                 *)

Kinds == {"success", "client_error", "channel_error", "neutral"}

\* Where an attempt holds a permit, and where it has an outcome.
Holding == Attempting \cup {"verdict"}
Judged  == {"record", "finalize", "verdict"}

\* What a request keeps of its attempt when it goes on.
Keeps(q) == /\ OthersLocal(q)
            /\ request'[q].channel = request[q].channel
            /\ request'[q].generation = request[q].generation
            /\ request'[q].candidates = request[q].candidates
            /\ request'[q].consumed = request[q].consumed
            /\ request'[q].settled = request[q].settled

\* A request goes on to a place with an outcome.
Goes(q, place, o) == Keeps(q) /\ request'[q].at = place /\ request'[q].outcome = o

LEMMA Going ==
  ASSUME GatewayInv, NEW q \in Requests
  PROVE  /\ \A place : GoTo(q, place) => Goes(q, place, request[q].outcome)
         /\ \A kind, spent, committed : Returns(q, kind, spent, committed) =>
              Goes(q, "verdict", [kind |-> kind, spent |-> spent, paid |-> FALSE, committed |-> committed])
         /\ \A tries : Becomes(q, [request[q] EXCEPT !.tries = tries]) => Goes(q, request[q].at, request[q].outcome)
<1>0. DOMAIN request[q] = LocalFields
  BY Known DEF Consistent
<1>1. ASSUME NEW place, GoTo(q, place)
      PROVE  Goes(q, place, request[q].outcome)
  <2>1. OthersLocal(q) /\ request'[q] = [request[q] EXCEPT !.at = place]
    BY <1>1, GoesTo
  <2>2. QED
    BY <1>0, <2>1 DEF LocalFields, Goes, Keeps
<1>2. ASSUME NEW kind, NEW spent, NEW committed, Returns(q, kind, spent, committed)
      PROVE  Goes(q, "verdict", [kind |-> kind, spent |-> spent, paid |-> FALSE, committed |-> committed])
  <2>. DEFINE o == [kind |-> kind, spent |-> spent, paid |-> FALSE, committed |-> committed]
  <2>1. OthersLocal(q) /\ request'[q] = [request[q] EXCEPT !.at = "verdict", !.outcome = o]
    BY <1>2, BecomesOne DEF Returns
  <2>. HIDE DEF o
  <2>2. Goes(q, "verdict", o)
    BY <1>0, <2>1 DEF LocalFields, Goes, Keeps
  <2>3. QED
    BY <2>2 DEF o
<1>3. ASSUME NEW tries, Becomes(q, [request[q] EXCEPT !.tries = tries])
      PROVE  Goes(q, request[q].at, request[q].outcome)
  <2>1. OthersLocal(q) /\ request'[q] = [request[q] EXCEPT !.tries = tries]
    BY <1>3, BecomesOne
  <2>2. QED
    BY <1>0, <2>1 DEF LocalFields, Goes, Keeps
<1>4. QED
  BY <1>1, <1>2, <1>3

\* So it goes when the answer to the client is known, or a refusal is kept for it.
LEMMA Judging ==
  ASSUME GatewayInv, NEW q \in Requests, NEW o
  PROVE  /\ \A answer : Becomes(q, [request[q] EXCEPT !.at = "verdict", !.answer = answer, !.outcome = o])
              => Goes(q, "verdict", o)
         /\ Becomes(q, [request[q] EXCEPT !.at = "verdict", !.kept = TRUE, !.outcome = o]) => Goes(q, "verdict", o)
<1>0. DOMAIN request[q] = LocalFields
  BY Known DEF Consistent
<1>1. ASSUME NEW answer, Becomes(q, [request[q] EXCEPT !.at = "verdict", !.answer = answer, !.outcome = o])
      PROVE  Goes(q, "verdict", o)
  <2>1. OthersLocal(q) /\ request'[q] = [request[q] EXCEPT !.at = "verdict", !.answer = answer, !.outcome = o]
    BY <1>1, BecomesOne
  <2>2. QED
    BY <1>0, <2>1 DEF LocalFields, Goes, Keeps
<1>2. ASSUME Becomes(q, [request[q] EXCEPT !.at = "verdict", !.kept = TRUE, !.outcome = o])
      PROVE  Goes(q, "verdict", o)
  <2>1. OthersLocal(q) /\ request'[q] = [request[q] EXCEPT !.at = "verdict", !.kept = TRUE, !.outcome = o]
    BY <1>2, BecomesOne
  <2>2. QED
    BY <1>0, <2>1 DEF LocalFields, Goes, Keeps
<1>3. QED
  BY <1>1, <1>2

\* The body of an answer: its usage goes on to be recorded, unless it is beyond the hold.
LEMMA BodyGoes ==
  ASSUME GatewayInv, NEW q \in Requests, Body(q)
  PROVE  \E place \in {"record", "verdict"}, kind \in {"success", "channel_error", "neutral"} : \E committed :
           Goes(q, place, [kind |-> kind, spent |-> TRUE, paid |-> FALSE, committed |-> committed])
<1>1. PICK kind \in {"success", "channel_error", "neutral"} : \E c, r, x : SettleAs(q, kind, c, r, x)
  <2>1. CASE request[q].stream
    <3>1. \/ \E x : SettleAs(q, "success", TRUE, "content", x)
          \/ \E r, x : SettleAs(q, "channel_error", TRUE, r, x)
          \/ \E c, r, x : SettleAs(q, "neutral", c, r, x)
      BY <2>1 DEF Body
    <3>2. QED
      BY <3>1
  <2>2. CASE ~request[q].stream
    <3>1. \E r, x : SettleAs(q, "success", TRUE, r, x)
      BY <2>2 DEF Body
    <3>2. QED
      BY <3>1
  <2>3. QED
    BY <2>1, <2>2
<1>0. PICK committed, answer, cost : SettleAs(q, kind, committed, answer, cost)
  BY <1>1
<1>. DEFINE o == [kind |-> kind, spent |-> TRUE, paid |-> FALSE, committed |-> committed]
            place == IF cost > request[q].amount THEN "verdict" ELSE "record"
<1>2. /\ OthersLocal(q)
      /\ request'[q] = [request[q] EXCEPT !.at = place, !.cost = cost, !.tries = 0, !.answer = answer, !.outcome = o]
  BY <1>0, BecomesOne DEF SettleAs
<1>3. DOMAIN request[q] = LocalFields
  BY Known DEF Consistent
<1>4. Goes(q, place, o)
  BY <1>2, <1>3 DEF Goes, Keeps, LocalFields
<1>5. place \in {"record", "verdict"}
  OBVIOUS
<1>. HIDE DEF place
<1>6. QED
  BY <1>1, <1>4, <1>5

LEMMA FinalizeGoes ==
  ASSUME GatewayInv, NEW q \in Requests, NEW paid,
         Becomes(q, [request[q] EXCEPT !.at = "verdict", !.outcome.paid = paid])
  PROVE  Goes(q, "verdict", [request[q].outcome EXCEPT !.paid = paid])
<1>1. /\ OthersLocal(q)
      /\ request'[q] = [request[q] EXCEPT !.at = "verdict", !.outcome.paid = paid]
  BY BecomesOne
<1>2. DOMAIN request[q] = LocalFields
  BY Known DEF Consistent
<1>3. QED
  BY <1>1, <1>2 DEF Goes, Keeps, LocalFields

\* The steps of an attempt up to its outcome leave the breaker alone and keep the permit.
Attempts(q) == Prepare(q) \/ Mark(q) \/ Unmark(q) \/ Send(q) \/ Undial(q) \/ Lost(q) \/ Rejected(q)
               \/ Body(q) \/ Record(q) \/ Finalize(q)

\* The attempt still holds its permit, and has an outcome where it needs one.
HoldsOn(q) == /\ Keeps(q) /\ request'[q].at \in Holding
              /\ request'[q].at \in Judged => request'[q].outcome.kind \in Kinds

LEMMA AttemptGoes ==
  ASSUME GatewayInv, NEW q \in Requests, Attempts(q), request[q].at \in Judged => request[q].outcome.kind \in Kinds
  PROVE  breaker' = breaker /\ request[q].at \in Attempting /\ HoldsOn(q)
<1>1. breaker' = breaker /\ request[q].at \in Attempting
  BY DEF Attempts, Prepare, Mark, Unmark, Send, Undial, Lost, Rejected, Body, Record, Finalize,
         LocalOnly, LedgerOnly, At, Attempting
<1>2. \A place : Goes(q, place, request[q].outcome) /\ place \in Attempting
                  /\ (place \notin Judged \/ request[q].at \in Judged) => HoldsOn(q)
  BY DEF Goes, HoldsOn, Holding
<1>3. \A kind, spent, paid, committed, place :
         Goes(q, place, [kind |-> kind, spent |-> spent, paid |-> paid, committed |-> committed])
         /\ kind \in Kinds /\ place \in {"verdict", "record"} => HoldsOn(q)
  BY DEF Goes, HoldsOn, Holding, Attempting
<1>4. CASE Finalize(q)
  <2>1. PICK paid : Becomes(q, [request[q] EXCEPT !.at = "verdict", !.outcome.paid = paid])
    BY <1>4 DEF Finalize
  <2>2. Goes(q, "verdict", [request[q].outcome EXCEPT !.paid = paid])
    BY <2>1, FinalizeGoes
  <2>3. request[q].outcome.kind \in Kinds /\ DOMAIN request[q].outcome = OutcomeFields
    BY <1>4, Known DEF Finalize, At, Consistent, Judged
  <2>4. QED
    BY <1>1, <2>2, <2>3 DEF Goes, HoldsOn, Holding, OutcomeFields
<1>5. CASE Body(q)
  <2>1. {"success", "channel_error", "neutral"} \subseteq Kinds
    BY DEF Kinds
  <2>2. QED
    BY <1>1, <1>3, <1>5, <2>1, BodyGoes
<1>6. CASE Prepare(q) \/ Unmark(q) \/ Lost(q)
  <2>1. \/ \E kind \in Kinds : \E spent, committed : Returns(q, kind, spent, committed)
        \/ GoTo(q, "mark")
    BY <1>6 DEF Prepare, Unmark, Lost, Kinds
  <2>2. "mark" \in Attempting \ Judged
    BY DEF Attempting, Judged
  <2>3. QED
    BY <1>1, <1>2, <1>3, <2>1, <2>2, Going
<1>7. CASE Mark(q)
  <2>1. \E place \in Attempting \ Judged : GoTo(q, place)
    BY <1>7 DEF Mark, Attempting, Judged
  <2>2. QED
    BY <1>1, <1>2, <2>1, Going
<1>8. CASE Undial(q)
  <2>1. (\E place \in Attempting \ Judged : GoTo(q, place)) \/ \E kind \in Kinds : Returns(q, kind, FALSE, FALSE)
    BY <1>8 DEF Undial, Attempting, Judged, Kinds
  <2>2. QED
    BY <1>1, <1>2, <1>3, <2>1, Going
<1>9. CASE Send(q)
  <2>1. \/ \E place \in Attempting \ Judged : GoTo(q, place)
        \/ Becomes(q, [request[q] EXCEPT !.at = "verdict", !.answer = "upstream_error", !.outcome =
               [kind |-> "channel_error", spent |-> TRUE, paid |-> FALSE, committed |-> TRUE]])
    BY <1>9 DEF Send, Attempting, Judged
  <2>2. "channel_error" \in Kinds
    BY DEF Kinds
  <2>3. QED
    BY <1>1, <1>2, <1>3, <2>1, <2>2, Going, Judging
<1>10. CASE Rejected(q)
  <2>1. \/ Returns(q, "channel_error", TRUE, FALSE)
        \/ Becomes(q, [request[q] EXCEPT !.at = "verdict", !.kept = TRUE, !.outcome =
             [kind |-> "channel_error", spent |-> FALSE, paid |-> FALSE, committed |-> FALSE]])
        \/ Becomes(q, [request[q] EXCEPT !.at = "verdict", !.answer = "rejected", !.outcome =
             [kind |-> "client_error", spent |-> FALSE, paid |-> FALSE, committed |-> FALSE]])
    BY <1>10 DEF Rejected
  <2>2. {"channel_error", "client_error"} \subseteq Kinds
    BY DEF Kinds
  <2>3. \/ Goes(q, "verdict", [kind |-> "channel_error", spent |-> TRUE, paid |-> FALSE, committed |-> FALSE])
        \/ Goes(q, "verdict", [kind |-> "channel_error", spent |-> FALSE, paid |-> FALSE, committed |-> FALSE])
        \/ Goes(q, "verdict", [kind |-> "client_error", spent |-> FALSE, paid |-> FALSE, committed |-> FALSE])
    BY <2>1, Going, Judging
  <2>4. \E kind \in Kinds : \E spent :
          Goes(q, "verdict", [kind |-> kind, spent |-> spent, paid |-> FALSE, committed |-> FALSE])
    BY <2>2, <2>3
  <2>5. QED
    BY <1>1, <1>3, <2>2, <2>4
<1>11. CASE Record(q)
  <2>1. /\ request[q].at = "record"
        /\ GoTo(q, "finalize") \/ GoTo(q, "verdict")
           \/ Becomes(q, [request[q] EXCEPT !.tries = request[q].tries + 1])
    BY <1>11 DEF Record, At
  <2>2. \E place \in {"finalize", "verdict", "record"} : Goes(q, place, request[q].outcome)
    BY <2>1, Going
  <2>3. request[q].outcome.kind \in Kinds
    BY <2>1 DEF Judged
  <2>4. QED
    BY <1>1, <2>2, <2>3 DEF Goes, HoldsOn, Holding, Attempting
<1>12. QED
  BY <1>1, <1>4, <1>5, <1>6, <1>7, <1>8, <1>9, <1>10, <1>11 DEF Attempts

-----------------------------------------------------------------------------
(* What requests share: the slots of the breakers.                         *)

\* A breaker stays one when its fields are set to values of their types, in the
\* combinations the transitions use.
LEMMA WithFields ==
  ASSUME NEW b \in B!BreakerType, NEW s \in B!States, NEW f \in Nat, NEW c \in BOOLEAN, NEW p \in Nat,
         NEW g \in Nat
  PROVE  /\ [b EXCEPT !.fails = f] \in B!BreakerType
         /\ [b EXCEPT !.probes = p] \in B!BreakerType
         /\ [b EXCEPT !.cooled = c] \in B!BreakerType
         /\ [b EXCEPT !.state = s, !.probes = p, !.generation = g] \in B!BreakerType
         /\ [b EXCEPT !.state = s, !.fails = f, !.probes = p, !.generation = g] \in B!BreakerType
         /\ [b EXCEPT !.state = s, !.cooled = c, !.probes = p, !.generation = g] \in B!BreakerType
<1>1. [b EXCEPT !.fails = f] \in B!BreakerType /\ [b EXCEPT !.probes = p] \in B!BreakerType
  BY DEF B!BreakerType
<1>2. [b EXCEPT !.state = s, !.probes = p, !.generation = g] \in B!BreakerType
  BY DEF B!BreakerType
<1>3. [b EXCEPT !.state = s, !.fails = f, !.probes = p, !.generation = g] \in B!BreakerType
  BY DEF B!BreakerType
<1>4. [b EXCEPT !.state = s, !.cooled = c, !.probes = p, !.generation = g] \in B!BreakerType
  BY DEF B!BreakerType
<1>5. [b EXCEPT !.cooled = c] \in B!BreakerType
  BY DEF B!BreakerType
<1>6. QED
  BY <1>1, <1>2, <1>3, <1>4, <1>5

\* The transitions keep the type of a breaker.
LEMMA TransitionsType ==
  ASSUME GatewayOK, NEW b \in B!BreakerType
  PROVE  /\ B!Admitted(b) \in B!BreakerType /\ B!Cooled(b) \in B!BreakerType
         /\ \A g \in Nat, result \in B!Results : B!Recorded(b, g, result) \in B!BreakerType
<1>1. /\ b.generation + 1 \in Nat /\ b.probes + 1 \in Nat /\ b.fails + 1 \in Nat
      /\ (b.probes > 0 => b.probes - 1 \in Nat)
      /\ b.state \in B!States
  BY DEF B!BreakerType
<1>2. B!Admitted(b) \in B!BreakerType
  <2>1. CASE b.state = "closed"
    BY <2>1 DEF B!Admitted
  <2>2. CASE b.state = "open"
    BY <1>1, <2>2, WithFields DEF B!States, B!Admitted
  <2>3. CASE b.state = "half_open"
    BY <1>1, <2>3, WithFields DEF B!Admitted
  <2>4. QED
    BY <1>1, <2>1, <2>2, <2>3 DEF B!States
<1>3. B!Succeeded(b) \in B!BreakerType
  BY <1>1, WithFields DEF B!States, B!Succeeded
<1>4. B!Trip(b) \in B!BreakerType
  BY <1>1, WithFields DEF B!States, B!Trip
<1>5. B!Failed(b) \in B!BreakerType
  <2>. DEFINE counted == [b EXCEPT !.fails = b.fails + 1]
  <2>1. counted \in B!BreakerType /\ counted.generation + 1 \in Nat
    BY <1>1, WithFields DEF B!BreakerType
  <2>2. B!Trip(counted) \in B!BreakerType
    BY <2>1, WithFields DEF B!States, B!Trip
  <2>3. CASE b.state = "closed" /\ b.fails + 1 < FailureThreshold
    BY <1>1, <2>1, <2>3 DEF B!Failed, GatewayOK
  <2>4. CASE b.state = "closed" /\ b.fails + 1 >= FailureThreshold
    <3>1. B!Failed(b) = B!Trip(counted)
      BY <1>1, <2>4 DEF B!Failed, GatewayOK
    <3>2. QED
      BY <2>2, <3>1
  <2>5. CASE b.state # "closed"
    BY <1>1, <1>4, <2>5 DEF B!States, B!Failed
  <2>6. QED
    BY <1>1, <2>3, <2>4, <2>5 DEF GatewayOK
<1>6. B!Ended(b) \in B!BreakerType
  BY <1>1, WithFields DEF B!Ended
<1>7. B!Cooled(b) \in B!BreakerType
  BY <1>1, WithFields DEF B!Cooled
<1>8. QED
  BY <1>2, <1>3, <1>5, <1>6, <1>7 DEF B!Results, B!Recorded

\* What a result does to state, slots and generation: it is ignored, or a slot is given back, or
\* the breaker changes its state.
Reports(b, g, n) ==
  /\ g # b.generation => n = b
  /\ n.generation >= b.generation /\ n.generation \in Nat
  /\ n.state = "half_open" /\ n # b =>
       /\ b.state = "half_open" /\ b.probes > 0
       /\ n.probes = b.probes - 1 /\ n.generation = b.generation
  /\ n.state = "half_open" /\ g = b.generation /\ b.probes > 0 => n # b

LEMMA Recording ==
  ASSUME GatewayOK, NEW b \in B!BreakerType, NEW g \in Nat, NEW result \in B!Results
  PROVE  Reports(b, g, B!Recorded(b, g, result))
<1>. DEFINE n == B!Recorded(b, g, result)
<1>1. /\ b.generation \in Nat /\ b.probes \in Nat /\ b.fails \in Nat /\ b.state \in B!States
      /\ DOMAIN b = {"state", "fails", "cooled", "probes", "generation"}
  BY DEF B!BreakerType
<1>2. CASE g # b.generation
  BY <1>1, <1>2 DEF B!Recorded, Reports
<1>3. CASE g = b.generation /\ result = "success"
  BY <1>1, <1>3 DEF B!Recorded, B!Succeeded, B!States, Reports
<1>4. CASE g = b.generation /\ result = "failure"
  BY <1>1, <1>4 DEF B!Recorded, B!Failed, B!Trip, B!States, GatewayOK, Reports
<1>5. CASE g = b.generation /\ result = "neutral"
  BY <1>1, <1>5 DEF B!Recorded, B!Ended, B!States, Reports
<1>6. QED
  BY <1>2, <1>3, <1>4, <1>5 DEF B!Results

LEMMA Admitting ==
  ASSUME GatewayOK, NEW b \in B!BreakerType, B!Ready(b), NEW n, n = B!Admitted(b)
  PROVE  /\ n.generation >= b.generation /\ n.generation \in Nat
         /\ \/ n = b /\ n.state = "closed"
            \/ n.state = "half_open" /\ b.state = "half_open" /\ n.generation = b.generation
               /\ n.probes = b.probes + 1
            \/ n.state = "half_open" /\ n.generation = b.generation + 1 /\ n.probes = 1
BY DEF B!BreakerType, B!States, B!Admitted

\* What a request holds: candidates, and in an attempt the permit of a breaker that was in that
\* generation.
PermitOK(l) ==
  /\ l.candidates \in Seq(Channels)
  /\ l.at \in Holding => /\ l.channel \in Channels /\ l.generation \in Nat
                         /\ l.generation <= breaker[l.channel].generation
  /\ l.at \in Judged => l.outcome.kind \in Kinds

SlotsInv == /\ breaker \in [Channels -> B!BreakerType]
            /\ \A q \in Requests : PermitOK(request[q])
            /\ PermitsPaired

\* A request outside of attempts that stays outside.
StaysOutside(q) == /\ OthersLocal(q)
                   /\ request[q].at \notin Holding /\ request'[q].at \notin Holding
                   /\ request'[q].candidates \in Seq(Channels)

\* Without a call of a breaker, the slots stay with the attempts that have them.
LEMMA SlotsStay ==
  ASSUME SlotsInv, NEW q \in Requests, breaker' = breaker,
         \/ StaysOutside(q)
         \/ request[q].at \in Holding /\ HoldsOn(q)
  PROVE  SlotsInv'
<1>1. \A p \in Requests \ {q} : request'[p] = request[p]
  BY DEF StaysOutside, HoldsOn, Keeps, OthersLocal
<1>2. Judged \subseteq Holding
  BY DEF Judged, Holding, Attempting
<1>3. PermitOK(request[q])'
  <2>1. PermitOK(request[q])
    BY DEF SlotsInv
  <2>2. CASE StaysOutside(q)
    BY <1>2, <2>2 DEF PermitOK, StaysOutside
  <2>3. CASE request[q].at \in Holding /\ HoldsOn(q)
    BY <2>1, <2>3 DEF PermitOK, HoldsOn, Keeps
  <2>4. QED
    BY <2>2, <2>3
<1>4. \A p \in Requests : PermitOK(request[p])'
  <2>1. ASSUME NEW p \in Requests \ {q} PROVE PermitOK(request[p])'
    BY <1>1, <2>1 DEF PermitOK, SlotsInv
  <2>2. QED
    BY <1>3, <2>1
<1>5. ASSUME NEW ch \in Channels PROVE Outstanding(ch)' = Outstanding(ch)
  <2>1. q \in Outstanding(ch)' <=> q \in Outstanding(ch)
    BY DEF Outstanding, StaysOutside, HoldsOn, Keeps, Holding
  <2>2. \A p \in Requests \ {q} : p \in Outstanding(ch)' <=> p \in Outstanding(ch)
    BY <1>1 DEF Outstanding
  <2>3. Outstanding(ch) \subseteq Requests /\ Outstanding(ch)' \subseteq Requests
    BY DEF Outstanding
  <2>4. QED
    BY <2>1, <2>2, <2>3
<1>6. PermitsPaired'
  BY <1>5 DEF PermitsPaired, SlotsInv
<1>7. QED
  BY <1>4, <1>6 DEF SlotsInv

\* A step that is no request's.
LEMMA SlotsAside == ASSUME SlotsInv, breaker' = breaker, request' = request PROVE SlotsInv'
BY DEF SlotsInv, PermitOK, PermitsPaired, Outstanding

\* The breaker of one channel is called by one request: what is to be shown of the others follows.
LEMMA SlotsCalled ==
  ASSUME SlotsInv, NEW q \in Requests, NEW ch \in Channels, NEW n \in B!BreakerType,
         breaker' = [breaker EXCEPT ![ch] = n], n.generation >= breaker[ch].generation,
         OthersLocal(q), request[q].at \in Holding => request[q].channel = ch,
         request'[q].at \in Holding => request'[q].channel = ch,
         PermitOK(request[q])',
         n.state = "half_open" => n.probes = Cardinality(Outstanding(ch)')
  PROVE  SlotsInv'
<1>1. /\ breaker' \in [Channels -> B!BreakerType] /\ breaker'[ch] = n
      /\ \A d \in Channels \ {ch} : breaker'[d] = breaker[d]
  BY DEF SlotsInv
<1>2. \A p \in Requests \ {q} : request'[p] = request[p]
  BY DEF OthersLocal
<1>3. ASSUME NEW p \in Requests PROVE PermitOK(request[p])'
  <2>1. CASE p = q
    BY <2>1
  <2>2. CASE p # q
    <3>1. PermitOK(request[p]) /\ request'[p] = request[p]
      BY <1>2, <2>2 DEF SlotsInv
    <3>2. ASSUME request[p].at \in Holding
          PROVE  request[p].generation <= breaker'[request[p].channel].generation
      <4>1. /\ request[p].generation <= breaker[request[p].channel].generation
            /\ request[p].channel \in Channels /\ request[p].generation \in Nat
        BY <3>1, <3>2 DEF PermitOK
      <4>2. breaker[ch].generation \in Nat /\ n.generation \in Nat
        BY DEF SlotsInv, B!BreakerType
      <4>3. QED
        BY <1>1, <4>1, <4>2
    <3>3. QED
      BY <3>1, <3>2 DEF PermitOK
  <2>3. QED
    BY <2>1, <2>2
<1>4. ASSUME NEW d \in Channels \ {ch} PROVE Outstanding(d)' = Outstanding(d)
  <2>1. q \notin Outstanding(d) /\ q \notin Outstanding(d)'
    BY DEF Outstanding, Holding
  <2>2. \A p \in Requests \ {q} : p \in Outstanding(d)' <=> p \in Outstanding(d)
    BY <1>1, <1>2 DEF Outstanding
  <2>3. Outstanding(d) \subseteq Requests /\ Outstanding(d)' \subseteq Requests
    BY DEF Outstanding
  <2>4. QED
    BY <2>1, <2>2, <2>3
<1>5. PermitsPaired'
  <2>1. ASSUME NEW d \in Channels, breaker'[d].state = "half_open"
        PROVE  breaker'[d].probes = Cardinality(Outstanding(d)')
    <3>1. CASE d = ch
      BY <1>1, <2>1, <3>1
    <3>2. CASE d # ch
      BY <1>1, <1>4, <2>1, <3>2 DEF SlotsInv, PermitsPaired
    <3>3. QED
      BY <3>1, <3>2
  <2>2. QED
    BY <2>1 DEF PermitsPaired
<1>6. QED
  BY <1>1, <1>3, <1>5 DEF SlotsInv

\* The attempts a breaker waits for can be counted.
LEMMA OutstandingFinite ==
  ASSUME GatewayOK, NEW ch
  PROVE  IsFiniteSet(Outstanding(ch)) /\ Cardinality(Outstanding(ch)) \in Nat
<1>1. Outstanding(ch) \subseteq Requests
  BY DEF Outstanding
<1>2. QED
  BY <1>1, FS_Subset, FS_CardinalityType DEF GatewayOK

\* Allow gives a slot to the request that asked.
LEMMA AdmittedPaired ==
  ASSUME GatewayOK, GatewayInv, SlotsInv, NEW q \in Requests, request[q].at \notin Holding,
         NEW ch \in Channels, B!Ready(breaker[ch]),
         breaker' = [breaker EXCEPT ![ch] = B!Admitted(breaker[ch])],
         OthersLocal(q), request'[q].at = "prepare", request'[q].channel = ch,
         request'[q].generation = breaker'[ch].generation, request'[q].candidates \in Seq(Channels)
  PROVE  SlotsInv'
<1>1. PICK b \in B!BreakerType : b = breaker[ch]
  BY DEF SlotsInv
<1>2. PICK n \in B!BreakerType : n = B!Admitted(b) /\ n = breaker'[ch]
  BY <1>1, TransitionsType DEF SlotsInv
<1>3. /\ n.generation >= b.generation /\ n.generation \in Nat
      /\ \/ n = b /\ n.state = "closed"
         \/ n.state = "half_open" /\ b.state = "half_open" /\ n.generation = b.generation
            /\ n.probes = b.probes + 1
         \/ n.state = "half_open" /\ n.generation = b.generation + 1 /\ n.probes = 1
  BY <1>1, <1>2, Admitting
<1>4. \A p \in Requests \ {q} : request'[p] = request[p]
  BY DEF OthersLocal
<1>5. "prepare" \in Holding \ Judged
  BY DEF Holding, Attempting, Judged
<1>6. PermitOK(request[q])'
  BY <1>2, <1>3, <1>5 DEF PermitOK
<1>7. q \in Outstanding(ch)' /\ q \notin Outstanding(ch)
  BY <1>5 DEF Outstanding, Holding
<1>8. Outstanding(ch) \subseteq Requests /\ Outstanding(ch)' \subseteq Requests
  BY DEF Outstanding
<1>9. n.generation = b.generation => Outstanding(ch)' = Outstanding(ch) \cup {q}
  <2>1. n.generation = b.generation => \A p \in Requests \ {q} : p \in Outstanding(ch)' <=> p \in Outstanding(ch)
    BY <1>1, <1>2, <1>4 DEF Outstanding
  <2>2. QED
    BY <1>7, <1>8, <2>1
<1>10. n.generation = b.generation + 1 => Outstanding(ch)' = {q}
  <2>1. ASSUME n.generation = b.generation + 1, NEW p \in Requests \ {q} PROVE p \notin Outstanding(ch)'
    <3>1. PermitOK(request[p]) /\ request'[p] = request[p] /\ b.generation \in Nat
      BY <1>4 DEF SlotsInv, B!BreakerType
    <3>2. CASE p \in Outstanding(ch)'
      <4>1. request[p].at \in Holding /\ request[p].channel = ch /\ request[p].generation = n.generation
        BY <1>2, <3>1, <3>2 DEF Outstanding, Holding
      <4>2. request[p].generation <= b.generation
        BY <1>1, <3>1, <4>1 DEF PermitOK
      <4>3. QED
        BY <2>1, <3>1, <4>1, <4>2
    <3>3. QED
      BY <3>2
  <2>2. QED
    BY <1>7, <1>8, <2>1
<1>11. n.state = "half_open" => n.probes = Cardinality(Outstanding(ch)')
  <2>1. CASE n.state = "half_open" /\ b.state = "half_open" /\ n.generation = b.generation
             /\ n.probes = b.probes + 1
    <3>1. b.probes = Cardinality(Outstanding(ch))
      BY <1>1, <2>1 DEF SlotsInv, PermitsPaired
    <3>2. Cardinality(Outstanding(ch) \cup {q}) = Cardinality(Outstanding(ch)) + 1
      BY <1>7, OutstandingFinite, FS_AddElement
    <3>3. QED
      BY <1>9, <2>1, <3>1, <3>2
  <2>2. CASE n.generation = b.generation + 1 /\ n.probes = 1
    BY <1>10, <2>2, FS_Singleton
  <2>3. QED
    BY <1>3, <2>1, <2>2
<1>12. QED
  BY <1>1, <1>2, <1>3, <1>6, <1>11, SlotsCalled

\* A result gives the slot back, or ends the state that gave it out.
LEMMA RecordedPaired ==
  ASSUME GatewayOK, GatewayInv, SlotsInv, NEW q \in Requests, request[q].at = "verdict",
         NEW ch, ch = request[q].channel, NEW result \in B!Results,
         breaker' = [breaker EXCEPT ![ch] = B!Recorded(breaker[ch], request[q].generation, result)],
         OthersLocal(q), request'[q].at \notin Holding, request'[q].candidates \in Seq(Channels)
  PROVE  SlotsInv'
<1>0. "verdict" \in Holding /\ Judged \subseteq Holding
  BY DEF Holding, Judged, Attempting
<1>1. /\ PermitOK(request[q]) /\ ch \in Channels /\ request[q].generation \in Nat
      /\ request[q].generation <= breaker[ch].generation
  BY <1>0 DEF SlotsInv, PermitOK
<1>2. PICK b \in B!BreakerType : b = breaker[ch]
  BY <1>1 DEF SlotsInv
<1>3. PICK g \in Nat : g = request[q].generation
  BY <1>1
<1>4. PICK n \in B!BreakerType : n = B!Recorded(b, g, result) /\ n = breaker'[ch]
  BY <1>1, <1>2, <1>3, TransitionsType DEF SlotsInv
<1>5. Reports(b, g, n)
  BY <1>4, Recording
<1>6. \A p \in Requests \ {q} : request'[p] = request[p]
  BY DEF OthersLocal
<1>7. PermitOK(request[q])'
  BY <1>0 DEF PermitOK
<1>8. /\ q \notin Outstanding(ch)'
      /\ q \in Outstanding(ch) <=> g = b.generation
  BY <1>0, <1>2, <1>3 DEF Outstanding, Holding
<1>9. n.generation = b.generation => Outstanding(ch)' = Outstanding(ch) \ {q}
  <2>1. n.generation = b.generation => \A p \in Requests \ {q} : p \in Outstanding(ch)' <=> p \in Outstanding(ch)
    BY <1>2, <1>4, <1>6 DEF Outstanding
  <2>2. Outstanding(ch) \subseteq Requests /\ Outstanding(ch)' \subseteq Requests
    BY DEF Outstanding
  <2>3. QED
    BY <1>8, <2>1, <2>2
<1>10. ASSUME n.state = "half_open" PROVE n.probes = Cardinality(Outstanding(ch)')
  <2>1. b.state = "half_open" /\ n.generation = b.generation
    BY <1>5, <1>10 DEF Reports
  <2>2. b.probes = Cardinality(Outstanding(ch))
    BY <1>1, <1>2, <2>1 DEF SlotsInv, PermitsPaired
  <2>3. Cardinality(Outstanding(ch)) \in Nat /\ IsFiniteSet(Outstanding(ch))
    BY OutstandingFinite
  <2>4. CASE g # b.generation
    BY <1>5, <1>8, <1>9, <2>1, <2>2, <2>4 DEF Reports
  <2>5. CASE g = b.generation
    <3>1. Cardinality(Outstanding(ch) \ {q}) = Cardinality(Outstanding(ch)) - 1
      BY <1>8, <2>3, <2>5, FS_RemoveElement
    <3>2. Cardinality(Outstanding(ch)) # 0
      BY <1>8, <2>3, <2>5, FS_EmptySet
    <3>3. b.probes > 0
      BY <2>2, <2>3, <3>2
    <3>4. n.probes = b.probes - 1
      BY <1>5, <1>10, <2>5, <3>3 DEF Reports
    <3>5. QED
      BY <1>9, <2>1, <2>2, <3>1, <3>4
  <2>6. QED
    BY <2>4, <2>5
<1>11. QED
  BY <1>0, <1>1, <1>2, <1>3, <1>4, <1>5, <1>7, <1>10, SlotsCalled DEF Reports

\* The end of a request has no candidates.
LEMMA EndsEmpty ==
  ASSUME GatewayInv, NEW q \in Requests, NEW answer, Ends(q, answer)
  PROVE  /\ OthersLocal(q) /\ request'[q].at \notin Holding /\ request'[q].candidates \in Seq(Channels)
<1>1. /\ request'[q] = [NewRequest EXCEPT !.at = "done", !.answer = answer,
                          !.consumed = request[q].consumed, !.settled = request[q].settled]
      /\ OthersLocal(q)
  BY BecomesOne DEF Ends
<1>2. DOMAIN NewRequest = LocalFields /\ NewRequest.candidates = <<>>
  BY DEF NewRequest, LocalFields
<1>3. request'[q].at = "done" /\ request'[q].candidates = <<>>
  <2>. HIDE DEF NewRequest
  <2>1. QED
    BY <1>1, <1>2 DEF LocalFields
<1>4. "done" \notin Holding
  BY DEF Holding, Attempting
<1>5. <<>> \in Seq(Channels)
  OBVIOUS
<1>6. QED
  BY <1>1, <1>3, <1>4, <1>5

\* The ready channels in an order are a sequence of channels.
LEMMA OrderIsSeq ==
  ASSUME GatewayOK, NEW ready \in SUBSET Channels, NEW order \in SetToSeqs(ready)
  PROVE  order \in Seq(Channels)
<1>1. IsFiniteSet(ready) /\ Cardinality(ready) \in Nat
  BY FS_Subset, FS_CardinalityType DEF GatewayOK
<1>2. order \in [1 .. Cardinality(ready) -> ready]
  BY DEF SetToSeqs, IsInjective
<1>3. QED
  BY <1>1, <1>2

LEMMA SlotsSelect ==
  ASSUME GatewayOK, GatewayInv, SlotsInv, NEW q \in Requests, Select(q)
  PROVE  SlotsInv'
<1>. DEFINE ready == {ch \in Channels : B!Ready(breaker[ch])}
<1>1. breaker' = breaker /\ request[q].at = "start" /\ "start" \notin Holding
  BY DEF Select, LocalOnly, LedgerOnly, At, Holding, Attempting
<1>2. CASE Ends(q, "no_channel")
  BY <1>1, <1>2, EndsEmpty, SlotsStay DEF StaysOutside
<1>3. CASE \E u, a, stream : \E order \in SetToSeqs(ready) :
             Becomes(q, [request[q] EXCEPT !.at = "reserve", !.user = u, !.amount = a,
                                           !.stream = stream, !.candidates = order])
  <2>1. PICK u, a, stream, order : order \in SetToSeqs(ready) /\
             Becomes(q, [request[q] EXCEPT !.at = "reserve", !.user = u, !.amount = a,
                                           !.stream = stream, !.candidates = order])
    BY <1>3
  <2>2. order \in Seq(Channels)
    <3>1. ready \in SUBSET Channels
      OBVIOUS
    <3>. HIDE DEF ready
    <3>2. QED
      BY <2>1, <3>1, OrderIsSeq
  <2>3. /\ OthersLocal(q)
        /\ request'[q] = [request[q] EXCEPT !.at = "reserve", !.user = u, !.amount = a,
                                            !.stream = stream, !.candidates = order]
    BY <2>1, BecomesOne
  <2>4. request'[q].at = "reserve" /\ request'[q].candidates = order
    BY <2>3, Known DEF Consistent, LocalFields
  <2>5. QED
    BY <1>1, <2>2, <2>3, <2>4, SlotsStay DEF StaysOutside, Holding, Attempting
<1>4. \/ Ends(q, "no_channel")
      \/ \E u, a, stream : \E order \in SetToSeqs(ready) :
             Becomes(q, [request[q] EXCEPT !.at = "reserve", !.user = u, !.amount = a,
                                           !.stream = stream, !.candidates = order])
  BY DEF Select
<1>5. QED
  BY <1>2, <1>3, <1>4

LEMMA SlotsNext ==
  ASSUME GatewayOK, GatewayInv, SlotsInv, NEW q \in Requests, NextCandidate(q)
  PROVE  SlotsInv'
<1>. DEFINE rq == request[q]
            ch == Head(rq.candidates)
<1>1. rq.at = "next" /\ "next" \notin Holding /\ "defer" \notin Holding /\ rq.candidates \in Seq(Channels)
      /\ DOMAIN rq = LocalFields
  BY Known DEF NextCandidate, At, Holding, Attempting, SlotsInv, PermitOK, Consistent
<1>2. CASE GoTo(q, "defer") /\ breaker' = breaker
  <2>1. OthersLocal(q) /\ request'[q].at = "defer" /\ request'[q].candidates = rq.candidates
    BY <1>2, Going DEF Goes, Keeps
  <2>2. QED
    BY <1>1, <1>2, <2>1, SlotsStay DEF StaysOutside
<1>3. CASE breaker' = breaker /\ Becomes(q, [rq EXCEPT !.at = "defer",
             !.answer = IF rq.kept THEN "rejected" ELSE "unavailable"])
  <2>1. OthersLocal(q) /\ request'[q].at = "defer" /\ request'[q].candidates = rq.candidates
    <3>1. OthersLocal(q) /\ request'[q] = [rq EXCEPT !.at = "defer", !.answer = IF rq.kept THEN "rejected" ELSE "unavailable"]
      BY <1>3, BecomesOne
    <3>2. QED
      BY <1>1, <3>1 DEF LocalFields
  <2>2. QED
    BY <1>1, <1>3, <2>1, SlotsStay DEF StaysOutside
<1>4. CASE rq.candidates # <<>> /\ breaker' = breaker /\ Becomes(q, [rq EXCEPT !.candidates = Tail(rq.candidates)])
  <2>1. OthersLocal(q) /\ request'[q].at = "next" /\ request'[q].candidates = Tail(rq.candidates)
    <3>1. OthersLocal(q) /\ request'[q] = [rq EXCEPT !.candidates = Tail(rq.candidates)]
      BY <1>4, BecomesOne
    <3>2. QED
      BY <1>1, <3>1 DEF LocalFields
  <2>2. Tail(rq.candidates) \in Seq(Channels)
    BY <1>1, <1>4
  <2>3. QED
    BY <1>1, <1>4, <2>1, <2>2, SlotsStay DEF StaysOutside
<1>5. CASE /\ rq.candidates # <<>> /\ B!Ready(breaker[ch])
           /\ breaker' = [breaker EXCEPT ![ch] = B!Admitted(breaker[ch])]
           /\ Becomes(q, [rq EXCEPT !.at = "prepare", !.candidates = Tail(rq.candidates), !.channel = ch,
                                 !.generation = breaker'[ch].generation])
  <2>1. /\ OthersLocal(q) /\ request'[q].at = "prepare" /\ request'[q].candidates = Tail(rq.candidates)
        /\ request'[q].channel = ch /\ request'[q].generation = breaker'[ch].generation
    <3>1. /\ OthersLocal(q)
          /\ request'[q] = [rq EXCEPT !.at = "prepare", !.candidates = Tail(rq.candidates), !.channel = ch,
                                      !.generation = breaker'[ch].generation]
      BY <1>5, BecomesOne
    <3>2. QED
      BY <1>1, <3>1 DEF LocalFields
  <2>2. Tail(rq.candidates) \in Seq(Channels) /\ ch \in Channels
    BY <1>1, <1>5
  <2>3. QED
    BY <1>1, <1>5, <2>1, <2>2, AdmittedPaired
<1>6. QED
  BY <1>2, <1>3, <1>4, <1>5 DEF NextCandidate

LEMMA SlotsVerdict ==
  ASSUME GatewayOK, GatewayInv, SlotsInv, NEW q \in Requests, Verdict(q)
  PROVE  SlotsInv'
<1>. DEFINE rq == request[q]
            o  == rq.outcome
<1>1. /\ rq.at = "verdict" /\ o.kind \in Kinds /\ rq.candidates \in Seq(Channels)
      /\ DOMAIN rq = LocalFields /\ "next" \notin Holding /\ "defer" \notin Holding
  BY Known DEF Verdict, At, Judged, Holding, Attempting, SlotsInv, PermitOK, Consistent
<1>2. \E result \in B!Results :
        breaker' = [breaker EXCEPT ![rq.channel] = B!Recorded(breaker[rq.channel], rq.generation, result)]
  BY <1>1 DEF Verdict, Kinds, B!Results
<1>3. OthersLocal(q) /\ request'[q].at \in {"next", "defer"} /\ request'[q].candidates = rq.candidates
  <2>1. CASE GoTo(q, "next")
    BY <2>1, Going DEF Goes, Keeps
  <2>2. CASE \E answer : Becomes(q, [rq EXCEPT !.at = "defer", !.consumed = o.spent, !.settled = o.paid, !.answer = answer])
    <3>1. PICK answer : request'[q] = [rq EXCEPT !.at = "defer", !.consumed = o.spent, !.settled = o.paid,
                                                 !.answer = answer]
      BY <2>2, BecomesOne
    <3>2. OthersLocal(q)
      BY <2>2, BecomesOne
    <3>3. QED
      BY <1>1, <3>1, <3>2 DEF LocalFields
  <2>3. QED
    BY <2>1, <2>2 DEF Verdict
<1>4. QED
  BY <1>1, <1>2, <1>3, RecordedPaired

\* The steps of a request.
LEMMA SlotsServe ==
  ASSUME GatewayOK, GatewayInv, SlotsInv, NEW q \in Requests, Serve(q)
  PROVE  SlotsInv'
<1>1. CASE Attempts(q)
  <2>1. request[q].at \in Judged => request[q].outcome.kind \in Kinds
    BY DEF SlotsInv, PermitOK
  <2>2. QED
    BY <1>1, <2>1, AttemptGoes, SlotsStay DEF Holding
<1>2. CASE Reserve(q)
  <2>1. breaker' = breaker /\ request[q].at = "reserve" /\ request[q].candidates \in Seq(Channels)
    BY <1>2 DEF Reserve, LedgerOnly, At, SlotsInv, PermitOK
  <2>2. GoTo(q, "next") \/ \E answer : Ends(q, answer)
    BY <1>2 DEF Reserve
  <2>3. StaysOutside(q)
    BY <2>1, <2>2, Going, EndsEmpty DEF StaysOutside, Goes, Keeps, Holding, Attempting
  <2>4. QED
    BY <2>1, <2>3, SlotsStay
<1>3. CASE Return(q)
  <2>1. breaker' = breaker /\ request[q].at = "defer" /\ \E answer : Ends(q, answer)
    BY <1>3 DEF Return, LedgerOnly, At
  <2>2. StaysOutside(q)
    BY <2>1, EndsEmpty DEF StaysOutside, Holding, Attempting
  <2>3. QED
    BY <2>1, <2>2, SlotsStay
<1>4. QED
  BY <1>1, <1>2, <1>3, SlotsSelect, SlotsNext, SlotsVerdict DEF Serve, Attempts

LEMMA SlotsCrash ==
  ASSUME GatewayInv, SlotsInv, Crash
  PROVE  SlotsInv'
<1>1. B!NewBreaker \in B!BreakerType /\ B!NewBreaker.state # "half_open"
  BY DEF B!NewBreaker, B!BreakerType, B!States
<1>2. breaker' = [ch \in Channels |-> B!NewBreaker]
  BY DEF Crash
<1>3. ASSUME NEW q \in Requests
      PROVE  request'[q].at \notin Holding /\ request'[q].candidates \in Seq(Channels)
  <2>1. request'[q] = IF request[q].at \in {"start", "done"} THEN request[q] ELSE [NewRequest EXCEPT !.at = "dead"]
    BY <1>3 DEF Crash
  <2>2. [NewRequest EXCEPT !.at = "dead"].at = "dead" /\ [NewRequest EXCEPT !.at = "dead"].candidates = <<>>
    BY DEF NewRequest
  <2>3. request[q].candidates \in Seq(Channels) /\ <<>> \in Seq(Channels)
    BY <1>3 DEF SlotsInv, PermitOK
  <2>4. {"start", "done", "dead"} \cap Holding = {}
    BY DEF Holding, Attempting
  <2>. HIDE DEF NewRequest
  <2>5. QED
    BY <2>1, <2>2, <2>3, <2>4
<1>4. Judged \subseteq Holding
  BY DEF Judged, Holding, Attempting
<1>5. \A q \in Requests : PermitOK(request[q])'
  BY <1>3, <1>4 DEF PermitOK
<1>6. PermitsPaired'
  BY <1>1, <1>2 DEF PermitsPaired
<1>7. QED
  BY <1>1, <1>2, <1>5, <1>6 DEF SlotsInv

\* A cooldown changes neither state nor generation.
LEMMA SlotsCool ==
  ASSUME GatewayOK, SlotsInv, NEW ch \in Channels, Cool(ch)
  PROVE  SlotsInv'
<1>1. PICK b \in B!BreakerType : b = breaker[ch]
  BY DEF SlotsInv
<1>2. PICK n \in B!BreakerType : n = B!Cooled(b)
  BY TransitionsType
<1>3. n.state = b.state /\ n.probes = b.probes /\ n.generation = b.generation
  BY <1>2 DEF B!Cooled, B!BreakerType
<1>4. /\ breaker' = [breaker EXCEPT ![ch] = n] /\ request' = request
  BY <1>1, <1>2 DEF Cool
<1>5. /\ breaker' \in [Channels -> B!BreakerType]
      /\ \A d \in Channels : /\ breaker'[d].state = breaker[d].state
                             /\ breaker'[d].probes = breaker[d].probes
                             /\ breaker'[d].generation = breaker[d].generation
  BY <1>1, <1>3, <1>4 DEF SlotsInv
<1>6. \A q \in Requests : PermitOK(request[q])'
  BY <1>4, <1>5 DEF PermitOK, SlotsInv
<1>7. \A d \in Channels : Outstanding(d)' = Outstanding(d)
  BY <1>4, <1>5 DEF Outstanding
<1>8. PermitsPaired'
  BY <1>5, <1>7 DEF PermitsPaired, SlotsInv
<1>9. QED
  BY <1>5, <1>6, <1>8 DEF SlotsInv

LEMMA NextSlots ==
  ASSUME GatewayOK, "panic" \notin Faults, GatewayInv, SlotsInv, [Next]_vars
  PROVE  SlotsInv'
<1>1. CASE \E q \in Requests : Serve(q)
  BY <1>1, SlotsServe
<1>2. CASE \E q \in Requests : Panic(q)
  BY <1>2 DEF Panic
<1>3. CASE (\E q \in Requests : HangUp(q) \/ Age(q)) \/ Recover \/ UNCHANGED vars
  <2>1. breaker' = breaker /\ request' = request
    BY <1>3 DEF HangUp, Age, Recover, Scan, RecoverConsumed, RecoverStale, RecoverEnds, vars
  <2>2. QED
    BY <2>1, SlotsAside
<1>4. QED
  BY <1>1, <1>2, <1>3, SlotsCrash, SlotsCool DEF Next

-----------------------------------------------------------------------------
(* How requests end when the database answers.                             *)

\* What an attempt that is over left of the hold, by what it said: it is settled, or kept
\* because the model may have run, or as it was before.
Left(spent, paid, status) ==
  /\ spent \in BOOLEAN /\ paid \in BOOLEAN
  /\ paid => spent /\ status = "settled"
  /\ spent /\ ~paid => status = "in_flight"
  /\ ~spent => status = "reserved"

EndPlaces == {"done", "dead"}

\* Where a request stands says what its row is, when the database answers.
Clean(l, x) ==
  /\ l.at \notin EndPlaces => x.stale = FALSE
  /\ l.at \notin EndPlaces \cup {"defer"} => l.consumed = FALSE /\ l.settled = FALSE
  /\ l.at \in {"start", "reserve"} => x.status = "absent"
  /\ l.at \in {"next", "prepare", "mark"} => x.status = "reserved"
  /\ l.at # "unmark"
  /\ l.at \in {"send", "undial", "lost", "rejected_channel", "rejected_request", "body", "record"}
       => x.status = "in_flight"
  /\ l.at = "finalize" => x.status \in {"consumed_unsettled", "settled"}
  /\ l.at = "verdict" => Left(l.outcome.spent, l.outcome.paid, x.status)
  /\ l.at = "defer" => Left(l.consumed, l.settled, x.status)
  /\ l.at = "done" /\ l.answer # "internal_error" =>
       x.status \in CASE l.settled                   -> {"settled"}
                      [] l.consumed /\ ~l.settled -> {"in_flight"}
                      [] ~l.consumed                -> {"absent", "refunded"}

\* The worker gives back only holds of requests that are over.
CleanInv == /\ \A q \in Requests : Clean(request[q], row[q])
            /\ \A q \in Requests : q \in worker.refund => request[q].at \in EndPlaces

-----------------------------------------------------------------------------
(* What a database that answers does to a row.                             *)

LEMMA CleanReserve ==
  ASSUME NEW q \in Requests, RowsShaped(q), row[q].status = "absent", NEW u, NEW a, NEW reply,
         L!Reserve(q, u, a, reply)
  PROVE  /\ reply = "ok" => row'[q].status = "reserved" /\ row'[q].stale = FALSE
         /\ reply = "refused" => row' = row
         /\ reply \in {"ok", "refused", "error"}
<1>1. CASE L!CommitReserve(q, u, a) /\ L!Committed(reply)
  <2>1. row'[q] = [L!AbsentRow EXCEPT !.status = "reserved", !.user = u, !.amount = a]
    BY <1>1 DEF L!CommitReserve, RowsShaped
  <2>2. row'[q].status = "reserved" /\ row'[q].stale = FALSE
    BY <2>1 DEF L!AbsentRow
  <2>3. QED
    BY <1>1, <2>2 DEF L!Committed
<1>2. CASE ~(L!CommitReserve(q, u, a) /\ L!Committed(reply))
  BY <1>2 DEF L!Reserve, L!NoCommit, L!vars
<1>3. QED
  BY <1>1, <1>2

LEMMA CleanMark ==
  ASSUME NEW q \in Requests, RowsShaped(q), row[q].status = "reserved", NEW ch, NEW reply, reply # "error",
         L!MarkInFlight(q, ch, reply)
  PROVE  reply = "ok" /\ row'[q].status = "in_flight" /\ row'[q].stale = FALSE
<1>1. L!CommitMark(q, ch) /\ reply = "ok"
  BY DEF L!MarkInFlight, L!Committed
<1>2. row'[q] = [row[q] EXCEPT !.status = "in_flight", !.channel = ch, !.stale = FALSE]
  BY <1>1 DEF L!CommitMark, RowsShaped
<1>3. QED
  BY <1>1, <1>2 DEF RowsShaped, RowFields

LEMMA CleanRelease ==
  ASSUME NEW q \in Requests, RowsShaped(q), row[q].status = "in_flight", NEW reply, reply # "error",
         L!ReleaseAttempt(q, reply)
  PROVE  reply = "ok" /\ row'[q].status = "reserved" /\ row'[q].stale = FALSE
<1>1. L!CommitRelease(q) /\ reply = "ok"
  BY DEF L!ReleaseAttempt, L!Committed
<1>2. row'[q] = [row[q] EXCEPT !.status = "reserved", !.stale = FALSE]
  BY <1>1 DEF L!CommitRelease, RowsShaped
<1>3. QED
  BY <1>1, <1>2 DEF RowsShaped, RowFields

LEMMA CleanRecord ==
  ASSUME NEW q \in Requests, RowsShaped(q), row[q].status = "in_flight", NEW c, NEW reply, reply # "error",
         L!RecordConsumption(q, row[q].channel, c, reply)
  PROVE  reply = "ok" /\ row'[q].status = "consumed_unsettled" /\ row'[q].stale = FALSE
<1>1. L!CommitConsumption(q, row[q].channel, c) /\ reply = "ok"
  BY DEF L!RecordConsumption, L!Committed
<1>2. row'[q] = [row[q] EXCEPT !.status = "consumed_unsettled", !.cost = c, !.stale = FALSE]
  BY <1>1 DEF L!CommitConsumption, RowsShaped
<1>3. QED
  BY <1>1, <1>2 DEF RowsShaped, RowFields

LEMMA CleanFinalize ==
  ASSUME NEW q \in Requests, RowsShaped(q), NEW reply, L!Finalize(q, reply)
  PROVE  /\ \/ row'[q] = row[q]
            \/ row[q].status = "consumed_unsettled" /\ row'[q].status = "settled" /\ row'[q].stale = FALSE
         /\ reply # "error" /\ row[q].status \in {"consumed_unsettled", "settled"} =>
              reply = "ok" /\ row'[q].status = "settled"
<1>1. CASE L!CommitFinalize(q) /\ L!Committed(reply)
  <2>1. /\ row[q].status = "consumed_unsettled"
        /\ row'[q] = [row[q] EXCEPT !.status = "settled", !.stale = FALSE]
    BY <1>1 DEF L!CommitFinalize, RowsShaped
  <2>2. row'[q].status = "settled" /\ row'[q].stale = FALSE
    BY <2>1 DEF RowsShaped, RowFields
  <2>3. QED
    BY <1>1, <2>1, <2>2 DEF L!Committed
<1>2. CASE ~(L!CommitFinalize(q) /\ L!Committed(reply))
  BY <1>2 DEF L!Finalize, L!NoCommit, L!vars
<1>3. QED
  BY <1>1, <1>2

LEMMA CleanRefund ==
  ASSUME NEW q \in Requests, RowsShaped(q), NEW reply, L!Refund(q, reply)
  PROVE  /\ \/ row'[q] = row[q]
            \/ row[q].status = "reserved" /\ row'[q].status = "refunded" /\ row'[q].stale = FALSE
         /\ reply # "error" /\ row[q].status = "reserved" => row'[q].status = "refunded"
<1>1. CASE L!CommitRefund(q) /\ L!Committed(reply)
  <2>1. /\ row[q].status = "reserved"
        /\ row'[q] = [row[q] EXCEPT !.status = "refunded", !.stale = FALSE]
    BY <1>1 DEF L!CommitRefund, RowsShaped
  <2>2. row'[q].status = "refunded" /\ row'[q].stale = FALSE
    BY <2>1 DEF RowsShaped, RowFields
  <2>3. QED
    BY <1>1, <2>1, <2>2 DEF L!Committed
<1>2. CASE ~(L!CommitRefund(q) /\ L!Committed(reply))
  BY <1>2 DEF L!Refund, L!NoCommit, L!vars
<1>3. QED
  BY <1>1, <1>2

-----------------------------------------------------------------------------
(* The steps of a request.                                                 *)

\* One request moves on, the others and the worker do not.
LEMMA CleanOne ==
  ASSUME CleanInv, NEW q \in Requests, OthersLocal(q), OthersStay(q), worker' = worker,
         request[q].at \in EndPlaces => request'[q].at \in EndPlaces,
         Clean(request'[q], row'[q])
  PROVE  CleanInv'
<1>. HIDE DEF Clean
<1>1. \A p \in Requests \ {q} : request'[p] = request[p] /\ row'[p] = row[p]
  BY DEF OthersLocal, OthersStay
<1>2. \A p \in Requests : Clean(request'[p], row'[p])
  BY <1>1 DEF CleanInv
<1>3. \A p \in Requests : p \in worker'.refund => request'[p].at \in EndPlaces
  BY <1>1 DEF CleanInv
<1>4. QED
  BY <1>2, <1>3 DEF CleanInv, Clean

\* The database answers, nobody panics and no process stalls.
DatabaseAnswers == Faults \cap {"database", "panic", "stall"} = {}

LEMMA NoError == ASSUME DatabaseAnswers, NEW reply, Possible(reply) PROVE reply # "error"
BY DEF DatabaseAnswers, Possible

\* A request that went on is clean if its row is as its new place says.
LEMMA CleanGoes ==
  ASSUME CleanInv, NEW q \in Requests, request[q].at \notin EndPlaces \cup {"defer"},
         NEW place, NEW o, Goes(q, place, o), OthersStay(q), worker' = worker, row'[q].stale = FALSE,
         \/ place = "verdict" /\ Left(o.spent, o.paid, row'[q].status)
         \/ place \in {"send", "undial", "lost", "rejected_channel", "rejected_request", "body", "record"}
            /\ row'[q].status = "in_flight"
         \/ place \in {"next", "mark"} /\ row'[q].status = "reserved"
         \/ place = "finalize" /\ row'[q].status = "consumed_unsettled"
         \/ /\ place = "defer" /\ Left(FALSE, FALSE, row'[q].status)
  PROVE  CleanInv'
<1>1. /\ OthersLocal(q) /\ request'[q].at = place /\ request'[q].outcome = o
      /\ request'[q].consumed = FALSE /\ request'[q].settled = FALSE
  BY DEF Goes, Keeps, CleanInv, Clean
<1>2. Clean(request'[q], row'[q])
  BY <1>1 DEF Clean, EndPlaces
<1>3. QED
  BY <1>1, <1>2, CleanOne

LEMMA CleanPrepare ==
  ASSUME GatewayInv, CleanInv, NEW q \in Requests, Prepare(q)
  PROVE  CleanInv'
<1>1. request[q].at = "prepare" /\ row' = row /\ worker' = worker
  BY DEF Prepare, At, LocalOnly, LedgerOnly, database
<1>2. OthersStay(q) /\ row'[q].stale = FALSE /\ row'[q].status = "reserved"
  BY <1>1, StaysPut DEF CleanInv, Clean, EndPlaces
<1>3. /\ request[q].at \notin EndPlaces \cup {"defer"} /\ Left(FALSE, FALSE, row'[q].status)
  BY <1>1, <1>2 DEF EndPlaces, Left
<1>4. \/ Goes(q, "mark", request[q].outcome)
      \/ \E kind : Goes(q, "verdict", [kind |-> kind, spent |-> FALSE, paid |-> FALSE, committed |-> FALSE])
  BY Going DEF Prepare
<1>5. QED
  BY <1>1, <1>2, <1>3, <1>4, CleanGoes

LEMMA CleanMarks ==
  ASSUME DatabaseAnswers, GatewayInv, CleanInv, NEW q \in Requests, Mark(q)
  PROVE  CleanInv'
<1>1. request[q].at = "mark" /\ worker' = worker
  BY DEF Mark, At, LedgerOnly
<1>2. PICK reply : Possible(reply) /\ L!MarkInFlight(q, request[q].channel, reply)
                   /\ GoTo(q, IF reply = "ok" THEN "send" ELSE "unmark")
  BY DEF Mark
<1>3. RowsShaped(q) /\ row[q].status = "reserved" /\ reply # "error"
  BY <1>1, <1>2, Known, NoError DEF CleanInv, Clean
<1>. DEFINE ch == request[q].channel
<1>. HIDE DEF ch
<1>4. L!MarkInFlight(q, ch, reply)
  BY <1>2 DEF ch
<1>5. reply = "ok" /\ row'[q].status = "in_flight" /\ row'[q].stale = FALSE
  BY <1>3, <1>4, CleanMark
<1>6. OthersStay(q)
  BY <1>3, <1>4, LedgerMark
<1>7. Goes(q, "send", request[q].outcome)
  BY <1>2, <1>5, Going
<1>8. QED
  BY <1>1, <1>5, <1>6, <1>7, CleanGoes DEF EndPlaces

LEMMA CleanSend ==
  ASSUME GatewayInv, CleanInv, NEW q \in Requests, Send(q)
  PROVE  CleanInv'
<1>1. request[q].at = "send" /\ row' = row /\ worker' = worker
  BY DEF Send, At, database
<1>2. OthersStay(q) /\ row'[q].stale = FALSE /\ row'[q].status = "in_flight"
  BY <1>1, StaysPut DEF CleanInv, Clean, EndPlaces
<1>3. /\ request[q].at \notin EndPlaces \cup {"defer"} /\ Left(TRUE, FALSE, row'[q].status)
  BY <1>1, <1>2 DEF EndPlaces, Left
<1>4. \/ \E place \in {"undial", "lost", "rejected_channel", "rejected_request", "body"} :
           GoTo(q, place)
      \/ Becomes(q, [request[q] EXCEPT !.at = "verdict", !.answer = "upstream_error", !.outcome =
               [kind |-> "channel_error", spent |-> TRUE, paid |-> FALSE, committed |-> TRUE]])
  BY DEF Send
<1>5. \/ \E place \in {"undial", "lost", "rejected_channel", "rejected_request", "body"} :
           Goes(q, place, request[q].outcome)
      \/ Goes(q, "verdict", [kind |-> "channel_error", spent |-> TRUE, paid |-> FALSE, committed |-> TRUE])
  BY <1>4, Going, Judging
<1>6. QED
  BY <1>1, <1>2, <1>3, <1>5, CleanGoes

\* A release that the ledger was asked for, and what is said then.
LEMMA CleanReleases ==
  ASSUME DatabaseAnswers, GatewayInv, CleanInv, NEW q \in Requests,
         request[q].at \in {"undial", "rejected_channel", "rejected_request"}, worker' = worker,
         NEW reply, Possible(reply), L!ReleaseAttempt(q, reply)
  PROVE  /\ reply = "ok" /\ OthersStay(q)
         /\ (\E kind, committed :
               Goes(q, "verdict", [kind |-> kind, spent |-> FALSE, paid |-> FALSE, committed |-> committed]))
            => CleanInv'
<1>1. RowsShaped(q) /\ row[q].status = "in_flight" /\ reply # "error"
  BY Known, NoError DEF CleanInv, Clean
<1>2. reply = "ok" /\ row'[q].status = "reserved" /\ row'[q].stale = FALSE /\ OthersStay(q)
  BY <1>1, CleanRelease, LedgerRelease
<1>3. /\ request[q].at \notin EndPlaces \cup {"defer"} /\ Left(FALSE, FALSE, row'[q].status)
  BY <1>2 DEF EndPlaces, Left
<1>4. QED
  BY <1>2, <1>3, CleanGoes

LEMMA CleanUndial ==
  ASSUME DatabaseAnswers, GatewayInv, CleanInv, NEW q \in Requests, Undial(q)
  PROVE  CleanInv'
<1>1. request[q].at = "undial" /\ worker' = worker
  BY DEF Undial, At, LedgerOnly
<1>2. PICK reply :
        /\ Possible(reply) /\ L!ReleaseAttempt(q, reply)
        /\ IF reply # "ok" THEN GoTo(q, "lost")
           ELSE Returns(q, IF q \in cancelled THEN "neutral" ELSE "channel_error", FALSE, FALSE)
  BY DEF Undial
<1>3. reply = "ok"
  BY <1>1, <1>2, CleanReleases
<1>4. \E kind : Goes(q, "verdict", [kind |-> kind, spent |-> FALSE, paid |-> FALSE, committed |-> FALSE])
  BY <1>2, <1>3, Going
<1>5. QED
  BY <1>1, <1>2, <1>4, CleanReleases

LEMMA CleanRejected ==
  ASSUME DatabaseAnswers, GatewayInv, CleanInv, NEW q \in Requests, Rejected(q)
  PROVE  CleanInv'
<1>1. request[q].at \in {"rejected_channel", "rejected_request"} /\ worker' = worker
  BY DEF Rejected, At, LedgerOnly
<1>2. PICK reply :
        /\ Possible(reply) /\ L!ReleaseAttempt(q, reply)
        /\ \/ reply # "ok" /\ Returns(q, "channel_error", TRUE, FALSE)
           \/ Becomes(q, [request[q] EXCEPT !.at = "verdict", !.kept = TRUE, !.outcome =
                 [kind |-> "channel_error", spent |-> FALSE, paid |-> FALSE, committed |-> FALSE]])
           \/ Becomes(q, [request[q] EXCEPT !.at = "verdict", !.answer = "rejected", !.outcome =
                 [kind |-> "client_error", spent |-> FALSE, paid |-> FALSE, committed |-> FALSE]])
  BY DEF Rejected
<1>3. reply = "ok"
  BY <1>1, <1>2, CleanReleases
<1>4. \E kind : Goes(q, "verdict", [kind |-> kind, spent |-> FALSE, paid |-> FALSE, committed |-> FALSE])
  BY <1>2, <1>3, Judging
<1>5. QED
  BY <1>1, <1>2, <1>4, CleanReleases

LEMMA CleanLost ==
  ASSUME GatewayInv, CleanInv, NEW q \in Requests, Lost(q)
  PROVE  CleanInv'
<1>1. request[q].at = "lost" /\ row' = row /\ worker' = worker
  BY DEF Lost, At, LocalOnly, LedgerOnly, database
<1>2. OthersStay(q) /\ row'[q].stale = FALSE /\ row'[q].status = "in_flight"
  BY <1>1, StaysPut DEF CleanInv, Clean, EndPlaces
<1>3. /\ request[q].at \notin EndPlaces \cup {"defer"} /\ Left(TRUE, FALSE, row'[q].status)
  BY <1>1, <1>2 DEF EndPlaces, Left
<1>4. \E kind : Goes(q, "verdict", [kind |-> kind, spent |-> TRUE, paid |-> FALSE, committed |-> FALSE])
  BY Going DEF Lost
<1>5. QED
  BY <1>1, <1>2, <1>3, <1>4, CleanGoes

LEMMA CleanBody ==
  ASSUME GatewayInv, CleanInv, NEW q \in Requests, Body(q)
  PROVE  CleanInv'
<1>1. request[q].at = "body" /\ row' = row /\ worker' = worker
  BY DEF Body, At, LocalOnly, LedgerOnly, database
<1>2. OthersStay(q) /\ row'[q].stale = FALSE /\ row'[q].status = "in_flight"
  BY <1>1, StaysPut DEF CleanInv, Clean, EndPlaces
<1>3. /\ request[q].at \notin EndPlaces \cup {"defer"} /\ Left(TRUE, FALSE, row'[q].status)
  BY <1>1, <1>2 DEF EndPlaces, Left
<1>4. \E place \in {"record", "verdict"} : \E kind, committed :
        Goes(q, place, [kind |-> kind, spent |-> TRUE, paid |-> FALSE, committed |-> committed])
  BY BodyGoes
<1>5. QED
  BY <1>1, <1>2, <1>3, <1>4, CleanGoes

LEMMA CleanRecords ==
  ASSUME DatabaseAnswers, GatewayInv, CleanInv, NEW q \in Requests, Record(q)
  PROVE  CleanInv'
<1>1. request[q].at = "record" /\ worker' = worker
  BY DEF Record, At, LedgerOnly
<1>2. PICK reply :
        /\ Possible(reply) /\ L!RecordConsumption(q, request[q].channel, request[q].cost, reply)
        /\ reply = "ok" \/ reply # "ok"
        /\ reply = "ok" => GoTo(q, "finalize")
  BY DEF Record
<1>3. /\ RowsShaped(q) /\ row[q].status = "in_flight" /\ reply # "error"
      /\ row[q].channel = request[q].channel
  BY <1>1, <1>2, Known, NoError DEF CleanInv, Clean, Consistent
<1>4. reply = "ok" /\ row'[q].status = "consumed_unsettled" /\ row'[q].stale = FALSE /\ OthersStay(q)
  BY <1>2, <1>3, CleanRecord, LedgerRecord
<1>5. Goes(q, "finalize", request[q].outcome)
  BY <1>2, <1>4, Going
<1>6. QED
  BY <1>1, <1>4, <1>5, CleanGoes DEF EndPlaces

LEMMA CleanFinalizes ==
  ASSUME DatabaseAnswers, GatewayInv, CleanInv, NEW q \in Requests, Finalize(q)
  PROVE  CleanInv'
<1>1. request[q].at = "finalize" /\ worker' = worker
  BY DEF Finalize, At, LedgerOnly
<1>2. PICK reply :
        /\ Possible(reply) /\ L!Finalize(q, reply)
        /\ Becomes(q, [request[q] EXCEPT !.at = "verdict", !.outcome.paid = (reply = "ok")])
  BY DEF Finalize
<1>3. /\ RowsShaped(q) /\ row[q].status \in {"consumed_unsettled", "settled"} /\ reply # "error"
      /\ row[q].stale = FALSE
  BY <1>1, <1>2, Known, NoError DEF CleanInv, Clean, EndPlaces
<1>4. reply = "ok" /\ row'[q].status = "settled" /\ row'[q].stale = FALSE /\ OthersStay(q)
  <2>1. /\ \/ row'[q] = row[q]
           \/ row'[q].status = "settled" /\ row'[q].stale = FALSE
        /\ reply = "ok" /\ row'[q].status = "settled"
    BY <1>2, <1>3, CleanFinalize
  <2>2. OthersStay(q)
    BY <1>2, <1>3, LedgerFinalize
  <2>3. QED
    BY <1>3, <2>1, <2>2
<1>5. Goes(q, "verdict", [request[q].outcome EXCEPT !.paid = TRUE])
  BY <1>2, <1>4, FinalizeGoes
<1>6. Left([request[q].outcome EXCEPT !.paid = TRUE].spent, [request[q].outcome EXCEPT !.paid = TRUE].paid,
           row'[q].status)
  BY <1>1, <1>4, Known DEF Consistent, OutcomeFields, Left
<1>7. QED
  BY <1>1, <1>4, <1>5, <1>6, CleanGoes DEF EndPlaces

\* A request ends clean if its flags say what became of its hold.
LEMMA CleanEnds ==
  ASSUME GatewayInv, CleanInv, NEW q \in Requests, request[q].at # "done", NEW answer, Ends(q, answer),
         OthersStay(q), worker' = worker, request[q].consumed \in BOOLEAN, request[q].settled \in BOOLEAN,
         answer # "internal_error" =>
           /\ request[q].settled => request[q].consumed /\ row'[q].status = "settled"
           /\ request[q].consumed /\ ~request[q].settled => row'[q].status = "in_flight"
           /\ ~request[q].consumed => row'[q].status \in {"absent", "refunded"}
  PROVE  CleanInv'
<1>1. /\ request'[q] = [NewRequest EXCEPT !.at = "done", !.answer = answer,
                          !.consumed = request[q].consumed, !.settled = request[q].settled]
      /\ OthersLocal(q)
  BY BecomesOne DEF Ends
<1>2. /\ request'[q].at = "done" /\ request'[q].answer = answer
      /\ request'[q].consumed = request[q].consumed /\ request'[q].settled = request[q].settled
  BY <1>1 DEF NewRequest
<1>3. Clean(request'[q], row'[q])
  <2>1. CASE request[q].settled
    BY <1>2, <2>1 DEF Clean, EndPlaces
  <2>2. CASE request[q].consumed /\ ~request[q].settled
    BY <1>2, <2>2 DEF Clean, EndPlaces
  <2>3. CASE ~request[q].consumed
    BY <1>2, <2>3 DEF Clean, EndPlaces
  <2>4. QED
    BY <2>1, <2>2, <2>3
<1>4. QED
  BY <1>1, <1>2, <1>3, CleanOne DEF EndPlaces

\* A request moves on, and keeps its flags.
LEMMA CleanMoves ==
  ASSUME CleanInv, NEW q \in Requests, request[q].at \notin EndPlaces \cup {"defer"},
         OthersLocal(q), OthersStay(q), worker' = worker,
         request'[q].consumed = request[q].consumed, request'[q].settled = request[q].settled,
         row'[q].stale = FALSE,
         \/ request'[q].at = "reserve" /\ row'[q].status = "absent"
         \/ request'[q].at \in {"next", "prepare"} /\ row'[q].status = "reserved"
         \/ request'[q].at = "defer" /\ row'[q].status = "reserved"
  PROVE  CleanInv'
<1>1. request'[q].consumed = FALSE /\ request'[q].settled = FALSE
  BY DEF CleanInv, Clean
<1>2. Clean(request'[q], row'[q])
  BY <1>1 DEF Clean, EndPlaces, Left
<1>3. QED
  BY <1>2, CleanOne

LEMMA CleanSelect ==
  ASSUME GatewayInv, CleanInv, NEW q \in Requests, Select(q)
  PROVE  CleanInv'
<1>1. request[q].at = "start" /\ row' = row /\ worker' = worker
  BY DEF Select, At, LocalOnly, LedgerOnly, database
<1>2. /\ OthersStay(q) /\ row'[q].stale = FALSE /\ row'[q].status = "absent"
      /\ request[q].consumed = FALSE /\ request[q].settled = FALSE
  BY <1>1, StaysPut DEF CleanInv, Clean, EndPlaces
<1>3. \/ Ends(q, "no_channel")
      \/ \E u, a, stream, order :
           Becomes(q, [request[q] EXCEPT !.at = "reserve", !.user = u, !.amount = a,
                                         !.stream = stream, !.candidates = order])
  BY DEF Select
<1>4. CASE Ends(q, "no_channel")
  BY <1>1, <1>2, <1>4, CleanEnds
<1>5. CASE ~Ends(q, "no_channel")
  <2>1. PICK u, a, stream, order :
           Becomes(q, [request[q] EXCEPT !.at = "reserve", !.user = u, !.amount = a,
                                         !.stream = stream, !.candidates = order])
    BY <1>3, <1>5
  <2>2. /\ OthersLocal(q)
        /\ request'[q] = [request[q] EXCEPT !.at = "reserve", !.user = u, !.amount = a,
                                            !.stream = stream, !.candidates = order]
    BY <2>1, BecomesOne
  <2>3. DOMAIN request[q] = LocalFields
    BY Known DEF Consistent
  <2>4. /\ request'[q].at = "reserve"
        /\ request'[q].consumed = request[q].consumed /\ request'[q].settled = request[q].settled
    BY <2>2, <2>3 DEF LocalFields
  <2>5. QED
    BY <1>1, <1>2, <2>2, <2>4, CleanMoves DEF EndPlaces
<1>6. QED
  BY <1>4, <1>5

LEMMA CleanReserves ==
  ASSUME GatewayInv, CleanInv, NEW q \in Requests, Reserve(q)
  PROVE  CleanInv'
<1>1. request[q].at = "reserve" /\ worker' = worker
  BY DEF Reserve, At, LedgerOnly
<1>2. PICK reply : /\ L!Reserve(q, request[q].user, request[q].amount, reply)
                   /\ CASE reply = "ok"      -> GoTo(q, "next")
                        [] reply = "refused" -> Ends(q, "no_quota")
                        [] OTHER             -> Ends(q, "internal_error")
  BY DEF Reserve
<1>3. /\ RowsShaped(q) /\ row[q].status = "absent" /\ row[q].stale = FALSE
      /\ request[q].consumed = FALSE /\ request[q].settled = FALSE
  BY <1>1, Known DEF CleanInv, Clean, EndPlaces
<1>. DEFINE u == request[q].user
            a == request[q].amount
<1>. HIDE DEF u, a
<1>4. L!Reserve(q, u, a, reply)
  BY <1>2 DEF u, a
<1>5. OthersStay(q)
  BY <1>3, <1>4, LedgerReserve
<1>6. /\ reply = "ok" => row'[q].status = "reserved" /\ row'[q].stale = FALSE
      /\ reply = "refused" => row' = row
  BY <1>3, <1>4, CleanReserve
<1>7. CASE reply = "ok"
  <2>1. OthersLocal(q) /\ request'[q] = [request[q] EXCEPT !.at = "next"]
    BY <1>2, <1>7, GoesTo
  <2>2. DOMAIN request[q] = LocalFields
    BY Known DEF Consistent
  <2>3. /\ request'[q].at = "next"
        /\ request'[q].consumed = request[q].consumed /\ request'[q].settled = request[q].settled
    BY <2>1, <2>2 DEF LocalFields
  <2>4. QED
    BY <1>1, <1>5, <1>6, <1>7, <2>1, <2>3, CleanMoves DEF EndPlaces
<1>8. CASE reply = "refused"
  <2>1. Ends(q, "no_quota") /\ row'[q].status = "absent"
    BY <1>2, <1>3, <1>6, <1>8
  <2>2. QED
    BY <1>1, <1>3, <1>5, <2>1, CleanEnds
<1>9. CASE reply \notin {"ok", "refused"}
  <2>1. Ends(q, "internal_error")
    BY <1>2, <1>9
  <2>2. QED
    BY <1>1, <1>3, <1>5, <2>1, CleanEnds
<1>10. QED
  BY <1>7, <1>8, <1>9

LEMMA CleanNext ==
  ASSUME GatewayInv, CleanInv, NEW q \in Requests, NextCandidate(q)
  PROVE  CleanInv'
<1>1. request[q].at = "next" /\ row' = row /\ worker' = worker
  BY DEF NextCandidate, At, database
<1>2. OthersStay(q) /\ row'[q].stale = FALSE /\ row'[q].status = "reserved"
  BY <1>1, StaysPut DEF CleanInv, Clean, EndPlaces
<1>3. \/ GoTo(q, "defer")
      \/ \E answer : Becomes(q, [request[q] EXCEPT !.at = "defer", !.answer = answer])
      \/ \E c : Becomes(q, [request[q] EXCEPT !.candidates = c])
      \/ \E c, ch, g : Becomes(q, [request[q] EXCEPT !.at = "prepare", !.candidates = c,
                                                      !.channel = ch, !.generation = g])
  <2>1. \/ GoTo(q, "defer")
        \/ Becomes(q, [request[q] EXCEPT !.at = "defer",
                         !.answer = IF request[q].kept THEN "rejected" ELSE "unavailable"])
        \/ \E c : Becomes(q, [request[q] EXCEPT !.candidates = c])
        \/ \E c, ch, g : Becomes(q, [request[q] EXCEPT !.at = "prepare", !.candidates = c,
                                                        !.channel = ch, !.generation = g])
    BY DEF NextCandidate
  <2>2. QED
    BY <2>1
<1>4. DOMAIN request[q] = LocalFields
  BY Known DEF Consistent
<1>5. CASE GoTo(q, "defer")
  <2>1. OthersLocal(q) /\ request'[q] = [request[q] EXCEPT !.at = "defer"]
    BY <1>5, GoesTo
  <2>2. /\ request'[q].at = "defer"
        /\ request'[q].consumed = request[q].consumed /\ request'[q].settled = request[q].settled
    BY <1>4, <2>1 DEF LocalFields
  <2>3. QED
    BY <1>1, <1>2, <2>1, <2>2, CleanMoves DEF EndPlaces
<1>6. ASSUME NEW answer, Becomes(q, [request[q] EXCEPT !.at = "defer", !.answer = answer])
      PROVE  CleanInv'
  <2>1. OthersLocal(q) /\ request'[q] = [request[q] EXCEPT !.at = "defer", !.answer = answer]
    BY <1>6, BecomesOne
  <2>2. /\ request'[q].at = "defer"
        /\ request'[q].consumed = request[q].consumed /\ request'[q].settled = request[q].settled
    BY <1>4, <2>1 DEF LocalFields
  <2>3. QED
    BY <1>1, <1>2, <2>1, <2>2, CleanMoves DEF EndPlaces
<1>7. ASSUME NEW c, Becomes(q, [request[q] EXCEPT !.candidates = c])
      PROVE  CleanInv'
  <2>1. OthersLocal(q) /\ request'[q] = [request[q] EXCEPT !.candidates = c]
    BY <1>7, BecomesOne
  <2>2. /\ request'[q].at = "next"
        /\ request'[q].consumed = request[q].consumed /\ request'[q].settled = request[q].settled
    BY <1>1, <1>4, <2>1 DEF LocalFields
  <2>3. QED
    BY <1>1, <1>2, <2>1, <2>2, CleanMoves DEF EndPlaces
<1>8. ASSUME NEW c, NEW ch, NEW g,
             Becomes(q, [request[q] EXCEPT !.at = "prepare", !.candidates = c, !.channel = ch, !.generation = g])
      PROVE  CleanInv'
  <2>1. /\ OthersLocal(q)
        /\ request'[q] = [request[q] EXCEPT !.at = "prepare", !.candidates = c, !.channel = ch, !.generation = g]
    BY <1>8, BecomesOne
  <2>2. /\ request'[q].at = "prepare"
        /\ request'[q].consumed = request[q].consumed /\ request'[q].settled = request[q].settled
    BY <1>4, <2>1 DEF LocalFields
  <2>3. QED
    BY <1>1, <1>2, <2>1, <2>2, CleanMoves DEF EndPlaces
<1>9. QED
  BY <1>3, <1>5, <1>6, <1>7, <1>8

LEMMA CleanVerdict ==
  ASSUME GatewayInv, CleanInv, NEW q \in Requests, Verdict(q)
  PROVE  CleanInv'
<1>. DEFINE rq == request[q]
            o  == rq.outcome
            goesOn == o.kind = "channel_error" /\ ~o.committed /\ ~o.spent
<1>1. rq.at = "verdict" /\ row' = row /\ worker' = worker
  BY DEF Verdict, At, database
<1>2. /\ OthersStay(q) /\ row'[q].stale = FALSE /\ Left(o.spent, o.paid, row'[q].status)
      /\ rq.consumed = FALSE /\ rq.settled = FALSE /\ DOMAIN rq = LocalFields
  BY <1>1, StaysPut, Known DEF CleanInv, Clean, EndPlaces, Consistent
<1>3. CASE goesOn
  <2>1. OthersLocal(q) /\ request'[q] = [request[q] EXCEPT !.at = "next"]
    BY <1>3, GoesTo DEF Verdict
  <2>2. /\ request'[q].at = "next" /\ row'[q].status = "reserved"
        /\ request'[q].consumed = rq.consumed /\ request'[q].settled = rq.settled
    BY <1>2, <1>3, <2>1 DEF LocalFields, Left
  <2>3. QED
    BY <1>1, <1>2, <2>1, <2>2, CleanMoves DEF EndPlaces
<1>4. CASE ~goesOn
  <2>1. PICK answer : Becomes(q, [rq EXCEPT !.at = "defer", !.consumed = o.spent, !.settled = o.paid,
                                            !.answer = answer])
    BY <1>4 DEF Verdict
  <2>2. /\ OthersLocal(q)
        /\ request'[q] = [rq EXCEPT !.at = "defer", !.consumed = o.spent, !.settled = o.paid, !.answer = answer]
    BY <2>1, BecomesOne
  <2>3. request'[q].at = "defer" /\ request'[q].consumed = o.spent /\ request'[q].settled = o.paid
    BY <1>2, <2>2 DEF LocalFields
  <2>4. Clean(request'[q], row'[q])
    BY <1>2, <2>3 DEF Clean, EndPlaces
  <2>5. QED
    BY <1>1, <1>2, <2>2, <2>4, CleanOne DEF EndPlaces
<1>5. QED
  BY <1>3, <1>4

\* The deferred refund gives back a hold that nothing was consumed of.
LEMMA CleanReturn ==
  ASSUME DatabaseAnswers, GatewayInv, CleanInv, NEW q \in Requests, Return(q)
  PROVE  CleanInv'
<1>1. request[q].at = "defer" /\ worker' = worker /\ Ends(q, request[q].answer)
  BY DEF Return, At, LedgerOnly
<1>2. Left(request[q].consumed, request[q].settled, row[q].status) /\ RowsShaped(q)
  BY <1>1, Known DEF CleanInv, Clean
<1>3. CASE request[q].consumed \/ request[q].settled
  <2>1. row' = row
    BY <1>3 DEF Return, database
  <2>2. OthersStay(q) /\ row'[q] = row[q]
    BY <2>1, StaysPut
  <2>. DEFINE answer == request[q].answer
  <2>. HIDE DEF answer
  <2>3. Ends(q, answer)
    BY <1>1 DEF answer
  <2>4. QED
    BY <1>1, <1>2, <1>3, <2>2, <2>3, CleanEnds DEF Left
<1>4. CASE ~(request[q].consumed \/ request[q].settled)
  <2>1. PICK reply : Possible(reply) /\ L!Refund(q, reply)
    BY <1>4 DEF Return
  <2>2. reply # "error" /\ row[q].status = "reserved"
    BY <1>2, <1>4, <2>1, NoError DEF Left
  <2>3. row'[q].status = "refunded"
    BY <1>2, <2>1, <2>2, CleanRefund
  <2>4. OthersStay(q)
    BY <1>2, <2>1, LedgerRefund
  <2>. DEFINE answer == request[q].answer
  <2>. HIDE DEF answer
  <2>5. Ends(q, answer)
    BY <1>1 DEF answer
  <2>6. QED
    BY <1>1, <1>2, <1>4, <2>3, <2>4, <2>5, CleanEnds DEF Left
<1>5. QED
  BY <1>3, <1>4

LEMMA CleanServe ==
  ASSUME DatabaseAnswers, GatewayInv, CleanInv, NEW q \in Requests, Serve(q)
  PROVE  CleanInv'
<1>1. ~Unmark(q)
  BY DEF Unmark, At, CleanInv, Clean
<1>2. QED
  BY <1>1, CleanSelect, CleanReserves, CleanNext, CleanPrepare, CleanMarks, CleanSend, CleanUndial, CleanLost,
     CleanRejected, CleanBody, CleanRecords, CleanFinalizes, CleanVerdict, CleanReturn DEF Serve

-----------------------------------------------------------------------------
(* The worker, the clock and the end of the process.                       *)

LEMMA CleanCrash == ASSUME GatewayInv, CleanInv, Crash PROVE CleanInv'
<1>1. /\ row' = row /\ worker' = Idle
      /\ request' = [q \in Requests |-> IF request[q].at \in {"start", "done"} THEN request[q]
                                        ELSE [NewRequest EXCEPT !.at = "dead"]]
  BY DEF Crash, database
<1>2. ASSUME NEW q \in Requests PROVE Clean(request'[q], row'[q])
  <2>1. CASE request[q].at \in {"start", "done"}
    <3>1. request'[q] = request[q] /\ row'[q] = row[q]
      BY <1>1, <2>1
    <3>. HIDE DEF Clean
    <3>2. QED
      BY <3>1 DEF CleanInv
  <2>2. CASE request[q].at \notin {"start", "done"}
    <3>1. request'[q].at = "dead"
      BY <1>1, <2>2 DEF NewRequest
    <3>2. QED
      BY <3>1 DEF Clean, EndPlaces
  <2>3. QED
    BY <2>1, <2>2
<1>3. worker'.refund = {}
  BY <1>1 DEF Idle
<1>. HIDE DEF Clean
<1>4. QED
  BY <1>2, <1>3 DEF CleanInv, Clean

\* The worker and the clock touch one row, of which nothing is said, or that is over.
LEMMA CleanRow ==
  ASSUME CleanInv, NEW q \in Requests, request' = request, OthersStay(q), worker'.refund \subseteq worker.refund,
         Clean(request[q], row'[q])
  PROVE  CleanInv'
<1>. HIDE DEF Clean
<1>1. \A p \in Requests : Clean(request'[p], row'[p])
  BY DEF CleanInv, OthersStay
<1>2. \A p \in Requests : p \in worker'.refund => request'[p].at \in EndPlaces
  BY DEF CleanInv
<1>3. QED
  BY <1>1, <1>2 DEF CleanInv, Clean

LEMMA CleanAside ==
  ASSUME CleanInv, request' = request, row' = row, worker'.refund \subseteq worker.refund
  PROVE  CleanInv'
<1>. HIDE DEF Clean
<1>1. \A p \in Requests : Clean(request'[p], row'[p])
  BY DEF CleanInv
<1>2. \A p \in Requests : p \in worker'.refund => request'[p].at \in EndPlaces
  BY DEF CleanInv
<1>3. QED
  BY <1>1, <1>2 DEF CleanInv, Clean

\* What the worker settles is about to be settled by its request, or left behind by one that failed.
LEMMA CleanWorkerFinalizes ==
  ASSUME GatewayInv, CleanInv, NEW q \in Requests, NEW reply, RecoverConsumed(q, reply)
  PROVE  CleanInv'
<1>1. /\ L!Finalize(q, reply) /\ request' = request
      /\ worker' = [worker EXCEPT !.finalize = worker.finalize \ {q}]
  BY DEF RecoverConsumed
<1>2. RowsShaped(q) /\ Clean(request[q], row[q])
  BY Known DEF CleanInv
<1>3. OthersStay(q)
  BY <1>1, <1>2, LedgerFinalize
<1>4. \/ row'[q] = row[q]
      \/ row[q].status = "consumed_unsettled" /\ row'[q].status = "settled" /\ row'[q].stale = FALSE
  BY <1>1, <1>2, CleanFinalize
<1>5. worker'.refund \subseteq worker.refund
  BY <1>1
<1>6. Clean(request[q], row'[q])
  <2>1. CASE row'[q] = row[q]
    BY <1>2, <2>1
  <2>2. CASE row[q].status = "consumed_unsettled" /\ row'[q].status = "settled" /\ row'[q].stale = FALSE
    <3>1. CASE request[q].at = "done"
      BY <1>2, <2>2, <3>1 DEF Clean, EndPlaces, Left
    <3>2. CASE request[q].at # "done"
      BY <1>2, <2>2, <3>2 DEF Clean, EndPlaces, Left
    <3>3. QED
      BY <3>1, <3>2
  <2>3. QED
    BY <1>4, <2>1, <2>2
<1>. HIDE DEF Clean
<1>7. QED
  BY <1>1, <1>3, <1>5, <1>6, CleanRow

LEMMA CleanWorkerRefunds ==
  ASSUME GatewayInv, CleanInv, NEW q \in Requests, NEW reply, RecoverStale(q, reply)
  PROVE  CleanInv'
<1>1. /\ L!Refund(q, reply) /\ request' = request /\ q \in worker.refund
      /\ worker' = [worker EXCEPT !.refund = worker.refund \ {q}]
  BY DEF RecoverStale
<1>2. RowsShaped(q) /\ Clean(request[q], row[q]) /\ request[q].at \in EndPlaces
  BY <1>1, Known DEF CleanInv
<1>3. OthersStay(q)
  BY <1>1, <1>2, LedgerRefund
<1>4. \/ row'[q] = row[q]
      \/ row[q].status = "reserved" /\ row'[q].status = "refunded" /\ row'[q].stale = FALSE
  BY <1>1, <1>2, CleanRefund
<1>5. worker'.refund \subseteq worker.refund
  <2>1. CASE "refund" \in DOMAIN worker
    BY <1>1, <2>1
  <2>2. CASE "refund" \notin DOMAIN worker
    BY <1>1, <2>2
  <2>3. QED
    BY <2>1, <2>2
<1>6. Clean(request[q], row'[q])
  <2>1. CASE row'[q] = row[q]
    BY <1>2, <2>1
  <2>2. CASE row[q].status = "reserved" /\ row'[q].status = "refunded"
    BY <1>2, <2>2 DEF Clean, EndPlaces
  <2>3. QED
    BY <1>4, <2>1, <2>2
<1>. HIDE DEF Clean
<1>7. QED
  BY <1>1, <1>3, <1>5, <1>6, CleanRow

LEMMA CleanScan == ASSUME CleanInv, Scan PROVE CleanInv'
<1>1. /\ request' = request /\ row' = row
      /\ worker'.refund = L!StaleReserved
  BY DEF Scan, database
<1>. HIDE DEF Clean
<1>2. \A p \in Requests : Clean(request'[p], row'[p])
  BY <1>1 DEF CleanInv
<1>3. \A p \in Requests : p \in L!StaleReserved => request[p].at \in EndPlaces
  BY DEF CleanInv, Clean, L!StaleReserved
<1>4. QED
  BY <1>1, <1>2, <1>3 DEF CleanInv, Clean

\* A row grows stale when its request is over.
LEMMA CleanAge ==
  ASSUME DatabaseAnswers, GatewayInv, CleanInv, NEW q \in Requests, Age(q)
  PROVE  CleanInv'
<1>1. request[q].at \in EndPlaces /\ L!GrowStale(q) /\ request' = request /\ worker' = worker
  BY DEF Age, DatabaseAnswers, Ended, EndPlaces
<1>2. OthersStay(q) /\ row'[q].status = row[q].status
  BY <1>1, Known, LedgerGrowStale
<1>3. Clean(request[q], row'[q])
  BY <1>1, <1>2 DEF CleanInv, Clean, EndPlaces
<1>. HIDE DEF Clean
<1>4. QED
  BY <1>1, <1>2, <1>3, CleanRow

LEMMA NextClean ==
  ASSUME DatabaseAnswers, GatewayInv, CleanInv, [Next]_vars
  PROVE  CleanInv'
<1>1. CASE \E q \in Requests : Serve(q)
  BY <1>1, CleanServe
<1>2. CASE \E q \in Requests : Panic(q)
  BY <1>2 DEF Panic, DatabaseAnswers
<1>3. CASE (\E q \in Requests : HangUp(q)) \/ (\E ch \in Channels : Cool(ch)) \/ UNCHANGED vars
  <2>1. row' = row /\ request' = request /\ worker' = worker
    BY <1>3 DEF HangUp, Cool, vars, database
  <2>2. QED
    BY <2>1, CleanAside
<1>4. CASE Recover
  <2>1. CASE RecoverEnds
    <3>1. row' = row /\ request' = request /\ worker'.refund = {}
      BY <2>1 DEF RecoverEnds, Idle, database
    <3>2. QED
      BY <3>1, CleanAside
  <2>2. QED
    BY <1>4, <2>1, CleanScan, CleanWorkerFinalizes, CleanWorkerRefunds DEF Recover
<1>5. QED
  BY <1>1, <1>2, <1>3, <1>4, CleanCrash, CleanAge DEF Next

\* Requests that start, and requests at rest.
LEMMA InitShared ==
  ASSUME NEW l, l = NewRequest \/ l = [NewRequest EXCEPT !.at = "done"],
         L!Init, request = [q \in Requests |-> l], breaker = [ch \in Channels |-> B!NewBreaker], worker = Idle
  PROVE  SlotsInv /\ CleanInv
<1>1. /\ l.at \in {"start", "done"} /\ l.candidates = <<>>
      /\ l.consumed = FALSE /\ l.settled = FALSE
  BY DEF NewRequest
<1>2. \A q \in Requests : request[q] = l /\ row[q].status = "absent" /\ row[q].stale = FALSE
  BY DEF L!Init, L!AbsentRow
<1>3. SlotsInv
  <2>1. B!NewBreaker \in B!BreakerType /\ B!NewBreaker.state # "half_open"
    BY DEF B!NewBreaker, B!BreakerType, B!States
  <2>2. {"start", "done"} \cap Holding = {} /\ Judged \subseteq Holding
    BY DEF Judged, Holding, Attempting
  <2>3. <<>> \in Seq(Channels)
    OBVIOUS
  <2>4. QED
    BY <1>1, <1>2, <2>1, <2>2, <2>3 DEF SlotsInv, PermitOK, PermitsPaired
<1>4. CleanInv
  <2>1. \A q \in Requests : Clean(request[q], row[q])
    BY <1>1, <1>2 DEF Clean, EndPlaces
  <2>. HIDE DEF Clean
  <2>2. worker.refund = {}
    BY DEF Idle
  <2>3. QED
    BY <2>1, <2>2 DEF CleanInv
<1>5. QED
  BY <1>3, <1>4

-----------------------------------------------------------------------------
(* Both, of every run of Gateway.                                          *)

\* What is known of what requests share, and of their ends, as far as the faults allow it.
SharedInv == /\ "panic" \notin Faults => SlotsInv
             /\ DatabaseAnswers => CleanInv

LEMMA SharedGivesBack == SharedInv => GivesBack
<1>. SUFFICES ASSUME SharedInv
              PROVE  EndsClean /\ ProbesReturned
  BY DEF GivesBack
<1>1. ProbesReturned
  BY DEF SharedInv, SlotsInv, ProbesReturned
<1>2. EndsClean
  BY DEF SharedInv, DatabaseAnswers, CleanInv, Clean, EndsClean, At
<1>3. QED
  BY <1>1, <1>2

\* Every way an attempt ends, short of a panic, gives its probe slot back to the breaker it was
\* asked of; and with a database that answers a finished request has settled its hold, or kept
\* it because the provider may have run the model, or given it back (the switch over the
\* outcome and the deferred refund in forward), with any requests, channels and late results
\* in between.
THEOREM AttemptsGiveBack == Spec => []GivesBack
<1>1. Init => SharedInv
  BY InitShared DEF Init, SharedInv
<1>2. GatewayInv /\ SharedInv /\ [Next]_vars => SharedInv'
  BY GatewayAssumption, NextSlots, NextClean DEF SharedInv
<1>3. QED
  BY <1>1, <1>2, AlwaysGateway, SharedGivesBack, PTL DEF Spec

-----------------------------------------------------------------------------
(* Several instances: what the calls to the ledger do to a hold.           *)

Final == {"settled", "refunded"}

HoldsShaped == DOMAIN holds = Holds /\ \A h \in Holds : DOMAIN holds[h] = RowFields

\* One hold takes a step from one status to another.
Moves(h, from, to) ==
  /\ holds[h].status = from /\ holds'[h].status = to
  /\ \A k \in Holds \ {h} : holds'[k] = holds[k]

\* A step of one row is a step of one hold.
LEMMA RowWritten ==
  ASSUME HoldsShaped, NEW h \in Holds, NEW s, DOMAIN s = RowFields, holds' = [holds EXCEPT ![h] = s]
  PROVE  HoldsShaped' /\ Moves(h, holds[h].status, s.status)
<1>1. DOMAIN holds' = Holds /\ holds'[h] = s /\ \A k \in Holds \ {h} : holds'[k] = holds[k]
  BY DEF HoldsShaped
<1>2. QED
  BY <1>1 DEF HoldsShaped, Moves

\* The transactions after the first write a status into a row that is there.
LEMMA StatusWritten ==
  ASSUME HoldsShaped, NEW h \in Holds, NEW s, DOMAIN s = RowFields, NEW from, NEW to,
         holds[h].status = from, s.status = to, holds' = [holds EXCEPT ![h] = s]
  PROVE  HoldsShaped' /\ Moves(h, from, to)
BY RowWritten

LEMMA HoldReserve ==
  ASSUME HoldsShaped, NEW h \in Holds, NEW reply, I!L!Reserve(h, User, 2, reply)
  PROVE  HoldsShaped' /\ (holds' = holds \/ Moves(h, "absent", "reserved"))
<1>1. CASE I!L!CommitReserve(h, User, 2)
  <2> DEFINE s == [I!L!AbsentRow EXCEPT !.status = "reserved", !.user = User, !.amount = 2]
  <2>1. holds[h].status = "absent" /\ holds' = [holds EXCEPT ![h] = s]
    BY <1>1 DEF I!L!CommitReserve
  <2>2. DOMAIN s = RowFields /\ s.status = "reserved"
    BY DEF I!L!AbsentRow, RowFields
  <2>. HIDE DEF s
  <2>3. QED
    BY <2>1, <2>2, StatusWritten
<1>2. CASE holds' = holds
  BY <1>2 DEF HoldsShaped
<1>3. QED
  BY <1>1, <1>2 DEF I!L!Reserve, I!L!NoCommit, I!L!vars

LEMMA HoldMark ==
  ASSUME HoldsShaped, NEW h \in Holds, NEW ch, NEW reply, I!L!MarkInFlight(h, ch, reply)
  PROVE  /\ HoldsShaped' /\ (holds' = holds \/ Moves(h, "reserved", "in_flight"))
         /\ reply = "ok" => holds'[h].status = "in_flight"
<1>1. CASE I!L!CommitMark(h, ch)
  <2> DEFINE s == [holds[h] EXCEPT !.status = "in_flight", !.channel = ch, !.stale = FALSE]
  <2>1. holds[h].status = "reserved" /\ holds' = [holds EXCEPT ![h] = s]
    BY <1>1 DEF I!L!CommitMark, HoldsShaped
  <2>2. DOMAIN s = RowFields /\ s.status = "in_flight"
    BY DEF HoldsShaped, RowFields
  <2>. HIDE DEF s
  <2>3. QED
    BY <2>1, <2>2, StatusWritten DEF Moves
<1>2. CASE ~I!L!CommitMark(h, ch)
  <2>1. holds' = holds /\ (reply = "ok" => holds[h].status = "in_flight")
    BY <1>2 DEF I!L!MarkInFlight, I!L!NoCommit, I!L!vars
  <2>2. QED
    BY <2>1 DEF HoldsShaped
<1>3. QED
  BY <1>1, <1>2

LEMMA HoldRelease ==
  ASSUME HoldsShaped, NEW h \in Holds, NEW reply, I!L!ReleaseAttempt(h, reply)
  PROVE  HoldsShaped' /\ (holds' = holds \/ Moves(h, "in_flight", "reserved"))
<1>1. CASE I!L!CommitRelease(h)
  <2> DEFINE s == [holds[h] EXCEPT !.status = "reserved", !.stale = FALSE]
  <2>1. holds[h].status = "in_flight" /\ holds' = [holds EXCEPT ![h] = s]
    BY <1>1 DEF I!L!CommitRelease, HoldsShaped
  <2>2. DOMAIN s = RowFields /\ s.status = "reserved"
    BY DEF HoldsShaped, RowFields
  <2>. HIDE DEF s
  <2>3. QED
    BY <2>1, <2>2, StatusWritten
<1>2. CASE holds' = holds
  BY <1>2 DEF HoldsShaped
<1>3. QED
  BY <1>1, <1>2 DEF I!L!ReleaseAttempt, I!L!NoCommit, I!L!vars

LEMMA HoldRecord ==
  ASSUME HoldsShaped, NEW h \in Holds, NEW ch, NEW c, NEW reply, I!L!RecordConsumption(h, ch, c, reply)
  PROVE  HoldsShaped' /\ (holds' = holds \/ Moves(h, "in_flight", "consumed_unsettled"))
<1>1. CASE I!L!CommitConsumption(h, ch, c)
  <2> DEFINE s == [holds[h] EXCEPT !.status = "consumed_unsettled", !.cost = c, !.stale = FALSE]
  <2>1. holds[h].status = "in_flight" /\ holds' = [holds EXCEPT ![h] = s]
    BY <1>1 DEF I!L!CommitConsumption, HoldsShaped
  <2>2. DOMAIN s = RowFields /\ s.status = "consumed_unsettled"
    BY DEF HoldsShaped, RowFields
  <2>. HIDE DEF s
  <2>3. QED
    BY <2>1, <2>2, StatusWritten
<1>2. CASE holds' = holds
  BY <1>2 DEF HoldsShaped
<1>3. QED
  BY <1>1, <1>2 DEF I!L!RecordConsumption, I!L!NoCommit, I!L!vars

LEMMA HoldFinalize ==
  ASSUME HoldsShaped, NEW h \in Holds, NEW reply, I!L!Finalize(h, reply)
  PROVE  /\ HoldsShaped' /\ (holds' = holds \/ Moves(h, "consumed_unsettled", "settled"))
         /\ reply = "ok" => holds'[h].status = "settled"
<1>1. CASE I!L!CommitFinalize(h)
  <2> DEFINE s == [holds[h] EXCEPT !.status = "settled", !.stale = FALSE]
  <2>1. holds[h].status = "consumed_unsettled" /\ holds' = [holds EXCEPT ![h] = s]
    BY <1>1 DEF I!L!CommitFinalize, HoldsShaped
  <2>2. DOMAIN s = RowFields /\ s.status = "settled"
    BY DEF HoldsShaped, RowFields
  <2>. HIDE DEF s
  <2>3. QED
    BY <2>1, <2>2, StatusWritten DEF Moves
<1>2. CASE ~I!L!CommitFinalize(h)
  <2>1. holds' = holds /\ (reply = "ok" => holds[h].status = "settled")
    BY <1>2 DEF I!L!Finalize, I!L!NoCommit, I!L!vars
  <2>2. QED
    BY <2>1 DEF HoldsShaped
<1>3. QED
  BY <1>1, <1>2

LEMMA HoldRefund ==
  ASSUME HoldsShaped, NEW h \in Holds, NEW reply, I!L!Refund(h, reply)
  PROVE  /\ HoldsShaped' /\ (holds' = holds \/ Moves(h, "reserved", "refunded"))
         /\ reply = "ok" => holds'[h].status = "refunded"
<1>1. CASE I!L!CommitRefund(h)
  <2> DEFINE s == [holds[h] EXCEPT !.status = "refunded", !.stale = FALSE]
  <2>1. holds[h].status = "reserved" /\ holds' = [holds EXCEPT ![h] = s]
    BY <1>1 DEF I!L!CommitRefund, HoldsShaped
  <2>2. DOMAIN s = RowFields /\ s.status = "refunded"
    BY DEF HoldsShaped, RowFields
  <2>. HIDE DEF s
  <2>3. QED
    BY <2>1, <2>2, StatusWritten DEF Moves
<1>2. CASE ~I!L!CommitRefund(h)
  <2>1. holds' = holds /\ (reply = "ok" => holds[h].status = "refunded")
    BY <1>2 DEF I!L!Refund, I!L!NoCommit, I!L!vars
  <2>2. QED
    BY <2>1 DEF HoldsShaped
<1>3. QED
  BY <1>1, <1>2

LEMMA HoldAge ==
  ASSUME HoldsShaped, NEW h \in Holds, I!L!GrowStale(h)
  PROVE  HoldsShaped' /\ \A k \in Holds : holds'[k].status = holds[k].status
<1> DEFINE s == [holds[h] EXCEPT !.stale = TRUE]
<1>1. holds' = [holds EXCEPT ![h] = s]
  BY DEF I!L!GrowStale, HoldsShaped
<1>2. DOMAIN s = RowFields /\ s.status = holds[h].status
  BY DEF HoldsShaped, RowFields
<1>. HIDE DEF s
<1>3. QED
  BY <1>1, <1>2, RowWritten DEF Moves

-----------------------------------------------------------------------------
(* The invariant of the instances.                                         *)

\* What is known of a hold by where its request stands: once it may have reached the model
\* the hold is kept and only its settlement is left; a request that ended well left nothing
\* half done.
HandlerInv(l, status, gone) ==
  /\ gone => status \in Kept /\ l.at \in {"answered", "settle", "done", "dead"}
  /\ l.at = "marked" => status = "in_flight"
  /\ l.at = "done" /\ ~l.troubled => status \in Final \/ (status = "in_flight" /\ gone)

\* What is known of a process: only a stop in order is clean, and leaves no request at work; what
\* a start found and has not tried yet is still on its lists, or the start fails.
ProcessInv(i, p) ==
  /\ p \in I!Process
  /\ p.clean => p.at \in {"closing", "down"}
  /\ p.at = "closing" /\ p.clean => \A h \in Holds : handler[h].by = i => handler[h].at \in {"done", "dead"}
  /\ p.at = "recovering" /\ ~p.failed =>
       \A h \in p.found : h \in p.finalize \cup p.refund \/ holds[h].status \in Final
  /\ p.at = "serving" => \A h \in p.found : holds[h].status \in Final

HandlersInv  == /\ handler \in [Holds -> I!Handler] /\ sent \subseteq Holds
                /\ \A h \in Holds : HandlerInv(handler[h], holds[h].status, h \in sent)
ProcessesInv == /\ DOMAIN process = Instances
                /\ \A i \in Instances : ProcessInv(i, process[i])

LifeInv == HoldsShaped /\ HandlersInv /\ ProcessesInv

\* What is settled or given back stays so.
FinalStays == \A h \in Holds : holds[h].status \in Final => holds'[h].status = holds[h].status

\* A request that is over has taken its last step, and an instance takes requests while it serves.
HandlersWork ==
  \A h \in Holds : \/ handler'[h] = handler[h]
                   \/ handler[h].at \notin {"done", "dead"} /\ handler'[h].by = handler[h].by
                   \/ \E i \in Instances : handler'[h].by = i /\ process[i].at = "serving"
                   \/ handler'[h].at \in {"done", "dead"}

LEMMA MoveIsNotFinal ==
  ASSUME HoldsShaped, NEW h \in Holds, NEW from, NEW to, from \notin Final,
         holds' = holds \/ Moves(h, from, to)
  PROVE  FinalStays
BY DEF Moves, FinalStays, HoldsShaped

LEMMA ProcessesKept ==
  ASSUME ProcessesInv, process' = process, FinalStays, HandlersWork
  PROVE  ProcessesInv'
<1>. SUFFICES ASSUME NEW i \in Instances PROVE ProcessInv(i, process[i])'
  BY DEF ProcessesInv
<1>1. ProcessInv(i, process[i]) /\ process'[i] = process[i]
  BY DEF ProcessesInv
<1>2. process[i].found \subseteq Holds
  BY <1>1 DEF ProcessInv, I!Process
<1>3. ASSUME process[i].at = "closing", process[i].clean, NEW h \in Holds, handler'[h].by = i
      PROVE  handler'[h].at \in {"done", "dead"}
  BY <1>1, <1>3 DEF ProcessInv, HandlersWork
<1>4. QED
  BY <1>1, <1>2, <1>3 DEF ProcessInv, FinalStays

\* Only one process takes a step.
LEMMA OneProcess ==
  ASSUME ProcessesInv, NEW i \in Instances, NEW p, process' = [process EXCEPT ![i] = p],
         FinalStays, handler' = handler \/ HandlersWork, ProcessInv(i, p)'
  PROVE  ProcessesInv'
<1>1. DOMAIN process' = Instances /\ process'[i] = p
  BY DEF ProcessesInv
<1>2. ASSUME NEW j \in Instances, j # i PROVE ProcessInv(j, process[j])'
  <2>1. ProcessInv(j, process[j]) /\ process'[j] = process[j] /\ process[j].found \subseteq Holds
    BY <1>2 DEF ProcessesInv, ProcessInv, I!Process
  <2>2. ASSUME process[j].at = "closing", process[j].clean, NEW h \in Holds, handler'[h].by = j
        PROVE  handler'[h].at \in {"done", "dead"}
    BY <2>1, <2>2 DEF ProcessInv, HandlersWork
  <2>3. QED
    BY <2>1, <2>2 DEF ProcessInv, FinalStays
<1>3. ProcessInv(i, process[i])'
  BY <1>1
<1>4. QED
  BY <1>1, <1>2, <1>3 DEF ProcessesInv

\* A step that leaves the requests alone.
LEMMA HandlersKept ==
  ASSUME HandlersInv, HoldsShaped, handler' = handler, sent' = sent,
         NEW h \in Holds,
         \/ holds' = holds
         \/ Moves(h, "consumed_unsettled", "settled") \/ Moves(h, "reserved", "refunded")
  PROVE  HandlersInv' /\ FinalStays
<1>1. ASSUME NEW k \in Holds PROVE HandlerInv(handler[k], holds'[k].status, k \in sent)
  BY DEF HandlersInv, HandlerInv, Moves, Final, Kept
<1>2. FinalStays
  BY DEF FinalStays, Moves, Final
<1>3. QED
  BY <1>1, <1>2 DEF HandlersInv

\* A step of one request.
LEMMA OneHandler ==
  ASSUME LifeInv, NEW h \in Holds, NEW l \in I!Handler, handler' = [handler EXCEPT ![h] = l],
         process' = process,
         HoldsShaped', FinalStays, \A k \in Holds \ {h} : holds'[k] = holds[k],
         sent' = sent \/ sent' = sent \cup {h},
         handler[h].at \notin {"done", "dead"},
         l.by = handler[h].by \/ (l.by \in Instances /\ process[l.by].at = "serving"),
         HandlerInv(l, holds'[h].status, h \in sent')
  PROVE  LifeInv'
<1>1. handler' \in [Holds -> I!Handler] /\ handler'[h] = l /\ \A k \in Holds \ {h} : handler'[k] = handler[k]
  BY DEF LifeInv, HandlersInv
<1>2. ASSUME NEW k \in Holds PROVE HandlerInv(handler'[k], holds'[k].status, k \in sent')
  <2>1. CASE k = h
    BY <2>1, <1>1
  <2>2. CASE k # h
    BY <2>2, <1>1 DEF LifeInv, HandlersInv
  <2>3. QED
    BY <2>1, <2>2
<1>3. HandlersInv'
  BY <1>1, <1>2 DEF HandlersInv, LifeInv
<1>4. HandlersWork
  BY <1>1 DEF HandlersWork
<1>5. ProcessesInv'
  BY <1>4, ProcessesKept DEF LifeInv
<1>6. QED
  BY <1>3, <1>5 DEF LifeInv

-----------------------------------------------------------------------------
(* The steps of the instances.                                             *)

LEMMA ProcessKnown ==
  ASSUME LifeInv, NEW i \in Instances
  PROVE  ProcessInv(i, process[i]) /\ process[i] \in I!Process /\ DOMAIN process = Instances
BY DEF LifeInv, ProcessesInv, ProcessInv

\* A step of main that touches neither the ledger nor the requests.
LEMMA ProcessStep ==
  ASSUME LifeInv, NEW i \in Instances, NEW p, process' = [process EXCEPT ![i] = p],
         holds' = holds, handler' = handler, sent' = sent, ProcessInv(i, p)
  PROVE  LifeInv'
<1>1. HoldsShaped' /\ HandlersInv'
  BY DEF LifeInv, HoldsShaped, HandlersInv
<1>2. FinalStays /\ HandlersWork
  BY DEF FinalStays, HandlersWork
<1>3. ProcessInv(i, p)'
  BY DEF ProcessInv
<1>4. QED
  BY <1>1, <1>2, <1>3, OneProcess DEF LifeInv

LEMMA DownIsFine ==
  ASSUME NEW i, NEW place \in {"down", "starting", "closing"}
  PROVE  ProcessInv(i, [I!Down EXCEPT !.at = place])
BY DEF ProcessInv, I!Down, I!Process

LEMMA LifeBoot == ASSUME LifeInv, NEW i \in Instances, I!Boot(i) PROVE LifeInv'
<1>1. process' = [process EXCEPT ![i] = [I!Down EXCEPT !.at = "starting"]]
      /\ holds' = holds /\ handler' = handler /\ sent' = sent
  BY DEF I!Boot, I!ProcessOnly, I!database
<1>2. QED
  BY <1>1, DownIsFine, ProcessStep

LEMMA LifeList ==
  ASSUME LifeInv, NEW i \in Instances, NEW reply, I!List(i, reply)
  PROVE  LifeInv'
<1>1. holds' = holds /\ handler' = handler /\ sent' = sent
  BY DEF I!List, I!ProcessOnly, I!database
<1>2. ProcessInv(i, process[i]) /\ process[i] \in I!Process
  BY ProcessKnown
<1> DEFINE C == I!L!ConsumedUnsettled
           S == I!L!StaleReserved
           first == process[i].at = "starting"
           p == IF first THEN [process[i] EXCEPT !.finalize = C, !.refund = S, !.at = "recovering", !.found = C \cup S]
                ELSE [process[i] EXCEPT !.finalize = C, !.refund = S, !.found = {}]
<1>3. C \subseteq Holds /\ S \subseteq Holds
  BY DEF I!L!ConsumedUnsettled, I!L!StaleReserved
<1>. HIDE DEF C, S
<1>4. CASE process' = [process EXCEPT ![i] = I!Down]
  <2>1. I!Down = [I!Down EXCEPT !.at = "down"]
    BY DEF I!Down
  <2>2. QED
    BY <1>1, <1>4, <2>1, DownIsFine, ProcessStep
<1>5. CASE process' = [process EXCEPT ![i] = p] /\ process[i].at \in {"starting", "serving", "draining"}
  <2>1. /\ p \in I!Process /\ p.at = (IF first THEN "recovering" ELSE process[i].at)
        /\ p.found = (IF first THEN C \cup S ELSE {}) /\ p.finalize = C /\ p.refund = S
        /\ p.clean = process[i].clean
    BY <1>2, <1>3, <1>5 DEF I!Process
  <2>. HIDE DEF p
  <2>2. ProcessInv(i, p)
    BY <1>2, <1>5, <2>1 DEF ProcessInv
  <2>3. QED
    BY <1>1, <1>5, <2>2, ProcessStep
<1>6. QED
  <2>1. ProcessesInv
    BY DEF LifeInv
  <2>2. process' = [process EXCEPT ![i] = p] \/ process' = [process EXCEPT ![i] = I!Down]
    BY DEF I!List, C, S
  <2>3. process[i].at \in {"starting", "serving", "draining"}
    BY DEF I!List
  <2>4. QED
    BY <1>4, <1>5, <2>2, <2>3

LEMMA LifeRecover ==
  ASSUME LifeInv, NEW i \in Instances, NEW h \in Holds, NEW reply, I!Recover(i, h, reply)
  PROVE  LifeInv'
<1>1. handler' = handler /\ sent' = sent
  BY DEF I!Recover
<1>2. ProcessInv(i, process[i]) /\ process[i] \in I!Process
  BY ProcessKnown
<1>3. /\ HoldsShaped'
      /\ \/ holds' = holds
         \/ Moves(h, "consumed_unsettled", "settled") \/ Moves(h, "reserved", "refunded")
      /\ reply = "ok" => holds'[h].status \in Final
  BY HoldFinalize, HoldRefund DEF I!Recover, LifeInv, Final
<1>4. HandlersInv' /\ FinalStays
  BY <1>1, <1>3, HandlersKept DEF LifeInv
<1> DEFINE p == [process[i] EXCEPT !.finalize = process[i].finalize \ {h},
                   !.refund = IF process[i].finalize = {} THEN process[i].refund \ {h} ELSE process[i].refund,
                   !.failed = process[i].failed \/ (process[i].at = "recovering" /\ reply # "ok")]
<1>5. process' = [process EXCEPT ![i] = p]
  BY DEF I!Recover, LifeInv, ProcessesInv
<1>6. /\ p \in I!Process /\ p.at = process[i].at /\ p.found = process[i].found /\ p.clean = process[i].clean
      /\ process[i].finalize \subseteq p.finalize \cup {h} /\ process[i].refund \subseteq p.refund \cup {h}
      /\ ~p.failed => ~process[i].failed
      /\ p.at = "recovering" /\ ~p.failed => reply = "ok"
  BY <1>2 DEF I!Process
<1>. HIDE DEF p
<1>7. process[i].found \subseteq Holds
  BY <1>2 DEF I!Process
<1>8. PICK q : q = p
  OBVIOUS
<1>9. ProcessInv(i, q)'
  <2>1. ASSUME p.at = "recovering", ~p.failed, NEW k \in p.found
        PROVE  k \in p.finalize \cup p.refund \/ holds'[k].status \in Final
    <3>1. k \in process[i].finalize \cup process[i].refund \/ holds[k].status \in Final
      BY <1>2, <1>6, <2>1 DEF ProcessInv
    <3>2. CASE k = h
      BY <3>2, <1>3, <1>6, <2>1
    <3>3. CASE k # h
      BY <3>1, <3>3, <1>4, <1>6, <1>7, <2>1 DEF FinalStays
    <3>4. QED
      BY <3>2, <3>3
  <2>2. p.at = "serving" => \A k \in p.found : holds'[k].status \in Final
    BY <1>2, <1>4, <1>6, <1>7 DEF ProcessInv, FinalStays
  <2>3. QED
    BY <1>1, <1>2, <1>6, <1>8, <2>1, <2>2 DEF ProcessInv
<1>10. ProcessesInv'
  <2>1. HandlersWork
    BY <1>1 DEF HandlersWork
  <2>2. QED
    BY <1>4, <1>5, <1>8, <1>9, <2>1, OneProcess DEF LifeInv
<1>11. QED
  BY <1>3, <1>4, <1>10 DEF LifeInv

LEMMA LifeStartEnds == ASSUME LifeInv, NEW i \in Instances, I!StartEnds(i) PROVE LifeInv'
<1>1. holds' = holds /\ handler' = handler /\ sent' = sent
  BY DEF I!StartEnds, I!ProcessOnly, I!database
<1>2. ProcessInv(i, process[i]) /\ process[i] \in I!Process
  BY ProcessKnown
<1>3. CASE process[i].failed
  <2>1. process' = [process EXCEPT ![i] = I!Down] /\ I!Down = [I!Down EXCEPT !.at = "down"]
    BY <1>3 DEF I!StartEnds, I!Down
  <2>2. QED
    BY <1>1, <2>1, DownIsFine, ProcessStep
<1>4. CASE ~process[i].failed
  <2> DEFINE p == [I!Down EXCEPT !.at = "serving", !.found = process[i].found]
  <2>1. process' = [process EXCEPT ![i] = p]
    BY <1>4 DEF I!StartEnds
  <2>2. p \in I!Process /\ p.at = "serving" /\ p.found = process[i].found /\ ~p.clean
    BY <1>2 DEF I!Process, I!Down
  <2>. HIDE DEF p
  <2>3. \A h \in process[i].found : holds[h].status \in Final
    BY <1>2, <1>4 DEF ProcessInv, I!StartEnds, I!Idle
  <2>4. ProcessInv(i, p)
    BY <2>2, <2>3 DEF ProcessInv
  <2>5. QED
    BY <1>1, <2>1, <2>4, ProcessStep
<1>5. QED
  BY <1>3, <1>4

LEMMA LifeSignal == ASSUME LifeInv, NEW i \in Instances, I!Signal(i) PROVE LifeInv'
<1>1. holds' = holds /\ handler' = handler /\ sent' = sent
  BY DEF I!Signal, I!database
<1>2. ProcessInv(i, process[i]) /\ process[i] \in I!Process /\ process[i].at = "serving"
  BY ProcessKnown DEF I!Signal
<1>3. PICK next \in {"draining", "closing"} : process' = [process EXCEPT ![i].at = next]
  BY DEF I!Signal
<1> DEFINE p == [process[i] EXCEPT !.at = next]
<1>4. process' = [process EXCEPT ![i] = p]
  BY <1>3 DEF LifeInv, ProcessesInv
<1>5. p \in I!Process /\ p.at = next /\ p.clean = process[i].clean
  BY <1>2 DEF I!Process
<1>. HIDE DEF p
<1>6. ProcessInv(i, p)
  BY <1>2, <1>5 DEF ProcessInv
<1>7. QED
  BY <1>1, <1>4, <1>6, ProcessStep

LEMMA LifeDrained == ASSUME LifeInv, NEW i \in Instances, I!Drained(i) PROVE LifeInv'
<1> DEFINE p == [I!Down EXCEPT !.at = "closing", !.clean = TRUE]
<1>1. process' = [process EXCEPT ![i] = p] /\ holds' = holds /\ handler' = handler /\ sent' = sent
  BY DEF I!Drained, I!ProcessOnly, I!database
<1>2. p \in I!Process /\ p.at = "closing"
  BY DEF I!Process, I!Down
<1>. HIDE DEF p
<1>3. \A h \in Holds : handler[h].by = i => handler[h].at \in {"done", "dead"}
  BY DEF I!Drained, I!OwnHandlers, I!Over
<1>4. ProcessInv(i, p)
  BY <1>2, <1>3 DEF ProcessInv
<1>5. QED
  BY <1>1, <1>4, ProcessStep

LEMMA LifeOverdue == ASSUME LifeInv, NEW i \in Instances, I!Overdue(i) PROVE LifeInv'
<1>1. process' = [process EXCEPT ![i] = [I!Down EXCEPT !.at = "closing"]]
      /\ holds' = holds /\ handler' = handler /\ sent' = sent
  BY DEF I!Overdue, I!ProcessOnly, I!database
<1>2. QED
  BY <1>1, DownIsFine, ProcessStep

\* The death of a process leaves its requests where they were.
LEMMA DyingKeeps ==
  ASSUME LifeInv, NEW i \in Instances, I!Dies(i), holds' = holds, sent' = sent
  PROVE  HoldsShaped' /\ HandlersInv' /\ HandlersWork /\ FinalStays
<1>1. \A h \in Holds : \/ handler'[h] = handler[h]
                       \/ handler'[h] = [handler[h] EXCEPT !.at = "dead"]
  BY DEF I!Dies
<1>2. ASSUME NEW h \in Holds
      PROVE  /\ handler'[h] \in I!Handler
             /\ handler'[h] = handler[h] \/ handler'[h].at = "dead"
  BY <1>1 DEF LifeInv, HandlersInv, I!Handler
<1>3. handler' = [h \in Holds |-> handler'[h]]
  BY DEF I!Dies
<1>4. handler' \in [Holds -> I!Handler]
  BY <1>2, <1>3
<1>5. ASSUME NEW h \in Holds PROVE HandlerInv(handler'[h], holds[h].status, h \in sent)
  BY <1>2 DEF LifeInv, HandlersInv, HandlerInv
<1>6. HandlersInv'
  BY <1>4, <1>5 DEF HandlersInv, LifeInv
<1>7. QED
  BY <1>2, <1>6 DEF HandlersWork, FinalStays, LifeInv, HoldsShaped

LEMMA LifeExit == ASSUME LifeInv, NEW i \in Instances, I!Exit(i) PROVE LifeInv'
<1>1. holds' = holds /\ sent' = sent /\ I!Dies(i) /\ process' = [process EXCEPT ![i].at = "down"]
  BY DEF I!Exit, I!database
<1>2. ProcessInv(i, process[i]) /\ process[i] \in I!Process
  BY ProcessKnown
<1> DEFINE p == [process[i] EXCEPT !.at = "down"]
<1>3. process' = [process EXCEPT ![i] = p]
  BY <1>1 DEF LifeInv, ProcessesInv
<1>4. p \in I!Process /\ p.at = "down"
  BY <1>2 DEF I!Process
<1>. HIDE DEF p
<1>5. PICK q : q = p
  OBVIOUS
<1>6. ProcessInv(i, q)'
  BY <1>4, <1>5 DEF ProcessInv
<1>7. QED
  BY <1>1, <1>3, <1>5, <1>6, DyingKeeps, OneProcess DEF LifeInv

LEMMA LifeDeath == ASSUME LifeInv, NEW i \in Instances, I!Crash(i) PROVE LifeInv'
<1>1. holds' = holds /\ sent' = sent /\ I!Dies(i) /\ process' = [process EXCEPT ![i] = I!Down]
  BY DEF I!Crash, I!database
<1>2. I!Down \in I!Process /\ I!Down.at = "down" /\ ~I!Down.clean
  BY DEF I!Down, I!Process
<1>3. ProcessInv(i, I!Down)'
  BY <1>2 DEF ProcessInv
<1>4. QED
  BY <1>1, <1>3, DyingKeeps, OneProcess DEF LifeInv

-----------------------------------------------------------------------------
(* The steps of the requests.                                              *)

LEMMA HandlerKnown ==
  ASSUME LifeInv, NEW h \in Holds
  PROVE  /\ HandlerInv(handler[h], holds[h].status, h \in sent)
         /\ handler[h] \in I!Handler
BY DEF LifeInv, HandlersInv

\* Where a request goes, and the calls that went wrong are remembered.
LEMMA ProceedsTo ==
  ASSUME LifeInv, NEW h \in Holds, NEW place \in {"held", "marked", "release", "answered", "settle", "refund", "done"},
         NEW reply, I!Proceeds(h, place, reply)
  PROVE  \E l \in I!Handler : /\ handler' = [handler EXCEPT ![h] = l]
                              /\ l.by = handler[h].by /\ l.at = place
                              /\ l.troubled = (handler[h].troubled \/ reply # "ok")
<1> DEFINE l == [handler[h] EXCEPT !.at = place, !.troubled = handler[h].troubled \/ reply # "ok"]
<1>1. handler' = [handler EXCEPT ![h] = l]
  BY DEF I!Proceeds, LifeInv, HandlersInv
<1>2. l \in I!Handler /\ l.by = handler[h].by /\ l.at = place /\ l.troubled = (handler[h].troubled \/ reply # "ok")
  BY HandlerKnown DEF I!Handler
<1>. HIDE DEF l
<1>3. QED
  BY <1>1, <1>2

LEMMA LifeAccept ==
  ASSUME LifeInv, NEW i \in Instances, NEW h \in Holds, NEW reply, I!Accept(i, h, reply)
  PROVE  LifeInv'
<1> DEFINE l == [by |-> i, troubled |-> reply # "ok", at |-> IF reply = "ok" THEN "held" ELSE "done"]
<1>1. /\ handler' = [handler EXCEPT ![h] = l] /\ process' = process /\ sent' = sent
      /\ process[i].at = "serving" /\ handler[h].at = "none"
  BY DEF I!Accept
<1>2. HoldsShaped' /\ (holds' = holds \/ Moves(h, "absent", "reserved"))
  BY HoldReserve DEF I!Accept, LifeInv
<1>3. FinalStays /\ \A k \in Holds \ {h} : holds'[k] = holds[k]
  BY <1>2, MoveIsNotFinal DEF LifeInv, Final, Moves
<1>4. h \notin sent
  BY <1>1, HandlerKnown DEF HandlerInv
<1>5. l \in I!Handler /\ l.by = i /\ l.at \in {"held", "done"} /\ (l.at = "done" => l.troubled)
  BY DEF I!Handler
<1>. HIDE DEF l
<1>6. HandlerInv(l, holds'[h].status, h \in sent')
  BY <1>1, <1>4, <1>5 DEF HandlerInv
<1>7. QED
  BY <1>1, <1>2, <1>3, <1>5, <1>6, OneHandler

LEMMA LifeMark ==
  ASSUME LifeInv, NEW h \in Holds, NEW reply, I!Mark(h, reply)
  PROVE  LifeInv'
<1>1. /\ process' = process /\ sent' = sent /\ handler[h].at = "held"
      /\ I!Proceeds(h, IF reply = "ok" THEN "marked" ELSE "release", reply)
  BY DEF I!Mark
<1>2. /\ HoldsShaped' /\ (holds' = holds \/ Moves(h, "reserved", "in_flight"))
      /\ reply = "ok" => holds'[h].status = "in_flight"
  BY HoldMark DEF I!Mark, LifeInv
<1>3. FinalStays /\ \A k \in Holds \ {h} : holds'[k] = holds[k]
  BY <1>2, MoveIsNotFinal DEF LifeInv, Final, Moves
<1>4. h \notin sent
  BY <1>1, HandlerKnown DEF HandlerInv
<1>5. PICK l \in I!Handler : /\ handler' = [handler EXCEPT ![h] = l] /\ l.by = handler[h].by
                             /\ l.at = IF reply = "ok" THEN "marked" ELSE "release"
  BY <1>1, ProceedsTo
<1>6. HandlerInv(l, holds'[h].status, h \in sent')
  BY <1>1, <1>2, <1>4, <1>5 DEF HandlerInv
<1>7. QED
  BY <1>1, <1>2, <1>3, <1>5, <1>6, OneHandler

\* A step of a request that makes no call to the ledger.
LEMMA LifeAlone ==
  ASSUME LifeInv, NEW h \in Holds, I!GiveUp(h) \/ I!Send(h)
  PROVE  LifeInv'
<1>1. /\ process' = process /\ holds' = holds /\ handler[h].at \in {"held", "marked"}
      /\ \E place \in {"refund", "answered", "release", "done"} :
           /\ I!Proceeds(h, place, "ok")
           /\ \/ sent' = sent /\ place \in {"refund", "release"}
              \/ sent' = sent \cup {h} /\ place \in {"answered", "done"} /\ handler[h].at = "marked"
  BY DEF I!GiveUp, I!Send, I!database
<1>2. PICK place \in {"refund", "answered", "release", "done"} :
           /\ I!Proceeds(h, place, "ok")
           /\ \/ sent' = sent /\ place \in {"refund", "release"}
              \/ sent' = sent \cup {h} /\ place \in {"answered", "done"} /\ handler[h].at = "marked"
  BY <1>1
<1>3. HoldsShaped' /\ FinalStays
  BY <1>1 DEF LifeInv, HoldsShaped, FinalStays
<1>4. h \notin sent /\ (handler[h].at = "marked" => holds[h].status = "in_flight")
  BY <1>1, HandlerKnown DEF HandlerInv
<1>5. PICK l \in I!Handler : handler' = [handler EXCEPT ![h] = l] /\ l.by = handler[h].by /\ l.at = place
  BY <1>2, ProceedsTo
<1>6. HandlerInv(l, holds'[h].status, h \in sent')
  BY <1>1, <1>2, <1>4, <1>5 DEF HandlerInv, Kept
<1>7. QED
  BY <1>1, <1>2, <1>3, <1>5, <1>6, OneHandler

LEMMA LifeRelease ==
  ASSUME LifeInv, NEW h \in Holds, NEW reply, I!Release(h, reply)
  PROVE  LifeInv'
<1>1. process' = process /\ sent' = sent /\ handler[h].at = "release"
  BY DEF I!Release
<1>2. HoldsShaped' /\ (holds' = holds \/ Moves(h, "in_flight", "reserved"))
  BY HoldRelease DEF I!Release, LifeInv
<1>3. FinalStays /\ \A k \in Holds \ {h} : holds'[k] = holds[k]
  BY <1>2, MoveIsNotFinal DEF LifeInv, Final, Moves
<1>4. h \notin sent
  BY <1>1, HandlerKnown DEF HandlerInv
<1>5. PICK place \in {"held", "refund", "done"} :
        I!Proceeds(h, place, reply) /\ (place = "done" => reply # "ok")
  BY DEF I!Release
<1>6. PICK l \in I!Handler : /\ handler' = [handler EXCEPT ![h] = l] /\ l.by = handler[h].by
                             /\ l.at = place /\ l.troubled = (handler[h].troubled \/ reply # "ok")
  BY <1>5, ProceedsTo
<1>7. HandlerInv(l, holds'[h].status, h \in sent')
  BY <1>1, <1>4, <1>5, <1>6 DEF HandlerInv
<1>8. QED
  BY <1>1, <1>2, <1>3, <1>6, <1>7, OneHandler

LEMMA LifeRecord ==
  ASSUME LifeInv, NEW h \in Holds, NEW reply, I!Record(h, reply)
  PROVE  LifeInv'
<1>1. process' = process /\ sent' = sent /\ handler[h].at = "answered"
  BY DEF I!Record
<1>2. HoldsShaped' /\ (holds' = holds \/ Moves(h, "in_flight", "consumed_unsettled"))
  BY HoldRecord DEF I!Record, LifeInv
<1>3. FinalStays /\ \A k \in Holds \ {h} : holds'[k] = holds[k]
  BY <1>2, MoveIsNotFinal DEF LifeInv, Final, Moves
<1>4. h \in sent => holds'[h].status \in Kept
  BY <1>1, <1>2, HandlerKnown DEF HandlerInv, Moves, Kept
<1>5. PICK place \in {"settle", "answered", "done"} :
        I!Proceeds(h, place, reply) /\ (place = "done" => reply # "ok")
  BY DEF I!Record
<1>6. PICK l \in I!Handler : /\ handler' = [handler EXCEPT ![h] = l] /\ l.by = handler[h].by
                             /\ l.at = place /\ l.troubled = (handler[h].troubled \/ reply # "ok")
  BY <1>5, ProceedsTo
<1>7. HandlerInv(l, holds'[h].status, h \in sent')
  BY <1>1, <1>4, <1>5, <1>6 DEF HandlerInv
<1>8. QED
  BY <1>1, <1>2, <1>3, <1>6, <1>7, OneHandler

LEMMA LifeFinish ==
  ASSUME LifeInv, NEW h \in Holds, NEW reply, I!Finish(h, reply)
  PROVE  LifeInv'
<1>1. process' = process /\ sent' = sent /\ handler[h].at \in {"settle", "refund"} /\ I!Proceeds(h, "done", reply)
  BY DEF I!Finish
<1>2. /\ HoldsShaped'
      /\ \/ holds' = holds
         \/ Moves(h, "consumed_unsettled", "settled") \/ Moves(h, "reserved", "refunded")
      /\ reply = "ok" => holds'[h].status \in Final
  BY HoldFinalize, HoldRefund DEF I!Finish, LifeInv, Final
<1>3. FinalStays /\ \A k \in Holds \ {h} : holds'[k] = holds[k]
  BY <1>2, MoveIsNotFinal DEF LifeInv, Final, Moves
<1>4. h \in sent => holds'[h].status \in Kept
  BY <1>1, <1>2, HandlerKnown DEF HandlerInv, Moves, Kept
<1>5. PICK l \in I!Handler : /\ handler' = [handler EXCEPT ![h] = l] /\ l.by = handler[h].by
                             /\ l.at = "done" /\ l.troubled = (handler[h].troubled \/ reply # "ok")
  BY <1>1, ProceedsTo
<1>6. HandlerInv(l, holds'[h].status, h \in sent')
  BY <1>1, <1>2, <1>4, <1>5 DEF HandlerInv
<1>7. QED
  BY <1>1, <1>2, <1>3, <1>5, <1>6, OneHandler

LEMMA LifeStalls ==
  ASSUME LifeInv, NEW h \in Holds, I!Age(h)
  PROVE  LifeInv'
<1>1. process' = process /\ handler' = handler /\ sent' = sent
  BY DEF I!Age
<1>2. HoldsShaped' /\ \A k \in Holds : holds'[k].status = holds[k].status
  BY HoldAge DEF I!Age, LifeInv
<1>3. HandlersInv' /\ FinalStays /\ HandlersWork
  BY <1>1, <1>2 DEF LifeInv, HandlersInv, FinalStays, HandlersWork
<1>4. QED
  BY <1>1, <1>2, <1>3, ProcessesKept DEF LifeInv

-----------------------------------------------------------------------------
LEMMA InitLife == I!ConstantsOK /\ I!Init => LifeInv
<1>. SUFFICES ASSUME I!ConstantsOK, I!Init PROVE LifeInv
  OBVIOUS
<1> DEFINE left == [status |-> "consumed_unsettled", user |-> User, amount |-> 2,
                    channel |-> Channel, cost |-> 1, stale |-> FALSE]
<1>1. /\ process = [i \in Instances |-> I!Down] /\ sent = Backlog
      /\ handler = [h \in Holds |-> IF h \in Backlog THEN [I!NewHandler EXCEPT !.at = "dead"] ELSE I!NewHandler]
      /\ holds = [h \in Holds |-> IF h \in Backlog THEN left ELSE I!L!AbsentRow]
  BY DEF I!Init, I!LedgerInit
<1>2. DOMAIN left = RowFields /\ DOMAIN I!L!AbsentRow = RowFields
  BY DEF I!L!AbsentRow, RowFields
<1>3. left.status = "consumed_unsettled"
  OBVIOUS
<1>. HIDE DEF left
<1>4. HoldsShaped
  BY <1>1, <1>2 DEF HoldsShaped
<1>5. HandlersInv
  <2>1. /\ I!NewHandler \in I!Handler /\ I!NewHandler.at = "none"
        /\ [I!NewHandler EXCEPT !.at = "dead"] \in I!Handler /\ [I!NewHandler EXCEPT !.at = "dead"].at = "dead"
    BY DEF I!NewHandler, I!Handler
  <2>. HIDE DEF I!NewHandler
  <2>2. handler \in [Holds -> I!Handler]
    BY <1>1, <2>1
  <2>3. ASSUME NEW h \in Holds PROVE HandlerInv(handler[h], holds[h].status, h \in sent)
    BY <1>1, <1>3, <2>1 DEF HandlerInv, Kept
  <2>4. QED
    BY <1>1, <2>2, <2>3 DEF HandlersInv, I!ConstantsOK
<1>6. ProcessesInv
  <2>1. I!Down = [I!Down EXCEPT !.at = "down"]
    BY DEF I!Down
  <2>2. \A i \in Instances : ProcessInv(i, I!Down)
    BY <2>1, DownIsFine
  <2>. HIDE DEF I!Down
  <2>3. QED
    BY <1>1, <2>2 DEF ProcessesInv
<1>7. QED
  BY <1>4, <1>5, <1>6 DEF LifeInv

LEMMA NextLife == LifeInv /\ [I!Next]_(I!vars) => LifeInv'
<1>. SUFFICES ASSUME LifeInv, [I!Next]_(I!vars) PROVE LifeInv'
  OBVIOUS
<1>1. ASSUME NEW i \in Instances,
             \/ I!Boot(i) \/ I!StartEnds(i) \/ I!Signal(i) \/ I!Drained(i) \/ I!Overdue(i) \/ I!Exit(i) \/ I!Crash(i)
             \/ \E reply \in I!L!Replies : \/ I!List(i, reply)
                                           \/ \E h \in Holds : I!Recover(i, h, reply) \/ I!Accept(i, h, reply)
      PROVE  LifeInv'
  BY <1>1, LifeBoot, LifeStartEnds, LifeSignal, LifeDrained, LifeOverdue, LifeExit, LifeDeath,
     LifeList, LifeRecover, LifeAccept
<1>2. ASSUME NEW h \in Holds,
             \/ I!GiveUp(h) \/ I!Send(h) \/ I!Age(h)
             \/ \E reply \in I!L!Replies : I!Step(h, reply)
      PROVE  LifeInv'
  BY <1>2, LifeAlone, LifeStalls, LifeMark, LifeRelease, LifeRecord, LifeFinish DEF I!Step
<1>3. CASE UNCHANGED I!vars
  <2>1. holds' = holds /\ handler' = handler /\ sent' = sent /\ process' = process
    BY <1>3 DEF I!vars, I!database
  <2>2. QED
    BY <2>1 DEF LifeInv, HoldsShaped, HandlersInv, ProcessesInv, ProcessInv
<1>4. QED
  BY <1>1, <1>2, <1>3 DEF I!Next

\* The three properties of the instances, from the invariant.
LEMMA LifeIsSound == LifeInv => InstancesSound
<1>. SUFFICES ASSUME LifeInv PROVE InstancesSound
  OBVIOUS
<1>1. I!SentIsNotRefunded
  BY DEF LifeInv, HandlersInv, HandlerInv, Kept, I!SentIsNotRefunded
<1>2. I!CleanStop
  <2>. SUFFICES ASSUME NEW i \in Instances, process[i].at = "closing", process[i].clean,
                       NEW h \in Holds, handler[h].by = i, handler[h].at # "dead", ~handler[h].troubled
                PROVE  \/ holds[h].status \in {"settled", "refunded"}
                       \/ holds[h].status = "in_flight" /\ h \in sent
    BY DEF I!CleanStop, I!OwnHandlers
  <2>1. handler[h].at = "done"
    BY ProcessKnown DEF ProcessInv
  <2>2. QED
    BY <2>1, HandlerKnown DEF HandlerInv, Final
<1>3. I!RecoveredBeforeServing
  BY ProcessKnown DEF I!RecoveredBeforeServing, ProcessInv, Final
<1>4. QED
  BY <1>1, <1>2, <1>3 DEF InstancesSound, I!InstancesSound

\* Whatever order instances start, recover, stop and die in, a hold whose request may have reached
\* the model is not given back, an orderly stop leaves nothing half done, and an instance serves
\* only once what its start found is finished (startBillingRecovery, Shutdown, Recover).
THEOREM InstancesAreSound ==
  ASSUME I!ConstantsOK
  PROVE  I!Spec => []InstancesSound
BY InitLife, NextLife, LifeIsSound, PTL DEF I!Spec

-----------------------------------------------------------------------------
(* The whole.                                                              *)

\* Every step of the composition is a step of one part, or of none.
LEMMA PartsStep ==
  ASSUME [ServiceNext]_allVars
  PROVE  [Next]_vars /\ [I!Next]_(I!vars)
<1>1. CASE Next /\ Requesting
  BY <1>1 DEF Requesting, lifeVars, I!vars, I!database
<1>2. CASE I!Next /\ Living
  BY <1>2 DEF Living
<1>3. CASE UNCHANGED allVars
  BY <1>3 DEF allVars, lifeVars, I!vars, I!database
<1>4. QED
  BY <1>1, <1>2, <1>3 DEF ServiceNext

\* In the service as composed requests are served, charged and answered as promised.
THEOREM ServiceRequests ==
  ServiceSpec => [](NoFreeGeneration /\ OneGeneration /\ ChargedForService /\ HonestAnswers)
<1>1. ServiceInit => GatewayInv
  <2>. SUFFICES ASSUME ServiceInit PROVE GatewayInv
    OBVIOUS
  <2>1. CASE part = "request"
    <3>1. request = [q \in Requests |-> NewRequest]
      BY <2>1 DEF ServiceInit
    <3>2. QED
      BY <3>1, InitGateway DEF ServiceInit
  <2>2. CASE part = "instances"
    <3>1. request = [q \in Requests |-> [NewRequest EXCEPT !.at = "done"]]
      BY <2>2 DEF ServiceInit
    <3>2. QED
      BY <3>1, InitGateway DEF ServiceInit
  <2>3. QED
    BY <2>1, <2>2 DEF ServiceInit
<1>2. GatewayInv => NoFreeGeneration /\ OneGeneration /\ ChargedForService /\ HonestAnswers
  BY GatewayIsHonest
<1>3. QED
  BY <1>1, <1>2, PartsStep, NextGateway, PTL DEF ServiceSpec

\* And its instances come and go as promised.
THEOREM ServiceInstances ==
  ASSUME I!ConstantsOK
  PROVE  ServiceSpec => []InstancesSound
<1>1. ServiceInit => I!Init
  BY DEF ServiceInit
<1>2. QED
  BY <1>1, PartsStep, InitLife, NextLife, LifeIsSound, PTL DEF ServiceSpec

-----------------------------------------------------------------------------
(* Types of the ledger.                                                    *)

\* The tables of a ledger over users us, reservations ids and channels chs, as values: typed, and a row
\* that is placed belongs to a user and costs no more than was withheld.
RowType(us, chs)   == [status : L!Statuses, user : us \cup {NoUser}, amount : Int,
                       channel : chs \cup {NoChannel}, cost : Int, stale : BOOLEAN]
EntryType(us, ids) == [id : ids, kind : L!Kinds, user : us, amount : Int, after : Int, version : Nat]

RowOK(x, us, chs) ==
  /\ x \in RowType(us, chs)
  /\ x.status # "absent" => x.user \in us /\ x.amount > 0 /\ x.cost \in 0 .. x.amount

TablesOK(us, ids, chs, x, es, ul) ==
  /\ DOMAIN x = ids /\ x = [r \in ids |-> x[r]] /\ \A r \in ids : RowOK(x[r], us, chs)
  /\ es \subseteq EntryType(us, ids)
  /\ ul \subseteq [id : ids, cost : Int]

AccountsOK(us, b, v) == b \in [us -> Int] /\ v \in [us -> Nat]

\* What the transactions write into a row that is placed.
LEMMA RowWrites ==
  ASSUME NEW us, NEW chs, NEW x, RowOK(x, us, chs), x.status # "absent", NEW s \in L!Statuses
  PROVE  /\ RowOK([x EXCEPT !.status = s, !.stale = FALSE], us, chs)
         /\ \A ch \in chs \cup {NoChannel} :
              RowOK([x EXCEPT !.status = s, !.channel = ch, !.stale = FALSE], us, chs)
         /\ \A c \in 0 .. x.amount : RowOK([x EXCEPT !.status = s, !.cost = c, !.stale = FALSE], us, chs)
         /\ RowOK([x EXCEPT !.stale = TRUE], us, chs)
<1>. USE DEF RowOK, RowType
<1>1. RowOK([x EXCEPT !.status = s, !.stale = FALSE], us, chs)
  OBVIOUS
<1>2. ASSUME NEW ch \in chs \cup {NoChannel}
      PROVE  RowOK([x EXCEPT !.status = s, !.channel = ch, !.stale = FALSE], us, chs)
  OBVIOUS
<1>3. ASSUME NEW c \in 0 .. x.amount
      PROVE  RowOK([x EXCEPT !.status = s, !.cost = c, !.stale = FALSE], us, chs)
  <2> DEFINE y == [x EXCEPT !.status = s, !.cost = c, !.stale = FALSE]
  <2>1. x.amount \in Int /\ c \in Int
    OBVIOUS
  <2>2. y \in RowType(us, chs)
    BY <2>1
  <2>3. y.user = x.user /\ y.amount = x.amount /\ y.cost = c
    OBVIOUS
  <2>. HIDE DEF y
  <2>4. RowOK(y, us, chs)
    BY <2>2, <2>3
  <2>5. QED
    BY <2>4 DEF y
<1>4. RowOK([x EXCEPT !.stale = TRUE], us, chs)
  OBVIOUS
<1>5. QED
  BY <1>1, <1>2, <1>3, <1>4

\* A row that is placed.
LEMMA RowPlaced ==
  ASSUME NEW us, NEW chs, NEW u \in us, NEW a \in Int, a > 0
  PROVE  RowOK([L!AbsentRow EXCEPT !.status = "reserved", !.user = u, !.amount = a], us, chs)
<1>1. PICK x : x = L!AbsentRow
  OBVIOUS
<1>2. x \in RowType(us, chs) /\ x.cost = 0
  BY <1>1 DEF L!AbsentRow, RowType, L!Statuses
<1> DEFINE y == [x EXCEPT !.status = "reserved", !.user = u, !.amount = a]
<1>3. y \in RowType(us, chs) /\ y.user = u /\ y.amount = a /\ y.cost = 0
  BY <1>2 DEF RowType, L!Statuses
<1>. HIDE DEF y
<1>4. RowOK(y, us, chs)
  BY <1>3 DEF RowOK
<1>5. QED
  BY <1>1, <1>4 DEF y

\* What a posting makes of an account, and what it adds to the journal.
LEMMA Posts ==
  ASSUME NEW us, NEW ids, NEW b, NEW v, AccountsOK(us, b, v), NEW r \in ids, NEW kind \in L!Kinds,
         NEW u \in us, NEW d \in Int
  PROVE  /\ AccountsOK(us, [b EXCEPT ![u] = @ + d], [v EXCEPT ![u] = @ + 1])
         /\ [id |-> r, kind |-> kind, user |-> u, amount |-> d, after |-> b[u] + d, version |-> v[u] + 1]
              \in EntryType(us, ids)
<1>1. b[u] + d \in Int /\ v[u] + 1 \in Nat
  BY DEF AccountsOK
<1>2. QED
  BY <1>1 DEF AccountsOK, EntryType

\* One row is written, and perhaps an entry and a log.
LEMMA TablesWritten ==
  ASSUME NEW us, NEW ids, NEW chs, NEW x, NEW es, NEW ul, TablesOK(us, ids, chs, x, es, ul),
         NEW r \in ids, NEW y, RowOK(y, us, chs),
         NEW fs \in SUBSET EntryType(us, ids), NEW ms \in SUBSET [id : ids, cost : Int]
  PROVE  TablesOK(us, ids, chs, [x EXCEPT ![r] = y], es \cup fs, ul \cup ms)
<1> DEFINE z == [x EXCEPT ![r] = y]
<1>1. DOMAIN z = ids /\ z = [p \in ids |-> z[p]] /\ z[r] = y /\ \A p \in ids \ {r} : z[p] = x[p]
  BY DEF TablesOK
<1>. HIDE DEF z
<1>2. \A p \in ids : RowOK(z[p], us, chs)
  BY <1>1 DEF TablesOK
<1>3. TablesOK(us, ids, chs, z, es \cup fs, ul \cup ms)
  BY <1>1, <1>2 DEF TablesOK
<1>4. QED
  BY <1>3 DEF z

\* The tables of the ledger of the requests have their types.
Books ==
  /\ TablesOK(Users, Requests, Channels, row, entries, usage)
  /\ AccountsOK(Users, balance, version)
  /\ enabled \in [Users -> BOOLEAN] /\ deposited \in [Users -> Int]

LEMMA BooksRow ==
  ASSUME Books, NEW r \in Requests
  PROVE  /\ DOMAIN row = Requests /\ RowOK(row[r], Users, Channels)
         /\ row[r].status # "absent" => row[r].user \in Users /\ row[r].amount \in Int /\ row[r].cost \in Int
BY DEF Books, TablesOK, RowOK, RowType

LEMMA BooksWritten ==
  ASSUME Books, NEW r \in Requests, NEW y, RowOK(y, Users, Channels), row' = [row EXCEPT ![r] = y],
         NEW fs \in SUBSET EntryType(Users, Requests), entries' = entries \cup fs,
         NEW ms \in SUBSET [id : Requests, cost : Int], usage' = usage \cup ms,
         AccountsOK(Users, balance', version'), enabled' = enabled, deposited' = deposited
  PROVE  Books'
<1>1. TablesOK(Users, Requests, Channels, row', entries', usage')
  BY TablesWritten DEF Books
<1>2. QED
  BY <1>1 DEF Books

\* A row alone is written.
LEMMA BooksOnlyRow ==
  ASSUME Books, NEW r \in Requests, NEW y, RowOK(y, Users, Channels), row' = [row EXCEPT ![r] = y],
         UNCHANGED <<balance, version, enabled, entries, usage, deposited>>
  PROVE  Books'
<1>1. entries' = entries \cup {} /\ usage' = usage \cup {}
  OBVIOUS
<1>2. AccountsOK(Users, balance', version')
  BY DEF Books
<1>3. QED
  BY <1>1, <1>2, BooksWritten

\* A row is written and its account posted.
LEMMA BooksPosted ==
  ASSUME Books, NEW r \in Requests, NEW y, RowOK(y, Users, Channels), row' = [row EXCEPT ![r] = y],
         NEW kind \in L!Kinds, NEW u \in Users, NEW d \in Int, L!Post(r, kind, u, d),
         NEW ms \in SUBSET [id : Requests, cost : Int], usage' = usage \cup ms,
         enabled' = enabled, deposited' = deposited
  PROVE  Books'
<1> DEFINE e == [id |-> r, kind |-> kind, user |-> u, amount |-> d,
                 after |-> balance[u] + d, version |-> version[u] + 1]
<1>1. /\ balance' = [balance EXCEPT ![u] = @ + d] /\ version' = [version EXCEPT ![u] = @ + 1]
      /\ entries' = entries \cup {e}
  BY DEF L!Post
<1>2. AccountsOK(Users, balance', version') /\ e \in EntryType(Users, Requests)
  BY <1>1, Posts DEF Books, L!Kinds, L!Kinds
<1>. HIDE DEF e
<1>3. {e} \in SUBSET EntryType(Users, Requests)
  BY <1>2
<1>4. QED
  BY <1>1, <1>2, <1>3, BooksWritten

LEMMA BooksKept == ASSUME Books, UNCHANGED L!vars PROVE Books'
BY DEF Books, L!vars

LEMMA BooksReserve ==
  ASSUME Books, NEW r \in Requests, NEW u \in Users, NEW a \in Int, NEW reply, L!Reserve(r, u, a, reply)
  PROVE  Books'
<1>1. CASE L!CommitReserve(r, u, a)
  <2> DEFINE y == [L!AbsentRow EXCEPT !.status = "reserved", !.user = u, !.amount = a]
  <2>1. /\ a > 0 /\ row' = [row EXCEPT ![r] = y] /\ L!Post(r, "reserve", u, -a)
        /\ usage' = usage \cup {} /\ enabled' = enabled /\ deposited' = deposited
    BY <1>1 DEF L!CommitReserve, L!CanDebit
  <2>2. RowOK(y, Users, Channels)
    BY <2>1, RowPlaced
  <2>. HIDE DEF y
  <2>3. "reserve" \in L!Kinds /\ -a \in Int
    BY DEF L!Kinds
  <2>4. QED
    BY <2>1, <2>2, <2>3, BooksPosted
<1>2. CASE ~L!CommitReserve(r, u, a)
  BY <1>2, BooksKept DEF L!Reserve, L!NoCommit
<1>3. QED
  BY <1>1, <1>2

LEMMA BooksMark ==
  ASSUME Books, NEW r \in Requests, NEW ch \in Channels \cup {NoChannel}, NEW reply, L!MarkInFlight(r, ch, reply)
  PROVE  Books'
<1>1. CASE L!CommitMark(r, ch)
  <2> DEFINE y == [row[r] EXCEPT !.status = "in_flight", !.channel = ch, !.stale = FALSE]
  <2>1. /\ row[r].status = "reserved" /\ row' = [row EXCEPT ![r] = y]
        /\ UNCHANGED <<balance, version, enabled, entries, usage, deposited>>
    BY <1>1, BooksRow DEF L!CommitMark
  <2>2. RowOK(y, Users, Channels)
    BY <2>1, BooksRow, RowWrites DEF L!Statuses
  <2>. HIDE DEF y
  <2>3. QED
    BY <2>1, <2>2, BooksOnlyRow
<1>2. CASE ~L!CommitMark(r, ch)
  BY <1>2, BooksKept DEF L!MarkInFlight, L!NoCommit
<1>3. QED
  BY <1>1, <1>2

LEMMA BooksRelease ==
  ASSUME Books, NEW r \in Requests, NEW reply, L!ReleaseAttempt(r, reply)
  PROVE  Books'
<1>1. CASE L!CommitRelease(r)
  <2> DEFINE y == [row[r] EXCEPT !.status = "reserved", !.stale = FALSE]
  <2>1. /\ row[r].status = "in_flight" /\ row' = [row EXCEPT ![r] = y]
        /\ UNCHANGED <<balance, version, enabled, entries, usage, deposited>>
    BY <1>1, BooksRow DEF L!CommitRelease
  <2>2. RowOK(y, Users, Channels)
    BY <2>1, BooksRow, RowWrites DEF L!Statuses
  <2>. HIDE DEF y
  <2>3. QED
    BY <2>1, <2>2, BooksOnlyRow
<1>2. CASE ~L!CommitRelease(r)
  BY <1>2, BooksKept DEF L!ReleaseAttempt, L!NoCommit
<1>3. QED
  BY <1>1, <1>2

LEMMA BooksRecord ==
  ASSUME Books, NEW r \in Requests, NEW ch, NEW c, NEW reply, L!RecordConsumption(r, ch, c, reply)
  PROVE  Books'
<1>1. CASE L!CommitConsumption(r, ch, c)
  <2> DEFINE y == [row[r] EXCEPT !.status = "consumed_unsettled", !.cost = c, !.stale = FALSE]
  <2>1. /\ row[r].status = "in_flight" /\ c \in 0 .. row[r].amount /\ row' = [row EXCEPT ![r] = y]
        /\ UNCHANGED <<balance, version, enabled, entries, usage, deposited>>
    BY <1>1, BooksRow DEF L!CommitConsumption
  <2>2. RowOK(y, Users, Channels)
    BY <2>1, BooksRow, RowWrites DEF L!Statuses
  <2>. HIDE DEF y
  <2>3. QED
    BY <2>1, <2>2, BooksOnlyRow
<1>2. CASE ~L!CommitConsumption(r, ch, c)
  BY <1>2, BooksKept DEF L!RecordConsumption, L!NoCommit
<1>3. QED
  BY <1>1, <1>2

LEMMA BooksFinalize ==
  ASSUME Books, NEW r \in Requests, NEW reply, L!Finalize(r, reply)
  PROVE  Books'
<1>1. CASE L!CommitFinalize(r)
  <2> DEFINE y  == [row[r] EXCEPT !.status = "settled", !.stale = FALSE]
             u  == row[r].user
             d  == row[r].amount - row[r].cost
             ms == {[id |-> r, cost |-> row[r].cost]}
  <2>1. /\ row[r].status = "consumed_unsettled" /\ row' = [row EXCEPT ![r] = y]
        /\ L!Post(r, "settle", u, d) /\ usage' = usage \cup ms
        /\ enabled' = enabled /\ deposited' = deposited
    BY <1>1, BooksRow DEF L!CommitFinalize
  <2>2. RowOK(y, Users, Channels)
    BY <2>1, BooksRow, RowWrites DEF L!Statuses
  <2>3. u \in Users /\ d \in Int /\ ms \in SUBSET [id : Requests, cost : Int] /\ "settle" \in L!Kinds
    BY <2>1, BooksRow DEF L!Kinds
  <2>. HIDE DEF y, u, d, ms
  <2>4. QED
    BY <2>1, <2>2, <2>3, BooksPosted
<1>2. CASE ~L!CommitFinalize(r)
  BY <1>2, BooksKept DEF L!Finalize, L!NoCommit
<1>3. QED
  BY <1>1, <1>2

LEMMA BooksRefund ==
  ASSUME Books, NEW r \in Requests, NEW reply, L!Refund(r, reply)
  PROVE  Books'
<1>1. CASE L!CommitRefund(r)
  <2> DEFINE y == [row[r] EXCEPT !.status = "refunded", !.stale = FALSE]
             u == row[r].user
             d == row[r].amount
  <2>1. /\ row[r].status = "reserved" /\ row' = [row EXCEPT ![r] = y]
        /\ L!Post(r, "refund", u, d) /\ usage' = usage \cup {}
        /\ enabled' = enabled /\ deposited' = deposited
    BY <1>1, BooksRow DEF L!CommitRefund
  <2>2. RowOK(y, Users, Channels)
    BY <2>1, BooksRow, RowWrites DEF L!Statuses
  <2>3. u \in Users /\ d \in Int /\ "refund" \in L!Kinds
    BY <2>1, BooksRow DEF L!Kinds
  <2>. HIDE DEF y, u, d
  <2>4. QED
    BY <2>1, <2>2, <2>3, BooksPosted
<1>2. CASE ~L!CommitRefund(r)
  BY <1>2, BooksKept DEF L!Refund, L!NoCommit
<1>3. QED
  BY <1>1, <1>2

LEMMA BooksStale ==
  ASSUME Books, NEW r \in Requests, L!GrowStale(r)
  PROVE  Books'
<1> DEFINE y == [row[r] EXCEPT !.stale = TRUE]
<1>1. /\ row[r].status # "absent" /\ row' = [row EXCEPT ![r] = y]
      /\ UNCHANGED <<balance, version, enabled, entries, usage, deposited>>
  BY BooksRow DEF L!GrowStale
<1>2. RowOK(y, Users, Channels)
  BY <1>1, BooksRow, RowWrites DEF L!Statuses
<1>. HIDE DEF y
<1>3. QED
  BY <1>1, <1>2, BooksOnlyRow

LEMMA BooksTyped == Books => L!TypeOK
<1>. SUFFICES ASSUME Books PROVE L!TypeOK
  OBVIOUS
<1>1. row \in [Requests -> L!Row]
  BY DEF Books, TablesOK, RowOK, RowType, L!Row, L!Statuses, L!Statuses
<1>2. entries \subseteq L!Entry /\ usage \subseteq L!UsageLog
  BY DEF Books, TablesOK, EntryType, L!Entry, L!UsageLog, L!Kinds, L!Kinds
<1>3. QED
  BY <1>1, <1>2 DEF Books, AccountsOK, L!TypeOK

\* The tables of the ledger of the instances have their types.
Holdings ==
  /\ TablesOK({User}, Holds, {Channel}, holds, ledger, logs)
  /\ AccountsOK({User}, accounts, versions)
  /\ allowed \in [{User} -> BOOLEAN] /\ deposits \in [{User} -> Int]

LEMMA HoldingsRow ==
  ASSUME Holdings, NEW r \in Holds
  PROVE  /\ DOMAIN holds = Holds /\ RowOK(holds[r], {User}, {Channel})
         /\ holds[r].status # "absent" => holds[r].user \in {User} /\ holds[r].amount \in Int /\ holds[r].cost \in Int
BY DEF Holdings, TablesOK, RowOK, RowType

LEMMA HoldingsWritten ==
  ASSUME Holdings, NEW r \in Holds, NEW y, RowOK(y, {User}, {Channel}), holds' = [holds EXCEPT ![r] = y],
         NEW fs \in SUBSET EntryType({User}, Holds), ledger' = ledger \cup fs,
         NEW ms \in SUBSET [id : Holds, cost : Int], logs' = logs \cup ms,
         AccountsOK({User}, accounts', versions'), allowed' = allowed, deposits' = deposits
  PROVE  Holdings'
<1>1. TablesOK({User}, Holds, {Channel}, holds', ledger', logs')
  BY TablesWritten DEF Holdings
<1>2. QED
  BY <1>1 DEF Holdings

\* A row alone is written.
LEMMA HoldingsOnlyRow ==
  ASSUME Holdings, NEW r \in Holds, NEW y, RowOK(y, {User}, {Channel}), holds' = [holds EXCEPT ![r] = y],
         UNCHANGED <<accounts, versions, allowed, ledger, logs, deposits>>
  PROVE  Holdings'
<1>1. ledger' = ledger \cup {} /\ logs' = logs \cup {}
  OBVIOUS
<1>2. AccountsOK({User}, accounts', versions')
  BY DEF Holdings
<1>3. QED
  BY <1>1, <1>2, HoldingsWritten

\* A row is written and its account posted.
LEMMA HoldingsPosted ==
  ASSUME Holdings, NEW r \in Holds, NEW y, RowOK(y, {User}, {Channel}), holds' = [holds EXCEPT ![r] = y],
         NEW kind \in I!L!Kinds, NEW u \in {User}, NEW d \in Int, I!L!Post(r, kind, u, d),
         NEW ms \in SUBSET [id : Holds, cost : Int], logs' = logs \cup ms,
         allowed' = allowed, deposits' = deposits
  PROVE  Holdings'
<1> DEFINE e == [id |-> r, kind |-> kind, user |-> u, amount |-> d,
                 after |-> accounts[u] + d, version |-> versions[u] + 1]
<1>1. /\ accounts' = [accounts EXCEPT ![u] = @ + d] /\ versions' = [versions EXCEPT ![u] = @ + 1]
      /\ ledger' = ledger \cup {e}
  BY DEF I!L!Post
<1>2. AccountsOK({User}, accounts', versions') /\ e \in EntryType({User}, Holds)
  BY <1>1, Posts DEF Holdings, I!L!Kinds, L!Kinds
<1>. HIDE DEF e
<1>3. {e} \in SUBSET EntryType({User}, Holds)
  BY <1>2
<1>4. QED
  BY <1>1, <1>2, <1>3, HoldingsWritten

LEMMA HoldingsKept == ASSUME Holdings, UNCHANGED I!L!vars PROVE Holdings'
BY DEF Holdings, I!L!vars

LEMMA HoldingsReserve ==
  ASSUME Holdings, NEW r \in Holds, NEW u \in {User}, NEW a \in Int, NEW reply, I!L!Reserve(r, u, a, reply)
  PROVE  Holdings'
<1>1. CASE I!L!CommitReserve(r, u, a)
  <2> DEFINE y == [L!AbsentRow EXCEPT !.status = "reserved", !.user = u, !.amount = a]
  <2>1. /\ a > 0 /\ holds' = [holds EXCEPT ![r] = y] /\ I!L!Post(r, "reserve", u, -a)
        /\ logs' = logs \cup {} /\ allowed' = allowed /\ deposits' = deposits
    BY <1>1 DEF I!L!CommitReserve, I!L!CanDebit, I!L!AbsentRow, L!AbsentRow
  <2>2. RowOK(y, {User}, {Channel})
    BY <2>1, RowPlaced
  <2>. HIDE DEF y
  <2>3. "reserve" \in I!L!Kinds /\ -a \in Int
    BY DEF I!L!Kinds
  <2>4. QED
    BY <2>1, <2>2, <2>3, HoldingsPosted
<1>2. CASE ~I!L!CommitReserve(r, u, a)
  BY <1>2, HoldingsKept DEF I!L!Reserve, I!L!NoCommit
<1>3. QED
  BY <1>1, <1>2

LEMMA HoldingsMark ==
  ASSUME Holdings, NEW r \in Holds, NEW ch \in {Channel} \cup {NoChannel}, NEW reply, I!L!MarkInFlight(r, ch, reply)
  PROVE  Holdings'
<1>1. CASE I!L!CommitMark(r, ch)
  <2> DEFINE y == [holds[r] EXCEPT !.status = "in_flight", !.channel = ch, !.stale = FALSE]
  <2>1. /\ holds[r].status = "reserved" /\ holds' = [holds EXCEPT ![r] = y]
        /\ UNCHANGED <<accounts, versions, allowed, ledger, logs, deposits>>
    BY <1>1, HoldingsRow DEF I!L!CommitMark
  <2>2. RowOK(y, {User}, {Channel})
    BY <2>1, HoldingsRow, RowWrites DEF L!Statuses
  <2>. HIDE DEF y
  <2>3. QED
    BY <2>1, <2>2, HoldingsOnlyRow
<1>2. CASE ~I!L!CommitMark(r, ch)
  BY <1>2, HoldingsKept DEF I!L!MarkInFlight, I!L!NoCommit
<1>3. QED
  BY <1>1, <1>2

LEMMA HoldingsRelease ==
  ASSUME Holdings, NEW r \in Holds, NEW reply, I!L!ReleaseAttempt(r, reply)
  PROVE  Holdings'
<1>1. CASE I!L!CommitRelease(r)
  <2> DEFINE y == [holds[r] EXCEPT !.status = "reserved", !.stale = FALSE]
  <2>1. /\ holds[r].status = "in_flight" /\ holds' = [holds EXCEPT ![r] = y]
        /\ UNCHANGED <<accounts, versions, allowed, ledger, logs, deposits>>
    BY <1>1, HoldingsRow DEF I!L!CommitRelease
  <2>2. RowOK(y, {User}, {Channel})
    BY <2>1, HoldingsRow, RowWrites DEF L!Statuses
  <2>. HIDE DEF y
  <2>3. QED
    BY <2>1, <2>2, HoldingsOnlyRow
<1>2. CASE ~I!L!CommitRelease(r)
  BY <1>2, HoldingsKept DEF I!L!ReleaseAttempt, I!L!NoCommit
<1>3. QED
  BY <1>1, <1>2

LEMMA HoldingsRecord ==
  ASSUME Holdings, NEW r \in Holds, NEW ch, NEW c, NEW reply, I!L!RecordConsumption(r, ch, c, reply)
  PROVE  Holdings'
<1>1. CASE I!L!CommitConsumption(r, ch, c)
  <2> DEFINE y == [holds[r] EXCEPT !.status = "consumed_unsettled", !.cost = c, !.stale = FALSE]
  <2>1. /\ holds[r].status = "in_flight" /\ c \in 0 .. holds[r].amount /\ holds' = [holds EXCEPT ![r] = y]
        /\ UNCHANGED <<accounts, versions, allowed, ledger, logs, deposits>>
    BY <1>1, HoldingsRow DEF I!L!CommitConsumption
  <2>2. RowOK(y, {User}, {Channel})
    BY <2>1, HoldingsRow, RowWrites DEF L!Statuses
  <2>. HIDE DEF y
  <2>3. QED
    BY <2>1, <2>2, HoldingsOnlyRow
<1>2. CASE ~I!L!CommitConsumption(r, ch, c)
  BY <1>2, HoldingsKept DEF I!L!RecordConsumption, I!L!NoCommit
<1>3. QED
  BY <1>1, <1>2

LEMMA HoldingsFinalize ==
  ASSUME Holdings, NEW r \in Holds, NEW reply, I!L!Finalize(r, reply)
  PROVE  Holdings'
<1>1. CASE I!L!CommitFinalize(r)
  <2> DEFINE y  == [holds[r] EXCEPT !.status = "settled", !.stale = FALSE]
             u  == holds[r].user
             d  == holds[r].amount - holds[r].cost
             ms == {[id |-> r, cost |-> holds[r].cost]}
  <2>1. /\ holds[r].status = "consumed_unsettled" /\ holds' = [holds EXCEPT ![r] = y]
        /\ I!L!Post(r, "settle", u, d) /\ logs' = logs \cup ms
        /\ allowed' = allowed /\ deposits' = deposits
    BY <1>1, HoldingsRow DEF I!L!CommitFinalize
  <2>2. RowOK(y, {User}, {Channel})
    BY <2>1, HoldingsRow, RowWrites DEF L!Statuses
  <2>3. u \in {User} /\ d \in Int /\ ms \in SUBSET [id : Holds, cost : Int] /\ "settle" \in I!L!Kinds
    BY <2>1, HoldingsRow DEF I!L!Kinds
  <2>. HIDE DEF y, u, d, ms
  <2>4. QED
    BY <2>1, <2>2, <2>3, HoldingsPosted
<1>2. CASE ~I!L!CommitFinalize(r)
  BY <1>2, HoldingsKept DEF I!L!Finalize, I!L!NoCommit
<1>3. QED
  BY <1>1, <1>2

LEMMA HoldingsRefund ==
  ASSUME Holdings, NEW r \in Holds, NEW reply, I!L!Refund(r, reply)
  PROVE  Holdings'
<1>1. CASE I!L!CommitRefund(r)
  <2> DEFINE y == [holds[r] EXCEPT !.status = "refunded", !.stale = FALSE]
             u == holds[r].user
             d == holds[r].amount
  <2>1. /\ holds[r].status = "reserved" /\ holds' = [holds EXCEPT ![r] = y]
        /\ I!L!Post(r, "refund", u, d) /\ logs' = logs \cup {}
        /\ allowed' = allowed /\ deposits' = deposits
    BY <1>1, HoldingsRow DEF I!L!CommitRefund
  <2>2. RowOK(y, {User}, {Channel})
    BY <2>1, HoldingsRow, RowWrites DEF L!Statuses
  <2>3. u \in {User} /\ d \in Int /\ "refund" \in I!L!Kinds
    BY <2>1, HoldingsRow DEF I!L!Kinds
  <2>. HIDE DEF y, u, d
  <2>4. QED
    BY <2>1, <2>2, <2>3, HoldingsPosted
<1>2. CASE ~I!L!CommitRefund(r)
  BY <1>2, HoldingsKept DEF I!L!Refund, I!L!NoCommit
<1>3. QED
  BY <1>1, <1>2

LEMMA HoldingsStale ==
  ASSUME Holdings, NEW r \in Holds, I!L!GrowStale(r)
  PROVE  Holdings'
<1> DEFINE y == [holds[r] EXCEPT !.stale = TRUE]
<1>1. /\ holds[r].status # "absent" /\ holds' = [holds EXCEPT ![r] = y]
      /\ UNCHANGED <<accounts, versions, allowed, ledger, logs, deposits>>
  BY HoldingsRow DEF I!L!GrowStale
<1>2. RowOK(y, {User}, {Channel})
  BY <1>1, HoldingsRow, RowWrites DEF L!Statuses
<1>. HIDE DEF y
<1>3. QED
  BY <1>1, <1>2, HoldingsOnlyRow

LEMMA HoldingsTyped == Holdings => I!L!TypeOK
<1>. SUFFICES ASSUME Holdings PROVE I!L!TypeOK
  OBVIOUS
<1>1. holds \in [Holds -> I!L!Row]
  BY DEF Holdings, TablesOK, RowOK, RowType, I!L!Row, I!L!Statuses, L!Statuses
<1>2. ledger \subseteq I!L!Entry /\ logs \subseteq I!L!UsageLog
  BY DEF Holdings, TablesOK, EntryType, I!L!Entry, I!L!UsageLog, I!L!Kinds, L!Kinds
<1>3. QED
  BY <1>1, <1>2 DEF Holdings, AccountsOK, I!L!TypeOK

-----------------------------------------------------------------------------
(* Types of the requests.                                                  *)

\* The locals of a request have their types where the code relies on them: the user it reserves
\* for, the channel of an attempt, and the judgement of one that is over.
LocalOK(l) ==
  /\ l \in Request
  /\ l.at = "reserve" => l.user \in Users
  /\ l.at \in Holding => l.channel \in Channels
  /\ l.at \in Judged => l.outcome.kind \in Kinds

LocalsOK == DOMAIN request = Requests /\ request = [q \in Requests |-> request[q]]
            /\ \A q \in Requests : LocalOK(request[q])

LEMMA LocalKnown ==
  ASSUME LocalsOK, NEW q \in Requests
  PROVE  LocalOK(request[q]) /\ request[q] \in Request /\ DOMAIN request = Requests
BY DEF LocalsOK, LocalOK

LEMMA LocalsWritten ==
  ASSUME LocalsOK, NEW q \in Requests, NEW l, LocalOK(l), Becomes(q, l)
  PROVE  LocalsOK'
<1> DEFINE z == [request EXCEPT ![q] = l]
<1>1. DOMAIN z = Requests /\ z = [p \in Requests |-> z[p]] /\ z[q] = l /\ \A p \in Requests \ {q} : z[p] = request[p]
  BY DEF LocalsOK
<1>2. request' = z
  BY DEF Becomes
<1>. HIDE DEF z
<1>3. \A p \in Requests : LocalOK(z[p])
  BY <1>1 DEF LocalsOK
<1>4. QED
  BY <1>1, <1>2, <1>3 DEF LocalsOK, LocalOK

\* What the steps write into the locals.
LEMMA WritesAt ==
  ASSUME NEW l \in Request, NEW place \in Places, NEW answer \in Answers
  PROVE  /\ [l EXCEPT !.at = place] \in Request
         /\ [l EXCEPT !.at = place, !.answer = answer] \in Request
BY DEF Request

LEMMA WritesOutcome ==
  ASSUME NEW l \in Request, NEW place \in Places, NEW answer \in Answers, NEW o \in Outcome, NEW k \in BOOLEAN
  PROVE  /\ [l EXCEPT !.at = place, !.outcome = o] \in Request
         /\ [l EXCEPT !.at = place, !.answer = answer, !.outcome = o] \in Request
         /\ [l EXCEPT !.at = place, !.kept = k, !.outcome = o] \in Request
<1>1. [l EXCEPT !.at = place, !.outcome = o] \in Request
  BY DEF Request
<1>2. [l EXCEPT !.at = place, !.answer = answer, !.outcome = o] \in Request
  BY DEF Request
<1>3. [l EXCEPT !.at = place, !.kept = k, !.outcome = o] \in Request
  BY DEF Request
<1>4. QED
  BY <1>1, <1>2, <1>3

LEMMA WritesSettlement ==
  ASSUME NEW l \in Request, NEW place \in Places, NEW answer \in Answers, NEW o \in Outcome,
         NEW c \in Nat, NEW n \in Nat
  PROVE  /\ [l EXCEPT !.at = place, !.cost = c, !.tries = n, !.answer = answer, !.outcome = o] \in Request
         /\ [l EXCEPT !.tries = n] \in Request
<1>1. [l EXCEPT !.at = place, !.cost = c, !.tries = n, !.answer = answer, !.outcome = o] \in Request
  BY DEF Request
<1>2. [l EXCEPT !.tries = n] \in Request
  BY DEF Request
<1>3. QED
  BY <1>1, <1>2

LEMMA WritesSelection ==
  ASSUME NEW l \in Request, NEW place \in Places, NEW u \in Users, NEW a \in Nat, NEW s \in BOOLEAN,
         NEW order \in Seq(Channels), NEW ch \in Channels, NEW g \in Nat
  PROVE  /\ [l EXCEPT !.at = place, !.user = u, !.amount = a, !.stream = s, !.candidates = order] \in Request
         /\ [l EXCEPT !.candidates = order] \in Request
         /\ [l EXCEPT !.at = place, !.candidates = order, !.channel = ch, !.generation = g] \in Request
<1>1. [l EXCEPT !.at = place, !.user = u, !.amount = a, !.stream = s, !.candidates = order] \in Request
  BY DEF Request
<1>2. [l EXCEPT !.candidates = order] \in Request
  BY DEF Request
<1>3. [l EXCEPT !.at = place, !.candidates = order, !.channel = ch, !.generation = g] \in Request
  BY DEF Request
<1>4. QED
  BY <1>1, <1>2, <1>3

LEMMA WritesFlags ==
  ASSUME NEW l \in Request, NEW place \in Places, NEW answer \in Answers, NEW c \in BOOLEAN, NEW s \in BOOLEAN
  PROVE  /\ [l EXCEPT !.at = place, !.consumed = c, !.settled = s, !.answer = answer] \in Request
         /\ [l EXCEPT !.at = place, !.answer = answer, !.consumed = c, !.settled = s] \in Request
<1>1. [l EXCEPT !.at = place, !.consumed = c, !.settled = s, !.answer = answer] \in Request
  BY DEF Request
<1>2. [l EXCEPT !.at = place, !.answer = answer, !.consumed = c, !.settled = s] \in Request
  BY DEF Request
<1>3. QED
  BY <1>1, <1>2

LEMMA OutcomeTyped ==
  ASSUME NEW kind \in Kinds, NEW spent \in BOOLEAN, NEW paid \in BOOLEAN, NEW committed \in BOOLEAN
  PROVE  [kind |-> kind, spent |-> spent, paid |-> paid, committed |-> committed] \in Outcome
BY DEF Kinds, Outcome

LEMMA NewTyped ==
  ASSUME NEW place \in Places
  PROVE  NewRequest \in Request /\ [NewRequest EXCEPT !.at = place] \in Request
<1>1. NoOutcome \in Outcome
  BY DEF NoOutcome, Outcome
<1>2. <<>> \in Seq(Channels)
  OBVIOUS
<1>. HIDE DEF NoOutcome
<1>3. NewRequest \in Request
  BY <1>1, <1>2 DEF NewRequest, Request, Places, Answers
<1>4. [NewRequest EXCEPT !.at = place] \in Request
  BY <1>3, WritesAt DEF Answers
<1>5. QED
  BY <1>3, <1>4

\* GoTo, Ends and Returns.
LEMMA TypedGoTo ==
  ASSUME LocalsOK, NEW q \in Requests, NEW place \in Places, GoTo(q, place),
         place # "reserve", place \in Holding => request[q].at \in Holding,
         place \in Judged => request[q].at \in Judged
  PROVE  LocalsOK'
<1> DEFINE l == [request[q] EXCEPT !.at = place]
<1>1. l \in Request
  BY LocalKnown, WritesAt DEF Answers
<1>2. /\ l.at = place /\ l.channel = request[q].channel /\ l.outcome = request[q].outcome
  BY LocalKnown DEF Request
<1>3. Becomes(q, l)
  BY DEF GoTo
<1>. HIDE DEF l
<1>4. LocalOK(l)
  BY <1>1, <1>2, LocalKnown DEF LocalOK
<1>5. QED
  BY <1>3, <1>4, LocalsWritten

LEMMA TypedEnds ==
  ASSUME LocalsOK, NEW q \in Requests, NEW answer \in Answers, Ends(q, answer)
  PROVE  LocalsOK'
<1>1. PICK n : n = NewRequest
  OBVIOUS
<1>2. n \in Request
  BY <1>1, NewTyped DEF Places
<1> DEFINE l == [n EXCEPT !.at = "done", !.answer = answer, !.consumed = request[q].consumed,
                          !.settled = request[q].settled]
<1>3. request[q].consumed \in BOOLEAN /\ request[q].settled \in BOOLEAN
  BY LocalKnown, Zenon DEF Request
<1>4. l \in Request
  BY <1>2, <1>3, WritesFlags DEF Places
<1>5. l.at = "done"
  BY <1>2 DEF Request
<1>6. Becomes(q, l)
  BY <1>1 DEF Ends
<1>. HIDE DEF l
<1>7. LocalOK(l)
  BY <1>4, <1>5 DEF LocalOK, Holding, Judged, Attempting
<1>8. QED
  BY <1>6, <1>7, LocalsWritten

LEMMA TypedReturns ==
  ASSUME LocalsOK, NEW q \in Requests, request[q].at \in Holding,
         NEW kind \in Kinds, NEW spent \in BOOLEAN, NEW committed \in BOOLEAN, Returns(q, kind, spent, committed)
  PROVE  LocalsOK'
<1> DEFINE o == [kind |-> kind, spent |-> spent, paid |-> FALSE, committed |-> committed]
<1>1. o \in Outcome /\ o.kind = kind
  BY OutcomeTyped
<1>2. Becomes(q, [request[q] EXCEPT !.at = "verdict", !.outcome = o])
  BY DEF Returns
<1>. HIDE DEF o
<1> DEFINE l == [request[q] EXCEPT !.at = "verdict", !.outcome = o]
<1>3. l \in Request
  BY <1>1, LocalKnown, WritesOutcome DEF Places, Answers
<1>4. l.at = "verdict" /\ l.channel = request[q].channel /\ l.outcome = o
  BY LocalKnown DEF Request
<1>5. LocalOK(l)
  BY <1>1, <1>3, <1>4, LocalKnown DEF LocalOK
<1>6. QED
  BY <1>2, <1>5, LocalsWritten

-----------------------------------------------------------------------------
(* The types of Gateway.                                                   *)

Surroundings ==
  /\ breaker \in [Channels -> B!BreakerType]
  /\ cancelled \subseteq Requests
  /\ generated \in [Requests -> SUBSET Channels]
  /\ worker \in [running : BOOLEAN, finalize : SUBSET Requests, refund : SUBSET Requests]
  /\ crashes \in 0 .. MaxCrashes

GatewayTypes == Books /\ LocalsOK /\ Surroundings

LEMMA TypedCall ==
  ASSUME GatewayTypes, Books', LocalsOK', LedgerOnly
  PROVE  GatewayTypes'
BY DEF GatewayTypes, Surroundings, LedgerOnly

LEMMA DatabaseRests == ASSUME Books, UNCHANGED database PROVE Books'
BY BooksKept DEF database, L!vars

LEMMA TypedAlone ==
  ASSUME GatewayTypes, LocalsOK', LocalOnly
  PROVE  GatewayTypes'
BY TypedCall, DatabaseRests DEF GatewayTypes, LocalOnly

LEMMA TypedSelect ==
  ASSUME GatewayOK, SumsOK, GatewayTypes, NEW q \in Requests, Select(q)
  PROVE  GatewayTypes'
<1> DEFINE ready == {ch \in Channels : B!Ready(breaker[ch])}
<1>1. LocalOnly /\ LocalsOK
  BY DEF Select, GatewayTypes
<1>2. CASE ready = {}
  <2>1. Ends(q, "no_channel") /\ "no_channel" \in Answers
    BY <1>2 DEF Select, Answers
  <2>2. QED
    BY <1>1, <2>1, TypedEnds, TypedAlone
<1>3. CASE ready # {}
  <2>1. PICK u \in Users, a \in Amounts, stream \in BOOLEAN, order \in SetToSeqs(ready) :
          Becomes(q, [request[q] EXCEPT !.at = "reserve", !.user = u, !.amount = a,
                                        !.stream = stream, !.candidates = order])
    BY <1>3 DEF Select
  <2> DEFINE l == [request[q] EXCEPT !.at = "reserve", !.user = u, !.amount = a,
                                     !.stream = stream, !.candidates = order]
  <2>2. order \in Seq(Channels) /\ a \in Nat
    BY OrderIsSeq DEF SumsOK
  <2>3. l \in Request
    <3>1. Channels # {}
      BY <1>3
    <3>2. request[q] \in Request /\ "reserve" \in Places
      BY <1>1, LocalKnown DEF Places
    <3>3. QED
      BY <2>2, <3>1, <3>2, WritesSelection DEF SumsOK
  <2>4. l.at = "reserve" /\ l.user = u
    BY <1>1, LocalKnown DEF Request
  <2>5. Becomes(q, l)
    BY <2>1
  <2>. HIDE DEF l
  <2>6. LocalOK(l)
    BY <2>3, <2>4 DEF LocalOK, Holding, Judged, Attempting
  <2>7. QED
    BY <1>1, <2>5, <2>6, LocalsWritten, TypedAlone
<1>4. QED
  BY <1>2, <1>3

LEMMA TypedReserve ==
  ASSUME GatewayTypes, NEW q \in Requests, Reserve(q)
  PROVE  GatewayTypes'
<1>1. PICK reply \in L!Replies :
        /\ L!Reserve(q, request[q].user, request[q].amount, reply)
        /\ CASE reply = "ok"      -> GoTo(q, "next")
             [] reply = "refused" -> Ends(q, "no_quota")
             [] OTHER             -> Ends(q, "internal_error")
  BY DEF Reserve
<1>2. LedgerOnly /\ At(q, "reserve") /\ LocalsOK /\ Books
  BY DEF Reserve, GatewayTypes
<1>3. request[q].user \in Users /\ request[q].amount \in Int
  <2>1. request[q].amount \in Nat
    BY <1>2, LocalKnown DEF Request
  <2>2. QED
    BY <1>2, <2>1, LocalKnown DEF LocalOK, At
<1>4. Books'
  BY <1>1, <1>2, <1>3, BooksReserve
<1>5. GoTo(q, "next") \/ Ends(q, "no_quota") \/ Ends(q, "internal_error")
  BY <1>1
<1>6. LocalsOK'
  <2>1. CASE GoTo(q, "next")
    BY <1>2, <2>1, TypedGoTo DEF Places, Holding, Judged, Attempting
  <2>2. CASE Ends(q, "no_quota") \/ Ends(q, "internal_error")
    BY <1>2, <2>2, TypedEnds DEF Answers
  <2>3. QED
    BY <1>5, <2>1, <2>2
<1>7. QED
  BY <1>2, <1>4, <1>6, TypedCall

LEMMA TypedNext ==
  ASSUME GatewayOK, GatewayTypes, NEW q \in Requests, NextCandidate(q)
  PROVE  GatewayTypes'
<1> DEFINE rq == request[q]
           ch == Head(rq.candidates)
<1>1. /\ UNCHANGED <<database, cancelled, generated, worker, crashes>>
      /\ LocalsOK /\ rq \in Request /\ rq.at = "next"
  BY LocalKnown DEF NextCandidate, GatewayTypes, At
<1>2. Books'
  BY <1>1, DatabaseRests DEF GatewayTypes
<1>3. rq.candidates \in Seq(Channels)
  BY <1>1 DEF Request
<1>4. rq.candidates # <<>> => ch \in Channels /\ Tail(rq.candidates) \in Seq(Channels)
  BY <1>3
<1>5. CASE GoTo(q, "defer") /\ UNCHANGED breaker
  <2>1. LocalsOK'
    BY <1>1, <1>5, TypedGoTo DEF Places, Holding, Judged, Attempting
  <2>2. QED
    BY <1>1, <1>2, <1>5, <2>1 DEF GatewayTypes, Surroundings
<1>6. CASE /\ Becomes(q, [rq EXCEPT !.at = "defer", !.answer = IF rq.kept THEN "rejected" ELSE "unavailable"])
           /\ UNCHANGED breaker
  <2> DEFINE answer == IF rq.kept THEN "rejected" ELSE "unavailable"
             l      == [rq EXCEPT !.at = "defer", !.answer = answer]
  <2>1. answer \in Answers /\ "defer" \in Places
    BY DEF Answers, Places
  <2>2. Becomes(q, l)
    BY <1>6
  <2>. HIDE DEF answer, rq
  <2>3. l \in Request /\ l.at = "defer"
    BY <1>1, <2>1, WritesAt DEF Request
  <2>4. LocalOK(l)
    BY <2>3 DEF LocalOK, Holding, Judged, Attempting
  <2>5. LocalsOK'
    BY <1>1, <2>2, <2>4, LocalsWritten
  <2>6. QED
    BY <1>1, <1>2, <1>6, <2>5 DEF GatewayTypes, Surroundings
<1>7. CASE /\ rq.candidates # <<>> /\ Becomes(q, [rq EXCEPT !.candidates = Tail(@)])
           /\ UNCHANGED breaker
  <2> DEFINE rest == Tail(rq.candidates)
             l    == [rq EXCEPT !.candidates = rest]
  <2>1. Becomes(q, l) /\ rest \in Seq(Channels) /\ ch \in Channels
    BY <1>4, <1>7
  <2>. HIDE DEF rest, rq, ch
  <2>2. l \in Request /\ l.at = "next"
    <3>1. l.at = "next"
      BY <1>1 DEF Request
    <3>2. l \in Request
      BY <1>1, <2>1 DEF Request
    <3>3. QED
      BY <3>1, <3>2
  <2>3. LocalOK(l)
    BY <2>2 DEF LocalOK, Holding, Judged, Attempting
  <2>4. LocalsOK'
    BY <1>1, <2>1, <2>3, LocalsWritten
  <2>5. QED
    BY <1>1, <1>2, <1>7, <2>4 DEF GatewayTypes, Surroundings
<1>8. CASE /\ rq.candidates # <<>>
           /\ breaker' = [breaker EXCEPT ![ch] = B!Admitted(@)]
           /\ Becomes(q, [rq EXCEPT !.at = "prepare", !.candidates = Tail(@), !.channel = ch,
                                    !.generation = breaker'[ch].generation])
  <2> DEFINE rest == Tail(rq.candidates)
             g    == breaker'[ch].generation
             l    == [rq EXCEPT !.at = "prepare", !.candidates = rest, !.channel = ch, !.generation = g]
  <2>1. Becomes(q, l) /\ rest \in Seq(Channels) /\ ch \in Channels
    BY <1>4, <1>8
  <2>2. breaker \in [Channels -> B!BreakerType] /\ breaker[ch] \in B!BreakerType
    BY <2>1 DEF GatewayTypes, Surroundings
  <2>3. B!Admitted(breaker[ch]) \in B!BreakerType
    BY <2>2, TransitionsType
  <2>. HIDE DEF rest, ch
  <2>4. breaker' \in [Channels -> B!BreakerType]
    BY <1>8, <2>1, <2>2, <2>3
  <2>5. g \in Nat
    BY <2>1, <2>4 DEF B!BreakerType
  <2>. HIDE DEF g, rq
  <2>6. l \in Request
    BY <1>1, <2>1, <2>5 DEF Request, Places
  <2>7. l.at = "prepare" /\ l.channel = ch
    BY <1>1 DEF Request
  <2>8. LocalOK(l)
    BY <2>1, <2>6, <2>7 DEF LocalOK, Judged
  <2>9. LocalsOK'
    BY <1>1, <2>1, <2>8, LocalsWritten
  <2>10. QED
    BY <1>1, <1>2, <2>4, <2>9 DEF GatewayTypes, Surroundings
<1>9. QED
  <2>. HIDE DEF rq, ch
  <2>1. \/ GoTo(q, "defer") /\ UNCHANGED breaker
        \/ /\ Becomes(q, [rq EXCEPT !.at = "defer", !.answer = IF rq.kept THEN "rejected" ELSE "unavailable"])
           /\ UNCHANGED breaker
        \/ /\ rq.candidates # <<>> /\ Becomes(q, [rq EXCEPT !.candidates = Tail(@)])
           /\ UNCHANGED breaker
        \/ /\ rq.candidates # <<>>
           /\ breaker' = [breaker EXCEPT ![ch] = B!Admitted(@)]
           /\ Becomes(q, [rq EXCEPT !.at = "prepare", !.candidates = Tail(@), !.channel = ch,
                                    !.generation = breaker'[ch].generation])
    BY DEF NextCandidate, rq, ch
  <2>2. QED
    BY <1>5, <1>6, <1>7, <1>8, <2>1

\* A request that is in an attempt.
LEMMA InAttempt ==
  ASSUME GatewayTypes, NEW q \in Requests, request[q].at \in Attempting
  PROVE  /\ Books /\ LocalsOK /\ request[q] \in Request
         /\ request[q].at \in Holding /\ request[q].channel \in Channels
BY LocalKnown DEF GatewayTypes, LocalOK, Holding

LEMMA TypedPrepare ==
  ASSUME GatewayTypes, NEW q \in Requests, Prepare(q)
  PROVE  GatewayTypes'
<1>1. LocalOnly /\ request[q].at \in Attempting
  BY DEF Prepare, At, Attempting
<1>2. LocalsOK /\ request[q].at \in Holding
  BY <1>1, InAttempt
<1>3. LocalsOK'
  <2>1. CASE Returns(q, "neutral", FALSE, FALSE)
    BY <1>2, <2>1, TypedReturns DEF Kinds
  <2>2. CASE Returns(q, "channel_error", FALSE, FALSE)
    BY <1>2, <2>2, TypedReturns DEF Kinds
  <2>3. CASE GoTo(q, "mark")
    BY <1>2, <2>3, TypedGoTo DEF Places, Judged
  <2>4. QED
    BY <2>1, <2>2, <2>3 DEF Prepare
<1>4. QED
  BY <1>1, <1>3, TypedAlone

LEMMA TypedMark ==
  ASSUME GatewayTypes, NEW q \in Requests, Mark(q)
  PROVE  GatewayTypes'
<1>1. PICK reply \in L!Replies :
        L!MarkInFlight(q, request[q].channel, reply) /\ GoTo(q, IF reply = "ok" THEN "send" ELSE "unmark")
  BY DEF Mark
<1>2. LedgerOnly /\ request[q].at \in Attempting
  BY DEF Mark, At, Attempting
<1>3. Books /\ LocalsOK /\ request[q].at \in Holding /\ request[q].channel \in Channels
  BY <1>2, InAttempt
<1>4. Books'
  BY <1>1, <1>3, BooksMark
<1>5. PICK place \in {"send", "unmark"} : GoTo(q, place)
  BY <1>1
<1>6. LocalsOK'
  BY <1>3, <1>5, TypedGoTo DEF Places, Judged
<1>7. QED
  BY <1>2, <1>4, <1>6, TypedCall

LEMMA TypedUnmark ==
  ASSUME GatewayTypes, NEW q \in Requests, Unmark(q)
  PROVE  GatewayTypes'
<1>1. PICK reply \in L!Replies :
        L!ReleaseAttempt(q, reply) /\ Returns(q, "channel_error", reply # "ok", FALSE)
  BY DEF Unmark
<1>2. LedgerOnly /\ request[q].at \in Attempting
  BY DEF Unmark, At, Attempting
<1>3. Books /\ LocalsOK /\ request[q].at \in Holding
  BY <1>2, InAttempt
<1>4. Books'
  BY <1>1, <1>3, BooksRelease
<1>5. (reply # "ok") \in BOOLEAN
  OBVIOUS
<1>6. LocalsOK'
  BY <1>1, <1>3, <1>5, TypedReturns DEF Kinds
<1>7. QED
  BY <1>2, <1>4, <1>6, TypedCall

\* An attempt is over with this answer.
LEMMA TypedAnswers ==
  ASSUME LocalsOK, NEW q \in Requests, request[q].at \in Holding, NEW answer \in Answers,
         NEW o \in Outcome, o.kind \in Kinds,
         Becomes(q, [request[q] EXCEPT !.at = "verdict", !.answer = answer, !.outcome = o])
  PROVE  LocalsOK'
<1> DEFINE l == [request[q] EXCEPT !.at = "verdict", !.answer = answer, !.outcome = o]
<1>1. l \in Request
  BY LocalKnown, WritesOutcome DEF Places
<1>2. l.at = "verdict" /\ l.channel = request[q].channel /\ l.outcome = o
  BY LocalKnown DEF Request
<1>3. LocalOK(l)
  BY <1>1, <1>2, LocalKnown DEF LocalOK
<1>4. QED
  BY <1>3, LocalsWritten

LEMMA TypedSend ==
  ASSUME GatewayTypes, NEW q \in Requests, Send(q)
  PROVE  GatewayTypes'
<1>1. /\ UNCHANGED <<database, breaker, cancelled, worker, crashes>>
      /\ request[q].at \in Attempting
  BY DEF Send, At, Attempting
<1>2. Books /\ LocalsOK /\ request[q].at \in Holding /\ request[q].channel \in Channels
  BY <1>1, InAttempt
<1>3. generated' \in [Requests -> SUBSET Channels]
  <2>1. PICK ran \in BOOLEAN :
          generated' = [generated EXCEPT ![q] = IF ran THEN @ \cup {request[q].channel} ELSE @]
    BY DEF Send
  <2>2. QED
    BY <1>2, <2>1 DEF GatewayTypes, Surroundings
<1>4. LocalsOK'
  <2>1. \/ \E place \in {"undial", "rejected_channel", "rejected_request", "lost", "body"} : GoTo(q, place)
        \/ Becomes(q, [request[q] EXCEPT !.at = "verdict", !.answer = "upstream_error", !.outcome =
             [kind |-> "channel_error", spent |-> TRUE, paid |-> FALSE, committed |-> TRUE]])
    BY DEF Send
  <2>2. ASSUME NEW place \in {"undial", "rejected_channel", "rejected_request", "lost", "body"}, GoTo(q, place)
        PROVE  LocalsOK'
    BY <1>2, <2>2, TypedGoTo DEF Places, Judged
  <2>3. CASE Becomes(q, [request[q] EXCEPT !.at = "verdict", !.answer = "upstream_error", !.outcome =
               [kind |-> "channel_error", spent |-> TRUE, paid |-> FALSE, committed |-> TRUE]])
    <3> DEFINE o == [kind |-> "channel_error", spent |-> TRUE, paid |-> FALSE, committed |-> TRUE]
    <3>1. o \in Outcome /\ o.kind \in Kinds /\ "upstream_error" \in Answers
      BY OutcomeTyped DEF Kinds, Answers
    <3>2. Becomes(q, [request[q] EXCEPT !.at = "verdict", !.answer = "upstream_error", !.outcome = o])
      BY <2>3
    <3>. HIDE DEF o
    <3>3. QED
      BY <1>2, <3>1, <3>2, TypedAnswers
  <2>4. QED
    BY <2>1, <2>2, <2>3
<1>5. Books'
  BY <1>1, <1>2, DatabaseRests
<1>6. QED
  BY <1>1, <1>3, <1>4, <1>5 DEF GatewayTypes, Surroundings

LEMMA TypedUndial ==
  ASSUME GatewayTypes, NEW q \in Requests, Undial(q)
  PROVE  GatewayTypes'
<1>1. PICK reply \in L!Replies :
        /\ L!ReleaseAttempt(q, reply)
        /\ IF reply # "ok" THEN GoTo(q, "lost")
           ELSE Returns(q, IF q \in cancelled THEN "neutral" ELSE "channel_error", FALSE, FALSE)
  BY DEF Undial
<1>2. LedgerOnly /\ request[q].at \in Attempting
  BY DEF Undial, At, Attempting
<1>3. Books /\ LocalsOK /\ request[q].at \in Holding
  BY <1>2, InAttempt
<1>4. Books'
  BY <1>1, <1>3, BooksRelease
<1>5. LocalsOK'
  <2>1. CASE GoTo(q, "lost")
    BY <1>3, <2>1, TypedGoTo DEF Places, Holding, Judged, Attempting
  <2>2. CASE \E kind \in Kinds : Returns(q, kind, FALSE, FALSE)
    BY <1>3, <2>2, TypedReturns
  <2>3. GoTo(q, "lost") \/ \E kind \in Kinds : Returns(q, kind, FALSE, FALSE)
    BY <1>1 DEF Kinds
  <2>4. QED
    BY <2>1, <2>2, <2>3
<1>6. QED
  BY <1>2, <1>4, <1>5, TypedCall

LEMMA TypedLost ==
  ASSUME GatewayTypes, NEW q \in Requests, Lost(q)
  PROVE  GatewayTypes'
<1>1. LocalOnly /\ request[q].at \in Attempting
  BY DEF Lost, At, Attempting
<1>2. LocalsOK /\ request[q].at \in Holding
  BY <1>1, InAttempt
<1>3. PICK kind \in Kinds : Returns(q, kind, TRUE, FALSE)
  BY DEF Lost, Kinds
<1>4. LocalsOK'
  BY <1>2, <1>3, TypedReturns
<1>5. QED
  BY <1>1, <1>4, TypedAlone

LEMMA TypedRejected ==
  ASSUME GatewayTypes, NEW q \in Requests, Rejected(q)
  PROVE  GatewayTypes'
<1> DEFINE o(kind) == [kind |-> kind, spent |-> FALSE, paid |-> FALSE, committed |-> FALSE]
<1>1. PICK reply \in L!Replies :
        /\ L!ReleaseAttempt(q, reply)
        /\ \/ Returns(q, "channel_error", TRUE, FALSE)
           \/ Becomes(q, [request[q] EXCEPT !.at = "verdict", !.kept = TRUE, !.outcome = o("channel_error")])
           \/ Becomes(q, [request[q] EXCEPT !.at = "verdict", !.answer = "rejected", !.outcome = o("client_error")])
  BY DEF Rejected
<1>2. LedgerOnly /\ request[q].at \in Attempting
  BY DEF Rejected, At, Attempting
<1>3. Books /\ LocalsOK /\ request[q].at \in Holding /\ request[q] \in Request
  BY <1>2, InAttempt
<1>4. Books'
  BY <1>1, <1>3, BooksRelease
<1>5. \A kind \in Kinds : o(kind) \in Outcome /\ o(kind).kind \in Kinds
  BY OutcomeTyped
<1>. HIDE DEF o
<1>6. "channel_error" \in Kinds /\ "client_error" \in Kinds /\ "rejected" \in Answers /\ "verdict" \in Places
  BY DEF Kinds, Answers, Places
<1>7. LocalsOK'
  <2>1. CASE Returns(q, "channel_error", TRUE, FALSE)
    BY <1>3, <1>6, <2>1, TypedReturns
  <2>2. CASE Becomes(q, [request[q] EXCEPT !.at = "verdict", !.kept = TRUE, !.outcome = o("channel_error")])
    <3> DEFINE l == [request[q] EXCEPT !.at = "verdict", !.kept = TRUE, !.outcome = o("channel_error")]
    <3>1. l \in Request
      BY <1>3, <1>5, <1>6, WritesOutcome
    <3>2. l.at = "verdict" /\ l.channel = request[q].channel /\ l.outcome = o("channel_error")
      BY <1>3 DEF Request
    <3>3. LocalOK(l)
      BY <1>3, <1>5, <1>6, <3>1, <3>2, LocalKnown DEF LocalOK
    <3>4. QED
      BY <1>3, <2>2, <3>3, LocalsWritten
  <2>3. CASE Becomes(q, [request[q] EXCEPT !.at = "verdict", !.answer = "rejected", !.outcome = o("client_error")])
    BY <1>3, <1>5, <1>6, <2>3, TypedAnswers
  <2>4. QED
    BY <1>1, <2>1, <2>2, <2>3
<1>8. QED
  BY <1>2, <1>4, <1>7, TypedCall

LEMMA TypedSettles ==
  ASSUME LocalsOK, NEW q \in Requests, request[q].at \in Holding, NEW kind \in Kinds, NEW committed \in BOOLEAN,
         NEW answer \in Answers, NEW cost \in Nat, SettleAs(q, kind, committed, answer, cost)
  PROVE  LocalsOK'
<1> DEFINE place == IF cost > request[q].amount THEN "verdict" ELSE "record"
           o     == [kind |-> kind, spent |-> TRUE, paid |-> FALSE, committed |-> committed]
           l     == [request[q] EXCEPT !.at = place, !.cost = cost, !.tries = 0, !.answer = answer, !.outcome = o]
<1>1. place \in Places /\ place \in {"verdict", "record"}
  BY DEF Places
<1>2. o \in Outcome /\ o.kind = kind
  BY OutcomeTyped
<1>3. Becomes(q, l)
  BY DEF SettleAs
<1>. HIDE DEF place, o
<1>4. l \in Request
  BY <1>1, <1>2, LocalKnown, WritesSettlement
<1>5. l.at = place /\ l.channel = request[q].channel /\ l.outcome = o
  BY LocalKnown DEF Request
<1>. HIDE DEF l
<1>6. LocalOK(l)
  BY <1>1, <1>2, <1>4, <1>5, LocalKnown DEF LocalOK
<1>7. QED
  BY <1>3, <1>6, LocalsWritten

LEMMA TypedBody ==
  ASSUME SumsOK, GatewayTypes, NEW q \in Requests, Body(q)
  PROVE  GatewayTypes'
<1>1. LocalOnly /\ request[q].at \in Attempting
  BY DEF Body, At, Attempting
<1>2. LocalsOK /\ request[q].at \in Holding /\ request[q].amount \in Nat
  BY <1>1, InAttempt DEF Request
<1>3. PICK kind \in Kinds, committed \in BOOLEAN, answer \in Answers, cost \in Costs \cup {request[q].amount} :
        SettleAs(q, kind, committed, answer, cost)
  <2>1. /\ "success" \in Kinds /\ "channel_error" \in Kinds /\ "neutral" \in Kinds
        /\ "content" \in Answers /\ "bad_gateway" \in Answers /\ "none" \in Answers
    BY DEF Kinds, Answers
  <2>2. QED
    BY <2>1 DEF Body
<1>4. cost \in Nat
  BY <1>2 DEF SumsOK
<1>5. LocalsOK'
  BY <1>2, <1>3, <1>4, TypedSettles
<1>6. QED
  BY <1>1, <1>5, TypedAlone

LEMMA TypedRecord ==
  ASSUME GatewayTypes, NEW q \in Requests, Record(q)
  PROVE  GatewayTypes'
<1>1. PICK reply \in L!Replies :
        /\ L!RecordConsumption(q, request[q].channel, request[q].cost, reply)
        /\ \/ GoTo(q, "finalize")
           \/ Becomes(q, [request[q] EXCEPT !.tries = @ + 1])
           \/ GoTo(q, "verdict")
  BY DEF Record
<1>2. LedgerOnly /\ request[q].at = "record" /\ request[q].at \in Attempting
  BY DEF Record, At, Attempting
<1>3. Books /\ LocalsOK /\ request[q].at \in Holding /\ request[q] \in Request
  BY <1>2, InAttempt
<1>4. Books'
  BY <1>1, <1>3, BooksRecord
<1>5. LocalsOK'
  <2>1. CASE GoTo(q, "finalize") \/ GoTo(q, "verdict")
    BY <1>2, <1>3, <2>1, TypedGoTo DEF Places, Judged
  <2>2. CASE Becomes(q, [request[q] EXCEPT !.tries = @ + 1])
    <3> DEFINE n == request[q].tries + 1
               l == [request[q] EXCEPT !.tries = n]
    <3>1. n \in Nat
      BY <1>3 DEF Request
    <3>2. Becomes(q, l)
      BY <2>2
    <3>. HIDE DEF n
    <3>3. l \in Request
      BY <1>3, <3>1 DEF Request
    <3>4. l.at = request[q].at /\ l.channel = request[q].channel /\ l.outcome = request[q].outcome
      BY <1>3 DEF Request
    <3>5. LocalOK(l)
      BY <1>2, <1>3, <3>3, <3>4, LocalKnown DEF LocalOK
    <3>6. QED
      BY <1>3, <3>2, <3>5, LocalsWritten
  <2>3. QED
    BY <1>1, <2>1, <2>2
<1>6. QED
  BY <1>2, <1>4, <1>5, TypedCall

LEMMA TypedFinalize ==
  ASSUME GatewayTypes, NEW q \in Requests, Finalize(q)
  PROVE  GatewayTypes'
<1>1. PICK reply \in L!Replies :
        /\ L!Finalize(q, reply)
        /\ Becomes(q, [request[q] EXCEPT !.at = "verdict", !.outcome.paid = (reply = "ok")])
  BY DEF Finalize
<1>2. LedgerOnly /\ request[q].at = "finalize" /\ request[q].at \in Attempting
  BY DEF Finalize, At, Attempting
<1>3. Books /\ LocalsOK /\ request[q].at \in Holding /\ request[q] \in Request
  BY <1>2, InAttempt
<1>4. Books'
  BY <1>1, <1>3, BooksFinalize
<1> DEFINE paid == (reply = "ok")
           o    == [request[q].outcome EXCEPT !.paid = paid]
           l    == [request[q] EXCEPT !.at = "verdict", !.outcome = o]
<1>5. paid \in BOOLEAN
  OBVIOUS
<1>6. Becomes(q, l)
  BY <1>1
<1>. HIDE DEF paid
<1>7. request[q].outcome \in Outcome /\ request[q].outcome.kind \in Kinds
  BY <1>2, <1>3, LocalKnown DEF Request, LocalOK, Judged
<1>8. o \in Outcome /\ o.kind = request[q].outcome.kind
  BY <1>5, <1>7 DEF Outcome
<1>. HIDE DEF o
<1>9. l \in Request
  BY <1>3, <1>8, WritesOutcome DEF Places, Answers
<1>10. l.at = "verdict" /\ l.channel = request[q].channel /\ l.outcome = o
  BY <1>3 DEF Request
<1>. HIDE DEF l
<1>11. LocalOK(l)
  BY <1>3, <1>7, <1>8, <1>9, <1>10, LocalKnown DEF LocalOK
<1>12. LocalsOK'
  BY <1>3, <1>6, <1>11, LocalsWritten
<1>13. QED
  BY <1>2, <1>4, <1>12, TypedCall

LEMMA TypedVerdict ==
  ASSUME GatewayOK, GatewayTypes, NEW q \in Requests, Verdict(q)
  PROVE  GatewayTypes'
<1> DEFINE rq == request[q]
           o  == rq.outcome
<1>1. /\ UNCHANGED <<database, cancelled, generated, worker, crashes>>
      /\ rq.at = "verdict" /\ LocalsOK /\ rq \in Request
  BY LocalKnown DEF Verdict, GatewayTypes, At
<1>2. rq.channel \in Channels /\ o.kind \in Kinds /\ o \in Outcome /\ rq.generation \in Nat
  BY <1>1, LocalKnown DEF LocalOK, Holding, Judged, Request
<1>3. breaker \in [Channels -> B!BreakerType]
  BY DEF GatewayTypes, Surroundings
<1>4. PICK result \in B!Results :
        breaker' = [breaker EXCEPT ![rq.channel] = B!Recorded(@, rq.generation, result)]
  BY <1>2 DEF Verdict, Kinds, B!Results
<1>5. breaker' \in [Channels -> B!BreakerType]
  <2>1. B!Recorded(breaker[rq.channel], rq.generation, result) \in B!BreakerType
    BY <1>2, <1>3, TransitionsType
  <2>2. QED
    BY <1>2, <1>3, <1>4, <2>1
<1>6. LocalsOK'
  <2>1. CASE GoTo(q, "next")
    BY <1>1, <2>1, TypedGoTo DEF Places, Holding, Judged, Attempting
  <2>2. CASE \E answer \in Answers :
               Becomes(q, [rq EXCEPT !.at = "defer", !.consumed = o.spent, !.settled = o.paid, !.answer = answer])
    <3>1. PICK answer \in Answers :
            Becomes(q, [rq EXCEPT !.at = "defer", !.consumed = o.spent, !.settled = o.paid, !.answer = answer])
      BY <2>2
    <3> DEFINE l == [rq EXCEPT !.at = "defer", !.consumed = o.spent, !.settled = o.paid, !.answer = answer]
    <3>2. o.spent \in BOOLEAN /\ o.paid \in BOOLEAN
      BY <1>2, Zenon DEF Outcome
    <3>3. Becomes(q, l)
      BY <3>1
    <3>. HIDE DEF rq, o
    <3>4. l \in Request
      BY <1>1, <3>2, WritesFlags DEF Places
    <3>5. l.at = "defer"
      BY <1>1 DEF Request
    <3>. HIDE DEF l
    <3>6. LocalOK(l)
      BY <3>4, <3>5 DEF LocalOK, Holding, Judged, Attempting
    <3>7. QED
      BY <1>1, <3>3, <3>6, LocalsWritten
  <2>3. \/ GoTo(q, "next")
        \/ \E answer \in Answers :
             Becomes(q, [rq EXCEPT !.at = "defer", !.consumed = o.spent, !.settled = o.paid, !.answer = answer])
    <3>1. "held" \in Answers /\ rq.answer \in Answers
      BY <1>1 DEF Answers, Request
    <3>2. \/ GoTo(q, "next")
          \/ Becomes(q, [rq EXCEPT !.at = "defer", !.consumed = o.spent, !.settled = o.paid, !.answer = "held"])
          \/ Becomes(q, [rq EXCEPT !.at = "defer", !.consumed = o.spent, !.settled = o.paid, !.answer = rq.answer])
      BY DEF Verdict
    <3>3. QED
      BY <3>1, <3>2
  <2>4. QED
    BY <2>1, <2>2, <2>3
<1>7. Books'
  BY <1>1, DatabaseRests DEF GatewayTypes
<1>8. QED
  BY <1>1, <1>5, <1>6, <1>7 DEF GatewayTypes, Surroundings

LEMMA TypedReturn ==
  ASSUME GatewayTypes, NEW q \in Requests, Return(q)
  PROVE  GatewayTypes'
<1>1. LedgerOnly /\ Ends(q, request[q].answer) /\ LocalsOK /\ Books
  BY DEF Return, GatewayTypes
<1>2. Books'
  <2>1. UNCHANGED database \/ \E reply \in L!Replies : L!Refund(q, reply)
    BY DEF Return
  <2>2. QED
    BY <1>1, <2>1, DatabaseRests, BooksRefund
<1>3. request[q].answer \in Answers
  BY <1>1, LocalKnown DEF Request
<1>4. LocalsOK'
  BY <1>1, <1>3, TypedEnds
<1>5. QED
  BY <1>1, <1>2, <1>4, TypedCall

LEMMA TypedPanic ==
  ASSUME GatewayTypes, NEW q \in Requests, Panic(q)
  PROVE  GatewayTypes'
<1> DEFINE l == [request[q] EXCEPT !.at = "defer", !.answer = "internal_error"]
<1>1. LocalOnly /\ Becomes(q, l) /\ LocalsOK /\ request[q] \in Request
  BY LocalKnown DEF Panic, GatewayTypes
<1>2. l \in Request
  BY <1>1, WritesAt DEF Places, Answers
<1>3. l.at = "defer"
  BY <1>1 DEF Request
<1>. HIDE DEF l
<1>4. LocalOK(l)
  BY <1>2, <1>3 DEF LocalOK, Holding, Judged, Attempting
<1>5. LocalsOK'
  BY <1>1, <1>4, LocalsWritten
<1>6. QED
  BY <1>1, <1>5, TypedAlone

LEMMA TypedCrash ==
  ASSUME GatewayOK, SumsOK, GatewayTypes, Crash
  PROVE  GatewayTypes'
<1> DEFINE gone   == [NewRequest EXCEPT !.at = "dead"]
           new(q) == IF request[q].at \in {"start", "done"} THEN request[q] ELSE gone
<1>1. /\ crashes < MaxCrashes /\ crashes' = crashes + 1 /\ request' = [q \in Requests |-> new(q)]
      /\ breaker' = [ch \in Channels |-> B!NewBreaker] /\ worker' = Idle
      /\ UNCHANGED <<database, cancelled, generated>>
  BY DEF Crash
<1>2. gone \in Request /\ gone.at = "dead"
  <2>1. PICK n : n = NewRequest
    OBVIOUS
  <2>2. n \in Request
    BY <2>1, NewTyped DEF Places
  <2>3. [n EXCEPT !.at = "dead"] \in Request /\ [n EXCEPT !.at = "dead"].at = "dead"
    <3>1. [n EXCEPT !.at = "dead"].at = "dead"
      BY <2>2 DEF Request
    <3>2. QED
      BY <2>2, <3>1, WritesAt DEF Places, Answers
  <2>4. QED
    BY <2>1, <2>3
<1>. HIDE DEF gone
<1>3. LocalOK(gone)
  BY <1>2 DEF LocalOK, Holding, Judged, Attempting
<1>4. \A q \in Requests : LocalOK(new(q))
  BY <1>3, LocalKnown DEF GatewayTypes
<1>. HIDE DEF new
<1>5. LocalsOK'
  BY <1>1, <1>4 DEF LocalsOK, LocalOK
<1>6. B!NewBreaker \in B!BreakerType
  BY DEF B!NewBreaker, B!BreakerType, B!States
<1>7. worker' \in [running : BOOLEAN, finalize : SUBSET Requests, refund : SUBSET Requests]
  BY <1>1 DEF Idle
<1>8. crashes' \in 0 .. MaxCrashes
  BY <1>1 DEF GatewayTypes, Surroundings, SumsOK
<1>9. breaker' \in [Channels -> B!BreakerType]
  BY <1>1, <1>6
<1>10. Books'
  BY <1>1, DatabaseRests DEF GatewayTypes
<1>11. QED
  BY <1>1, <1>5, <1>7, <1>8, <1>9, <1>10 DEF GatewayTypes, Surroundings

\* The worker, the clock and the clients leave the locals alone.
LEMMA LocalsRest == ASSUME LocalsOK, UNCHANGED request PROVE LocalsOK'
BY DEF LocalsOK, LocalOK

LEMMA TypedRecover ==
  ASSUME GatewayTypes, Recover
  PROVE  GatewayTypes'
<1> DEFINE Worker == [running : BOOLEAN, finalize : SUBSET Requests, refund : SUBSET Requests]
<1>1. UNCHANGED <<breaker, request, cancelled, generated, crashes>>
  BY DEF Recover, Scan, RecoverConsumed, RecoverStale, RecoverEnds
<1>2. LocalsOK'
  BY <1>1, LocalsRest DEF GatewayTypes
<1>3. worker \in Worker
  BY DEF GatewayTypes, Surroundings
<1>4. Books' /\ worker' \in Worker
  <2>1. CASE Scan
    <3>1. L!ConsumedUnsettled \subseteq Requests /\ L!StaleReserved \subseteq Requests
      BY DEF L!ConsumedUnsettled, L!StaleReserved
    <3>2. worker' \in Worker
      BY <2>1, <3>1 DEF Scan
    <3>3. QED
      BY <2>1, <3>2, DatabaseRests DEF Scan, GatewayTypes
  <2>2. CASE \E q \in Requests, reply \in L!Replies : RecoverConsumed(q, reply) \/ RecoverStale(q, reply)
    <3>1. PICK q \in Requests, reply \in L!Replies : RecoverConsumed(q, reply) \/ RecoverStale(q, reply)
      BY <2>2
    <3>2. L!Finalize(q, reply) \/ L!Refund(q, reply)
      BY <3>1 DEF RecoverConsumed, RecoverStale
    <3>3. worker' = [worker EXCEPT !.finalize = @ \ {q}] \/ worker' = [worker EXCEPT !.refund = @ \ {q}]
      BY <3>1 DEF RecoverConsumed, RecoverStale
    <3>4. worker' \in Worker
      BY <1>3, <3>3
    <3>5. QED
      BY <3>2, <3>4, BooksFinalize, BooksRefund DEF GatewayTypes
  <2>3. CASE RecoverEnds
    <3>1. worker' \in Worker
      BY <2>3 DEF RecoverEnds, Idle
    <3>2. QED
      BY <2>3, <3>1, DatabaseRests DEF RecoverEnds, GatewayTypes
  <2>4. QED
    BY <2>1, <2>2, <2>3 DEF Recover
<1>5. QED
  BY <1>1, <1>2, <1>4 DEF GatewayTypes, Surroundings

LEMMA TypedAside ==
  ASSUME GatewayOK, GatewayTypes,
         \/ \E q \in Requests : HangUp(q) \/ Age(q)
         \/ \E ch \in Channels : Cool(ch)
         \/ UNCHANGED vars
  PROVE  GatewayTypes'
<1>1. UNCHANGED <<request, generated, worker, crashes>>
  BY DEF HangUp, Age, Cool, vars
<1>2. LocalsOK'
  BY <1>1, LocalsRest DEF GatewayTypes
<1>3. Books'
  <2>1. UNCHANGED database \/ \E q \in Requests : L!GrowStale(q)
    BY DEF HangUp, Age, Cool, vars
  <2>2. QED
    BY <2>1, DatabaseRests, BooksStale DEF GatewayTypes
<1>4. cancelled' \subseteq Requests
  BY DEF HangUp, Age, Cool, vars, GatewayTypes, Surroundings
<1>5. breaker' \in [Channels -> B!BreakerType]
  <2>1. CASE \E ch \in Channels : Cool(ch)
    <3>1. PICK ch \in Channels : breaker' = [breaker EXCEPT ![ch] = B!Cooled(@)]
      BY <2>1 DEF Cool
    <3>2. breaker \in [Channels -> B!BreakerType]
      BY DEF GatewayTypes, Surroundings
    <3>3. B!Cooled(breaker[ch]) \in B!BreakerType
      BY <3>2, TransitionsType
    <3>4. QED
      BY <3>1, <3>2, <3>3
  <2>2. CASE ~ \E ch \in Channels : Cool(ch)
    BY <2>2 DEF HangUp, Age, vars, GatewayTypes, Surroundings
  <2>3. QED
    BY <2>1, <2>2
<1>6. QED
  BY <1>1, <1>2, <1>3, <1>4, <1>5 DEF GatewayTypes, Surroundings

LEMMA NextTyped == GatewayOK /\ SumsOK /\ GatewayTypes /\ [Next]_vars => GatewayTypes'
<1>. SUFFICES ASSUME GatewayOK, SumsOK, GatewayTypes, [Next]_vars PROVE GatewayTypes'
  OBVIOUS
<1>1. ASSUME NEW q \in Requests, Serve(q) PROVE GatewayTypes'
  BY <1>1, TypedSelect, TypedReserve, TypedNext, TypedPrepare, TypedMark, TypedUnmark, TypedSend, TypedUndial,
     TypedLost, TypedRejected, TypedBody, TypedRecord, TypedFinalize, TypedVerdict, TypedReturn DEF Serve
<1>2. QED
  BY <1>1, TypedPanic, TypedCrash, TypedRecover, TypedAside DEF Next

\* The start: empty tables, and every request new or over.
LEMMA InitTyped ==
  ASSUME GatewayOK, SumsOK, ServiceInit
  PROVE  GatewayTypes
<1>1. Books
  <2>1. PICK x : x = L!AbsentRow
    OBVIOUS
  <2>2. RowOK(x, Users, Channels)
    BY <2>1 DEF L!AbsentRow, RowOK, RowType, L!Statuses
  <2>3. /\ row = [r \in Requests |-> x] /\ entries = {} /\ usage = {}
        /\ balance \in [Users -> Openings] /\ version = [u \in Users |-> 0]
        /\ enabled = [u \in Users |-> TRUE] /\ deposited = balance
    BY <2>1 DEF ServiceInit, L!Init
  <2>4. TablesOK(Users, Requests, Channels, row, entries, usage)
    BY <2>2, <2>3 DEF TablesOK
  <2>5. balance \in [Users -> Int]
    <3>1. Openings \subseteq Int
      BY DEF SumsOK
    <3>2. \A u \in Users : balance[u] \in Int
      BY <2>3, <3>1
    <3>3. QED
      BY <2>3, <3>2
  <2>6. QED
    BY <2>3, <2>4, <2>5 DEF Books, AccountsOK
<1>2. LocalsOK
  <2> DEFINE over == [NewRequest EXCEPT !.at = "done"]
             n    == IF part = "request" THEN NewRequest ELSE over
  <2>1. NewRequest \in Request /\ over \in Request
    BY NewTyped DEF Places
  <2>2. NewRequest.at = "start" /\ over.at = "done"
    BY DEF NewRequest
  <2>3. request = [q \in Requests |-> n]
    BY DEF ServiceInit
  <2>. HIDE DEF over
  <2>4. LocalOK(n)
    BY <2>1, <2>2 DEF LocalOK, Holding, Judged, Attempting
  <2>. HIDE DEF n
  <2>5. QED
    BY <2>3, <2>4 DEF LocalsOK
<1>3. Surroundings
  <2>1. B!NewBreaker \in B!BreakerType
    BY DEF B!NewBreaker, B!BreakerType, B!States
  <2>2. worker \in [running : BOOLEAN, finalize : SUBSET Requests, refund : SUBSET Requests]
    BY DEF ServiceInit, Idle
  <2>3. 0 \in 0 .. MaxCrashes
    BY DEF SumsOK
  <2>4. QED
    BY <2>1, <2>2, <2>3 DEF ServiceInit, Surroundings
<1>4. QED
  BY <1>1, <1>2, <1>3 DEF GatewayTypes

-----------------------------------------------------------------------------
(* The types of Lifecycle.                                                 *)

\* Lifecycle counts and bounds sets as the theorems about finite sets do.
LEMMA LifeCounts ==
  ASSUME NEW S
  PROVE  /\ I!Cardinality(S) = Cardinality(S)
         /\ I!IsFiniteSet(S) => IsFiniteSet(S)
<1>1. I!Cardinality(S) = Cardinality(S)
  BY DEF I!Cardinality, Cardinality
<1>2. I!IsFiniteSet(S) => IsFiniteSet(S)
  BY DEF I!IsFiniteSet, IsFiniteSet
<1>3. QED
  BY <1>1, <1>2

LEMMA InitHoldings == I!ConstantsOK /\ I!Init => Holdings
<1>. SUFFICES ASSUME I!ConstantsOK, I!Init PROVE Holdings
  OBVIOUS
<1> DEFINE rest == Cardinality(Holds \ Backlog)
           left == [status |-> "consumed_unsettled", user |-> User, amount |-> 2,
                    channel |-> Channel, cost |-> 1, stale |-> FALSE]
<1>1. rest \in Nat /\ Cardinality(Backlog) \in Nat /\ Cardinality(Holds) \in Nat
  <2>1. IsFiniteSet(Holds) /\ Holds \ Backlog \in SUBSET Holds /\ Backlog \in SUBSET Holds
    BY LifeCounts DEF I!ConstantsOK
  <2>2. IsFiniteSet(Holds \ Backlog) /\ IsFiniteSet(Backlog)
    BY <2>1, FS_Subset
  <2>3. QED
    BY <2>1, <2>2, FS_CardinalityType
<1>2. RowOK(left, {User}, {Channel})
  <2>1. left \in RowType({User}, {Channel})
    BY DEF RowType, L!Statuses
  <2>2. QED
    BY <2>1 DEF RowOK
<1>3. PICK x : x = I!L!AbsentRow
  OBVIOUS
<1>4. RowOK(x, {User}, {Channel})
  BY <1>3 DEF I!L!AbsentRow, RowOK, RowType, L!Statuses
<1>5. holds = [h \in Holds |-> IF h \in Backlog THEN left ELSE x]
  BY <1>3 DEF I!Init, I!LedgerInit
<1>6. /\ accounts = [u \in {User} |-> 2 * rest] /\ versions = [u \in {User} |-> Cardinality(Backlog)]
      /\ allowed = [u \in {User} |-> TRUE] /\ deposits = [u \in {User} |-> 2 * Cardinality(Holds)]
      /\ logs = {}
      /\ ledger = {[id |-> h, kind |-> "reserve", user |-> User, amount |-> -2, after |-> 2 * rest, version |-> 1]
                     : h \in Backlog}
  <2>1. I!LedgerInit
    BY DEF I!Init
  <2>2. /\ I!Cardinality(Holds \ Backlog) = rest /\ I!Cardinality(Backlog) = Cardinality(Backlog)
        /\ I!Cardinality(Holds) = Cardinality(Holds)
    BY LifeCounts
  <2>. HIDE DEF rest
  <2>3. /\ accounts = [u \in {User} |-> 2 * rest] /\ versions = [u \in {User} |-> Cardinality(Backlog)]
    BY <2>1, <2>2 DEF I!LedgerInit
  <2>4. allowed = [u \in {User} |-> TRUE] /\ deposits = [u \in {User} |-> 2 * Cardinality(Holds)] /\ logs = {}
    BY <2>1, <2>2 DEF I!LedgerInit
  <2>5. ledger = {[id |-> h, kind |-> "reserve", user |-> User, amount |-> -2, after |-> 2 * rest, version |-> 1]
                    : h \in Backlog}
    BY <2>1, <2>2 DEF I!LedgerInit
  <2>6. QED
    BY <2>3, <2>4, <2>5
<1>. HIDE DEF rest, left
<1>7. ledger \subseteq EntryType({User}, Holds)
  <2>1. ASSUME NEW h \in Backlog
        PROVE  [id |-> h, kind |-> "reserve", user |-> User, amount |-> -2, after |-> 2 * rest, version |-> 1]
                 \in EntryType({User}, Holds)
    BY <1>1 DEF EntryType, L!Kinds, I!ConstantsOK
  <2>2. QED
    BY <1>6, <2>1
<1>8. TablesOK({User}, Holds, {Channel}, holds, ledger, logs)
  BY <1>2, <1>4, <1>5, <1>6, <1>7 DEF TablesOK
<1>9. AccountsOK({User}, accounts, versions)
  BY <1>1, <1>6 DEF AccountsOK
<1>10. QED
  BY <1>1, <1>6, <1>8, <1>9 DEF Holdings

LEMMA NextHoldings == Holdings /\ [I!Next]_(I!vars) => Holdings'
<1>. SUFFICES ASSUME Holdings, [I!Next]_(I!vars) PROVE Holdings'
  OBVIOUS
<1>1. \/ UNCHANGED I!database
      \/ \E h \in Holds, reply \in I!L!Replies :
           \/ I!L!Reserve(h, User, 2, reply) \/ I!L!MarkInFlight(h, Channel, reply) \/ I!L!ReleaseAttempt(h, reply)
           \/ I!L!RecordConsumption(h, Channel, 1, reply) \/ I!L!Finalize(h, reply) \/ I!L!Refund(h, reply)
           \/ I!L!GrowStale(h)
  <2>1. ASSUME NEW i \in Instances,
               \/ I!Boot(i) \/ I!StartEnds(i) \/ I!Signal(i) \/ I!Drained(i) \/ I!Overdue(i) \/ I!Exit(i) \/ I!Crash(i)
               \/ \E reply \in I!L!Replies : I!List(i, reply)
        PROVE  UNCHANGED I!database
    BY <2>1 DEF I!Boot, I!StartEnds, I!Signal, I!Drained, I!Overdue, I!Exit, I!Crash, I!List, I!ProcessOnly
  <2>2. ASSUME NEW i \in Instances, NEW h \in Holds, NEW reply \in I!L!Replies,
               I!Recover(i, h, reply) \/ I!Accept(i, h, reply)
        PROVE  I!L!Finalize(h, reply) \/ I!L!Refund(h, reply) \/ I!L!Reserve(h, User, 2, reply)
    BY <2>2 DEF I!Recover, I!Accept
  <2>3. ASSUME NEW h \in Holds, I!GiveUp(h) \/ I!Send(h)
        PROVE  UNCHANGED I!database
    BY <2>3 DEF I!GiveUp, I!Send
  <2>4. ASSUME NEW h \in Holds, I!Age(h) PROVE I!L!GrowStale(h)
    BY <2>4 DEF I!Age
  <2>5. ASSUME NEW h \in Holds, NEW reply \in I!L!Replies, I!Step(h, reply)
        PROVE  \/ I!L!MarkInFlight(h, Channel, reply) \/ I!L!ReleaseAttempt(h, reply)
               \/ I!L!RecordConsumption(h, Channel, 1, reply) \/ I!L!Finalize(h, reply) \/ I!L!Refund(h, reply)
    BY <2>5 DEF I!Step, I!Mark, I!Release, I!Record, I!Finish
  <2>6. UNCHANGED I!vars => UNCHANGED I!database
    BY DEF I!vars
  <2>7. "ok" \in I!L!Replies
    BY DEF I!L!Replies
  <2>8. QED
    BY <2>1, <2>2, <2>3, <2>4, <2>5, <2>6, <2>7 DEF I!Next
<1>2. CASE UNCHANGED I!database
  BY <1>2, HoldingsKept DEF I!database, I!L!vars
<1>3. User \in {User} /\ 2 \in Int /\ Channel \in {Channel} \cup {NoChannel}
  OBVIOUS
<1>4. QED
  BY <1>1, <1>2, <1>3, HoldingsReserve, HoldingsMark, HoldingsRelease, HoldingsRecord, HoldingsFinalize,
     HoldingsRefund, HoldingsStale

\* What every process is known by has a table of its own.
ProcessTable == process = [i \in Instances |-> process[i]]

LEMMA NextTable == ProcessTable /\ [I!Next]_(I!vars) => ProcessTable'
<1>. SUFFICES ASSUME ProcessTable, [I!Next]_(I!vars) PROVE ProcessTable'
  OBVIOUS
<1>1. ASSUME NEW i \in Instances, NEW p, process' = [process EXCEPT ![i] = p]
      PROVE  ProcessTable'
  <2>1. DOMAIN process = Instances
    BY DEF ProcessTable
  <2>2. QED
    BY <1>1, <2>1 DEF ProcessTable
<1>2. CASE process' = process
  BY <1>2 DEF ProcessTable
<1>3. process' = process \/ \E i \in Instances : \E p : process' = [process EXCEPT ![i] = p]
  <2>1. ASSUME NEW i \in Instances, I!Boot(i) \/ I!StartEnds(i) \/ I!Drained(i) \/ I!Overdue(i) \/ I!Crash(i)
        PROVE  \E p : process' = [process EXCEPT ![i] = p]
    <3>1. CASE I!Boot(i)
      BY <3>1 DEF I!Boot
    <3>2. CASE I!StartEnds(i)
      BY <3>2 DEF I!StartEnds
    <3>3. CASE I!Drained(i)
      BY <3>3 DEF I!Drained
    <3>4. CASE I!Overdue(i)
      BY <3>4 DEF I!Overdue
    <3>5. CASE I!Crash(i)
      BY <3>5 DEF I!Crash
    <3>6. QED
      BY <2>1, <3>1, <3>2, <3>3, <3>4, <3>5
  <2>2. ASSUME NEW i \in Instances, I!Signal(i) \/ I!Exit(i)
        PROVE  \E p : process' = [process EXCEPT ![i] = p]
    <3>1. PICK place : process' = [process EXCEPT ![i].at = place]
      BY <2>2 DEF I!Signal, I!Exit
    <3>2. process' = [process EXCEPT ![i] = [process[i] EXCEPT !.at = place]]
      BY <3>1 DEF ProcessTable
    <3>3. QED
      BY <3>2
  <2>3. ASSUME NEW i \in Instances, NEW reply, I!List(i, reply)
        PROVE  \E p : process' = [process EXCEPT ![i] = p]
    BY <2>3 DEF I!List
  <2>4. ASSUME NEW i \in Instances, NEW h, NEW reply, I!Recover(i, h, reply)
        PROVE  \E p : process' = [process EXCEPT ![i] = p]
    <3>1. PICK f, r, d : process' = [process EXCEPT ![i].finalize = f, ![i].refund = r, ![i].failed = d]
      BY <2>4 DEF I!Recover
    <3>2. process' = [process EXCEPT ![i] = [process[i] EXCEPT !.finalize = f, !.refund = r, !.failed = d]]
      BY <3>1 DEF ProcessTable
    <3>3. QED
      BY <3>2
  <2>5. ASSUME NEW h \in Holds,
               \/ I!GiveUp(h) \/ I!Send(h) \/ I!Age(h)
               \/ \E reply \in I!L!Replies : I!Step(h, reply) \/ \E i \in Instances : I!Accept(i, h, reply)
        PROVE  process' = process
    BY <2>5 DEF I!GiveUp, I!Send, I!Age, I!Step, I!Mark, I!Release, I!Record, I!Finish, I!Accept
  <2>6. UNCHANGED I!vars => process' = process
    BY DEF I!vars
  <2>7. QED
    BY <2>1, <2>2, <2>3, <2>4, <2>5, <2>6 DEF I!Next
<1>4. QED
  BY <1>1, <1>2, <1>3

LEMMA LifeTyped == Holdings /\ LifeInv /\ ProcessTable => I!TypeOK
<1>. SUFFICES ASSUME Holdings, LifeInv, ProcessTable PROVE I!TypeOK
  OBVIOUS
<1>1. process \in [Instances -> I!Process]
  BY DEF LifeInv, ProcessesInv, ProcessInv, ProcessTable
<1>2. QED
  BY <1>1, HoldingsTyped DEF LifeInv, HandlersInv, I!TypeOK

LEMMA GatewayTyped == GatewayTypes => TypeOK
<1>. SUFFICES ASSUME GatewayTypes PROVE TypeOK
  OBVIOUS
<1>1. request \in [Requests -> Request]
  BY DEF GatewayTypes, LocalsOK, LocalOK
<1>2. QED
  BY <1>1, BooksTyped DEF GatewayTypes, Surroundings, TypeOK

\* The composition keeps its types: the tables, accounts and journals of both ledgers, the locals of
\* every request and the breakers, the processes and what they found and have still to recover.
THEOREM ServiceTypes ==
  ASSUME I!ConstantsOK
  PROVE  ServiceSpec => []TypesOK
<1> DEFINE Inv == GatewayTypes /\ Holdings /\ LifeInv /\ ProcessTable
<1>1. GatewayOK /\ SumsOK
  BY GatewayAssumption, SumsAssumption
<1>2. ServiceInit => Inv
  <2>1. I!Init => ProcessTable
    BY DEF I!Init, ProcessTable
  <2>2. QED
    BY <1>1, <2>1, InitTyped, InitHoldings, InitLife DEF ServiceInit
<1>3. Inv /\ [ServiceNext]_allVars => Inv'
  BY <1>1, NextTyped, NextHoldings, NextLife, NextTable, PartsStep
<1>4. Inv => TypesOK
  BY GatewayTyped, LifeTyped DEF TypesOK
<1>5. QED
  BY <1>2, <1>3, <1>4, PTL DEF ServiceSpec
=============================================================================

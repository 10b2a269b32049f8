--------------------------- MODULE ExchangeProofs ---------------------------
(***************************************************************************)
(* Proofs about module Exchange: the streamed answer (Relay), the body of  *)
(* the request (RequestBody), the reader (SSEReader) and the conversion of *)
(* messages (Messages), for any prompt, any number of tokens, any limits   *)
(* and any conversation.                                                   *)
(*                                                                         *)
(* RelayProofs has what an answer costs, and that whatever is said becomes *)
(* events that fit.  Here follow what its client is told, the body, and    *)
(* the theorems of both; then what sequences put together come to, and     *)
(* what becomes of a conversation of OpenAI's.  ContentProofs goes on with *)
(* the records of an answer and with Anthropic's conversations.            *)
(***************************************************************************)
EXTENDS Exchange, RelayProofs

(* The numbers that an OpenAI client is told.                              *)

\* Those of a final report that is true after n tokens.
TrueReport(w, n) == w # None /\ w.prompt = Prompt /\ w.completion = n

\* A flawless provider of consistent reports is honest, and what it told at the end is what the client is told, no sooner.
Numbers(p, m) ==
  m.flawless /\ Consistent =>
    /\ Honest(p.usage)
    /\ ~m.told => ~p.sent
    /\ m.told => p.sent /\ TrueReport(p.told, m.tokens)

\* Honest numbers stay honest.
LEMMA MergedHonest ==
  ASSUME NEW a \in UsageType, Honest(a), NEW u \in UsageType, Honest(u)
  PROVE  Honest(Merged(a, u))
<1>1. PICK b : b = Merged(a, u)
  OBVIOUS
<1>2. /\ b.input = (IF u.input = None THEN a.input ELSE u.input)
      /\ b.total = (IF u.total = None THEN a.total ELSE u.total)
      /\ b.creation = (IF u.creation > a.creation THEN u.creation ELSE a.creation)
      /\ b.read = (IF u.read > a.read THEN u.read ELSE a.read)
  BY <1>1 DEF Merged
<1>3. CachedTold \in Nat
  BY CachedIs
<1>. SUFFICES ASSUME Consistent PROVE Honest(b)
  BY <1>1 DEF Honest
<1>4. b.creation = 0 /\ b.input \in {None, Prompt - CachedTold} /\ b.read \in {0, CachedTold}
  BY <1>2, <1>3 DEF Honest
<1>5. b.input # None \/ b.total # None => u.read = CachedTold \/ a.read = CachedTold
  BY <1>2 DEF Honest
<1>6. u.read = CachedTold \/ a.read = CachedTold => b.read = CachedTold
  BY <1>2, <1>3 DEF Honest
<1>7. QED
  BY <1>4, <1>5, <1>6 DEF Honest

\* The sum of two parts is a number, or unknown.
LEMMA TwoAdded ==
  ASSUME NEW a \in Int, NEW b \in Int
  PROVE  CheckedSum(<<a, b>>) \in Counts
<1> DEFINE parts == <<a, b>>
<1>1. parts \in [1 .. 2 -> Int] /\ parts \in Seq(Int) /\ Len(parts) = 2
  OBVIOUS
<1>. HIDE DEF parts
<1>2. PICK total \in [0 .. 2 -> Int] :
        /\ total[0] = 0 /\ \A k \in 1 .. 2 : total[k] = total[k - 1] + parts[k]
        /\ CheckedSum(parts) = IF (\E i \in 1 .. 2 : parts[i] < 0) \/ total[2] > MaxInt THEN None ELSE total[2]
  BY <1>1, PartsAdded
<1>3. total[2] \in Int
  OBVIOUS
<1>4. CheckedSum(parts) \in Counts
  BY <1>2, <1>3 DEF Counts
<1>5. QED
  BY <1>4 DEF parts

\* The adapter adds as the event loop does.
LEMMA SumsAgree ==
  ASSUME NEW parts
  PROVE  OpenAI!CheckedSum(parts) = CheckedSum(parts)
BY DEF OpenAI!CheckedSum, CheckedSum

\* An honest usage with all of the input is put on the wire as it is.
LEMMA HonestTold ==
  ASSUME Consistent, NEW u \in UsageType, Honest(u), u.input = Prompt - CachedTold, NEW n \in Nat, u.output = n
  PROVE  TrueReport(OpenAI!wireUsageFromCanonical(u), n)
<1>1. /\ CachedTold \in Nat /\ Prompt \in Nat /\ MaxInt \in Nat /\ Prompt <= MaxInt /\ Prompt - CachedTold \in Nat
      /\ None \notin Int
  BY CachedIs, RelayAssumption
<1>2. u.creation = 0 /\ u.read = CachedTold /\ u.input # None /\ u.input \in Int
  BY <1>1 DEF Honest
<1>3. PICK prompt : prompt = OpenAI!CheckedSum(<<u.input, u.creation, u.read>>)
  OBVIOUS
<1>4. prompt = Prompt
  <2>1. u.creation \in Int /\ u.read \in Int
    BY <1>1, <1>2
  <2>2. CheckedSum(<<u.input, u.creation, u.read>>) =
          IF u.input < 0 \/ u.creation < 0 \/ u.read < 0 \/ u.input + u.creation + u.read > MaxInt
          THEN None ELSE u.input + u.creation + u.read
    BY <1>2, <2>1, ThreeAdded
  <2>3. QED
    BY <1>1, <1>2, <1>3, <2>2, SumsAgree
<1>5. PICK both : both = OpenAI!CheckedSum(<<prompt, u.output>>)
  OBVIOUS
<1>6. both \in Counts
  <2>1. prompt \in Int /\ u.output \in Int
    BY <1>1, <1>4
  <2>2. QED
    BY <1>5, <2>1, TwoAdded, SumsAgree
<1>7. PICK total, cached : total = (IF u.total # None THEN u.total ELSE both)
                           /\ cached = (IF prompt # None /\ u.read > 0 THEN u.read ELSE None)
  OBVIOUS
<1>8. total \in Counts /\ cached \in Counts
  BY <1>1, <1>2, <1>6, <1>7 DEF UsageType, Counts
<1>9. PICK w : w = [prompt |-> prompt, cached |-> cached, completion |-> u.output, total |-> total]
  OBVIOUS
<1>10. OpenAI!wireUsageFromCanonical(u) = w
  <2>1. prompt # None /\ u.output # None
    BY <1>1, <1>4
  <2>2. QED
    BY <1>2, <1>3, <1>5, <1>7, <1>9, <2>1 DEF OpenAI!wireUsageFromCanonical
<1>11. w \in [prompt : Counts, cached : Counts, completion : Counts, total : Counts]
  BY <1>1, <1>4, <1>8, <1>9 DEF Counts
<1>12. w.prompt = Prompt /\ w.completion = n
  BY <1>4, <1>9
<1>13. QED
  BY <1>10, <1>11, <1>12, RelayAssumption DEF TrueReport

\* What the last event of a record does to them.
LEMMA LastNumbers ==
  ASSUME made \in MadeType, FlawlessInv(loop, made), NEW s, SaidOK(s),
         NEW x, StreamOK(x), Numbers(x, made), NEW a, NEW e, EndsWith(s, a, e), Fits(x, e)
  PROVE  Numbers(Takes(x, e), Judged(s))
<1>1. PICK m : m = Judged(s)
  OBVIOUS
<1>2. /\ m.tokens = s.made.tokens /\ m.told = (made.told \/ s.final # None)
      /\ m.flawless => /\ made.flawless /\ (Consistent => Plausible(s))
                       /\ made.finished => ~Grows(s)
  BY <1>1, JudgedIs
<1>3. PICK q : q = Takes(x, e)
  OBVIOUS
<1>4. /\ q.usage = UsageThen(x, e)
      /\ q.told = IF Reports(e) /\ ~x.sent THEN OpenAI!wireUsageFromCanonical(UsageThen(x, e)) ELSE x.told
  BY <1>3, TakesFields
<1>5. (Reports(e) => q.sent = TRUE) /\ (~Reports(e) => q.sent = x.sent)
  BY <1>3, TakesIs
<1>6. Reports(e) <=> s.final # None
  BY DEF EndsWith, Reports
<1>. SUFFICES ASSUME m.flawless, Consistent PROVE Numbers(q, m)
  BY <1>1, <1>3 DEF Numbers
<1>7. /\ made.flawless /\ Plausible(s) /\ Honest(x.usage)
      /\ ~made.told => ~x.sent
      /\ made.told => x.sent /\ TrueReport(x.told, made.tokens)
  BY <1>2 DEF Numbers
<1>8. made.told => s.made.tokens = made.tokens
  <2>1. made.told => made.finished
    BY <1>7 DEF FlawlessInv
  <2>2. s.made.tokens \in Int /\ made.tokens \in Int /\ s.made.tokens >= made.tokens
    BY DEF SaidOK, MadeType
  <2>3. QED
    BY <1>2, <2>1, <2>2 DEF Grows
<1>9. x.usage \in UsageType /\ (e.usage # None => e.usage \in UsageType /\ Honest(e.usage))
  BY <1>7 DEF StreamOK, EndsWith, Sound
<1>10. Honest(q.usage) /\ q.usage \in UsageType
  <2>1. CASE e.usage = None
    BY <1>4, <1>7, <1>9, <2>1 DEF UsageThen
  <2>2. CASE e.usage # None
    <3>1. q.usage = Merged(x.usage, e.usage)
      BY <1>4, <2>2 DEF UsageThen
    <3>2. QED
      BY <1>7, <1>9, <2>2, <3>1, MergedHonest, MergedIs
  <2>3. QED
    BY <2>1, <2>2
<1>11. CASE s.final = None
  <2>1. ~Reports(e) /\ q.told = x.told /\ q.sent = x.sent
    BY <1>4, <1>5, <1>6, <1>11
  <2>2. m.told <=> made.told
    BY <1>2, <1>11
  <2>3. QED
    BY <1>2, <1>7, <1>8, <1>10, <2>1, <2>2 DEF Numbers
<1>12. CASE s.final # None
  <2>1. Reports(e) /\ q.sent = TRUE /\ m.told
    BY <1>2, <1>5, <1>6, <1>12
  <2>2. CASE x.sent
    <3>1. made.told /\ q.told = x.told
      BY <1>4, <1>7, <2>2
    <3>2. QED
      BY <1>2, <1>7, <1>8, <1>10, <2>1, <3>1 DEF Numbers
  <2>3. CASE ~x.sent
    <3>1. q.told = OpenAI!wireUsageFromCanonical(q.usage)
      BY <1>4, <2>1, <2>3
    <3>2. e.usage # None /\ e.usage.input = Prompt - CachedTold /\ e.usage.output = s.made.tokens
      BY <1>6, <1>7, <1>12 DEF EndsWith
    <3>3. PICK n \in Nat : n = s.made.tokens
      BY DEF SaidOK, MadeType
    <3>4. q.usage.input = Prompt - CachedTold /\ q.usage.output = n
      <4>1. q.usage = Merged(x.usage, e.usage)
        BY <1>4, <3>2 DEF UsageThen
      <4>2. Prompt - CachedTold # None /\ n # None
        BY CachedIs
      <4>3. QED
        BY <1>9, <3>2, <3>3, <4>1, <4>2, MergedIs
    <3>5. TrueReport(q.told, n)
      BY <1>10, <3>1, <3>4, HonestTold
    <3>6. QED
      BY <1>2, <1>10, <2>1, <3>3, <3>5 DEF Numbers
  <2>4. QED
    BY <2>2, <2>3
<1>13. QED
  BY <1>11, <1>12

\* And so all the events of one.
LEMMA NumbersTold ==
  ASSUME made \in MadeType, FlawlessInv(loop, made), NEW s, SaidOK(s),
         NEW p, StreamOK(p), Numbers(p, made),
         NEW events, OnlyContents(s, events) \/ ContentsThen(s, events), NEW q, Heard(p, events, q)
  PROVE  Numbers(q, Judged(s))
<1>1. PICK m : m = Judged(s)
  OBVIOUS
<1>2. CASE OnlyContents(s, events)
  <2>1. Quiet(p, q)
    BY <1>2, HeardQuiet DEF OnlyContents
  <2>2. /\ m.tokens = s.made.tokens /\ m.told = (made.told \/ s.final # None)
        /\ m.flawless => made.flawless /\ (made.told => s.record.type \in Heartbeats \cup Ends \/ s.final # None)
    BY <1>1, JudgedIs
  <2>3. m.flawless => made.flawless /\ ~made.told /\ ~m.told
    BY <1>2, <2>2 DEF OnlyContents
  <2>4. Numbers(q, m)
    BY <2>1, <2>3 DEF Numbers, Quiet
  <2>5. QED
    BY <1>1, <2>4
<1>3. CASE ContentsThen(s, events)
  <2>1. PICK a \in Seq(Contents) : \E e : events = a \o <<e>> /\ EndsWith(s, a, e)
    BY <1>3 DEF ContentsThen
  <2>2. PICK e : events = a \o <<e>> /\ EndsWith(s, a, e)
    BY <2>1
  <2>3. PICK x : Heard(p, a, x) /\ Fits(x, e) /\ q = Takes(x, e)
    <3>1. \E x : Heard(p, a, x) /\ Fits(x, e) /\ q = Takes(x, e)
      BY <2>2, HeardLast
    <3>2. QED
      BY <3>1
  <2>4. StreamOK(x)
    <3>1. PICK g : Hears(g, p, a, x)
      BY <2>3 DEF Heard
    <3>2. Len(a) \in Nat
      BY <2>1
    <3>3. \A k \in 0 .. Len(a) : StreamOK(g[k])
      BY <3>1, <3>2, HearsOK
    <3>4. g[Len(a)] = x
      BY <3>1 DEF Hears
    <3>5. QED
      BY <3>2, <3>3, <3>4
  <2>5. Quiet(p, x)
    BY <2>1, <2>3, HeardQuiet
  <2>6. Numbers(x, made)
    BY <2>5 DEF Numbers, Quiet
  <2>7. QED
    BY <2>2, <2>3, <2>4, <2>6, LastNumbers
<1>4. QED
  BY <1>2, <1>3

-----------------------------------------------------------------------------
(* The client's side of a stream.                                          *)

\* All of the stream is seen, and of a flawless and consistent one an OpenAI client knows what is charged.
Whole(v, m, l) ==
  /\ v.ended /\ v.deltas = m.deltas
  /\ client = "openai" /\ m.flawless /\ Consistent =>
       TrueReport(v.usage, l.usage.output) /\ l.usage.input + l.usage.creation + l.usage.read = Prompt

\* A stream under way is seen as decoder and provider have it; one that was a success was seen to its end.
Told(o, m, d, e, v, l) ==
  /\ o = None => \E p : Pictured(p, d, m) /\ Shown(p, e, v) /\ Numbers(p, m)
  /\ o # None => ~v.broken /\ (o.kind = "success" => Whole(v, m, l))

ToldInv == /\ passthrough => view = View
           /\ ~passthrough => Told(outcome, made, dec, enc, view, loop)

\* How an attempt goes on after a record, or ends.
Proceeds(l, delivered, m) ==
  /\ outcome' = None => delivered /\ ~l.protocolCompleted
  /\ outcome' # None /\ outcome'.kind = "success" =>
       /\ delivered /\ l.protocolCompleted
       /\ m.flawless /\ m.told /\ Consistent =>
            /\ loop'.usage.output = m.tokens
            /\ loop'.usage.input + loop'.usage.creation + loop'.usage.read = Prompt

\* A verdict that is not a success.
LEMMA VerdictIs ==
  ASSUME NEW verdict \in {"success", "channel_error", "neutral"}, NEW l, NEW exact \in BOOLEAN, Finish(verdict, l, exact)
  PROVE  outcome' # None /\ outcome'.kind = verdict /\ outcome'.exact = exact
<1>1. PICK o : o = [kind |-> verdict, exact |-> exact]
  OBVIOUS
<1>2. outcome' = o
  BY <1>1 DEF Finish, Outcome
<1>3. o \in [kind : {"success", "channel_error", "neutral"}, exact : BOOLEAN] /\ o.kind = verdict /\ o.exact = exact
  BY <1>1
<1>4. QED
  BY <1>2, <1>3, RelayAssumption

\* What is settled in the end is what was told.
LEMMA ConcludeTold ==
  ASSUME NEW m \in MadeType, NEW l \in LoopType, NumbersInv(l, m), FlawlessInv(l, m), Conclude(l)
  PROVE  /\ outcome' # None
         /\ outcome'.kind = "success" /\ m.flawless /\ m.told /\ Consistent =>
              /\ loop'.usage.output = m.tokens
              /\ loop'.usage.input + loop'.usage.creation + loop'.usage.read = Prompt
<1>1. PICK u : u = usageWithFinalAuthority(l.usage, l.finalUsage)
  OBVIOUS
<1>2. PICK exact \in BOOLEAN :
        exact = (l.finalUsageSeen /\ ~l.finalUsageInvalidated /\ usageReadyForExactSettlement(u))
  OBVIOUS
<1>3. PICK k : k = [l EXCEPT !.usage = u]
  OBVIOUS
<1>4. Finish(IF exact THEN "success" ELSE "channel_error", k, exact)
  BY <1>1, <1>2, <1>3 DEF Conclude
<1>5. PICK verdict \in {"success", "channel_error", "neutral"} :
        verdict = (IF exact THEN "success" ELSE "channel_error")
  OBVIOUS
<1>6. outcome' # None /\ outcome'.kind = verdict
  BY <1>4, <1>5, VerdictIs
<1>7. ASSUME exact, m.flawless, m.told, Consistent
      PROVE  loop'.usage.output = m.tokens /\ loop'.usage.input + loop'.usage.creation + loop'.usage.read = Prompt
  <2>1. loop' = k /\ k.usage = u
    BY <1>3, <1>4, <1>7 DEF Finish, LoopType
  <2>2. PICK a, f : a = l.usage /\ f = l.finalUsage
    OBVIOUS
  <2>3. a \in UsageType /\ f \in UsageType /\ Honest(a) /\ Within(f, a)
        /\ f.input = Prompt - CachedTold /\ f.output = m.tokens
    BY <1>7, <2>2 DEF LoopType, FlawlessInv, NumbersInv
  <2>4. CachedTold \in Nat /\ Prompt \in Nat /\ Prompt - CachedTold # None
    BY CachedIs
  <2>5. u.input = Prompt - CachedTold /\ u.output = m.tokens /\ u.creation = a.creation /\ u.read = a.read
    BY <1>1, <2>2, <2>3, <2>4 DEF usageWithFinalAuthority, UsageType
  <2>6. a.creation = 0 /\ a.read = CachedTold
    BY <1>7, <2>3, <2>4 DEF Honest, Within
  <2>7. QED
    BY <2>1, <2>4, <2>5, <2>6
<1>8. verdict = "success" => exact
  BY <1>5
<1>9. QED
  BY <1>6, <1>7, <1>8

\* A record leads on, or to an end.
LEMMA AdvanceTold ==
  ASSUME outcome = None, NEW events, NEW delivered \in BOOLEAN, NEW m \in MadeType,
         NEW l \in LoopType, NumbersInv(l, m), FlawlessInv(l, m), Advance(l, events, delivered)
  PROVE  Proceeds(l, delivered, m)
<1> DEFINE erred == \E i \in DOMAIN events : events[i].type = "error"
<1>1. \/ erred /\ Finish("channel_error", l, FALSE)
      \/ ~erred /\ ~delivered /\ Finish("neutral", l, FALSE)
      \/ ~erred /\ delivered /\ l.protocolCompleted /\ Conclude(l)
      \/ ~erred /\ delivered /\ ~l.protocolCompleted /\ loop' = l /\ UNCHANGED outcome
  BY DEF Advance
<1>2. CASE Finish("channel_error", l, FALSE) \/ Finish("neutral", l, FALSE)
  <2>1. PICK verdict \in {"channel_error", "neutral"} : Finish(verdict, l, FALSE)
    BY <1>2
  <2>2. outcome' # None /\ outcome'.kind = verdict
    BY <2>1, VerdictIs
  <2>3. QED
    BY <2>1, <2>2 DEF Proceeds
<1>3. CASE delivered /\ l.protocolCompleted /\ Conclude(l)
  BY <1>3, ConcludeTold DEF Proceeds
<1>4. CASE delivered /\ ~l.protocolCompleted /\ UNCHANGED outcome
  BY <1>4 DEF Proceeds
<1>5. QED
  BY <1>1, <1>2, <1>3, <1>4

\* The judgement of what was said is no part of the picture.
LEMMA JudgedPictured ==
  ASSUME NEW s, SaidOK(s), NEW q, NEW d, Pictured(q, d, s.made)
  PROVE  Pictured(q, d, Judged(s))
<1>1. PICK m : m = Judged(s)
  OBVIOUS
<1>2. m.deltas = s.made.deltas /\ m.open = s.made.open /\ m.next = s.made.next /\ m.started = s.made.started
  BY <1>1 DEF Judged, SaidOK, MadeType
<1>3. PICK k : k = s.made
  OBVIOUS
<1>4. Pictured(q, d, k) /\ m.deltas = k.deltas /\ m.open = k.open /\ m.next = k.next /\ m.started = k.started
  BY <1>2, <1>3
<1>5. Pictured(q, d, m)
  BY <1>4 DEF Pictured, InBlock
<1>6. QED
  BY <1>1, <1>5

\* The deltas of what was said are counted before the judgement.
LEMMA JudgedDeltas ==
  ASSUME NEW s, SaidOK(s)
  PROVE  Judged(s).deltas = s.made.deltas
BY DEF Judged, SaidOK, MadeType

\* A record that is encoded and written, or a part of it.
LEMMA RelayedTold ==
  ASSUME RelayInv, client \in Formats, outcome = None, ~passthrough, ToldInv,
         NEW s \in Sayings, SaidOK(s), NEW d \in Decode(s.record), DecodedOK(s, d), ~d.failed, Relayed(s, d)
  PROVE  Told(outcome', Judged(s), d.dec, enc', view', loop')
<1> DEFINE x == IF passthrough THEN [enc |-> enc, out |-> <<s.record>>] ELSE EncodeAll(d.events)
<1>1. PICK p : Pictured(p, dec, made) /\ Shown(p, enc, view) /\ Numbers(p, made)
  BY DEF ToldInv, Told
<1>2. OnlyContents(s, d.events) \/ ContentsThen(s, d.events)
  BY DEF DecodedOK
<1>3. made \in MadeType /\ FlawlessInv(loop, made) /\ channel \in Formats /\ StreamOK(p)
  BY <1>1 DEF RelayInv, Kept, Pictured
<1>4. PICK m : m = Judged(s)
  OBVIOUS
<1>5. PICK k : k = TrackAll(d.events)
  OBVIOUS
<1>6. /\ k \in LoopType /\ NumbersInv(k, m) /\ FlawlessInv(k, m)
      /\ k.protocolCompleted <=> s.record.type \in Ends
  BY <1>2, <1>4, <1>5, RecordKeeps
<1>7. PICK n \in 0 .. Len(x.out) :
        /\ view' = IF passthrough THEN view ELSE See(view, SubSeq(x.out, 1, n))
        /\ Advance([k EXCEPT !.committed = @ \/ x.out # <<>>], d.events, n = Len(x.out))
  BY <1>5 DEF Relayed
<1>8. enc' = x.enc /\ x = EncodeAll(d.events)
  BY DEF Relayed
<1>. HIDE DEF x
<1>9. PICK b \in BOOLEAN : b = (k.committed \/ x.out # <<>>)
  BY <1>6 DEF LoopType
<1>10. PICK l : l = [k EXCEPT !.committed = b]
  OBVIOUS
<1>11. /\ l \in LoopType /\ l.protocolCompleted = k.protocolCompleted
       /\ NumbersInv(l, m) /\ FlawlessInv(l, m)
  BY <1>6, <1>10, Committed
<1>12. PICK delivered \in BOOLEAN : delivered = (n = Len(x.out))
  OBVIOUS
<1>13. m \in MadeType /\ m.deltas = s.made.deltas /\ (m.flawless /\ s.record.type \in Ends => m.told)
  BY <1>4, JudgedIs, JudgedDeltas
<1>14. Proceeds(l, delivered, m)
  <2>1. Advance(l, d.events, delivered)
    BY <1>7, <1>9, <1>10, <1>12
  <2>2. QED
    BY <1>11, <1>13, <2>1, AdvanceTold
<1>15. PICK q : /\ Heard(p, d.events, q) /\ StreamOK(q) /\ q.deltas = s.made.deltas
                /\ s.record.type \in Ends => q.ended
                /\ s.record.type \notin Ends => Pictured(q, d.dec, s.made)
  <2>1. RecordTaken(p, s, d)
    BY <1>1, <1>3, SaidTaken
  <2>2. QED
    BY <2>1 DEF RecordTaken
<1>16. Numbers(q, m)
  BY <1>1, <1>2, <1>3, <1>4, <1>15, NumbersTold
<1>17. PICK R : x.out \in Seq(R) /\ \E u : Watched(view, x.out, u) /\ Shown(q, x.enc, u)
  <2>1. Len(d.events) \in Nat
    <3>1. CASE OnlyContents(s, d.events)
      BY <3>1 DEF OnlyContents
    <3>2. CASE ContentsThen(s, d.events)
      <4>1. PICK a \in Seq(Contents) : \E e : d.events = a \o <<e>> /\ EndsWith(s, a, e)
        BY <3>2 DEF ContentsThen
      <4>2. PICK e : d.events = a \o <<e>>
        BY <4>1
      <4>3. QED
        BY <4>2
    <3>3. QED
      BY <1>2, <3>1, <3>2
  <2>2. Conveys(EncodeAll(d.events), q)
    BY <1>1, <1>3, <1>15, <2>1, RecordTold
  <2>3. QED
    BY <1>8, <2>2 DEF Conveys
<1>18. PICK u : Watched(view, x.out, u) /\ Shown(q, x.enc, u)
  BY <1>17
<1>19. ~view'.broken /\ (delivered => view' = u)
  <2>1. view' = See(view, SubSeq(x.out, 1, n))
    BY <1>7
  <2>2. ~See(view, SubSeq(x.out, 1, n)).broken /\ (n = Len(x.out) => See(view, SubSeq(x.out, 1, n)) = u)
    BY <1>17, <1>18, WatchedPart
  <2>3. QED
    BY <1>12, <2>1, <2>2
<1>20. ASSUME outcome' = None PROVE \E y : Pictured(y, d.dec, m) /\ Shown(y, enc', view') /\ Numbers(y, m)
  <2>1. delivered /\ s.record.type \notin Ends
    BY <1>6, <1>11, <1>14, <1>20 DEF Proceeds
  <2>2. Pictured(q, d.dec, m)
    BY <1>4, <1>15, <2>1, JudgedPictured
  <2>3. QED
    BY <1>8, <1>16, <1>18, <1>19, <2>1, <2>2
<1>21. ASSUME outcome' # None, outcome'.kind = "success" PROVE Whole(view', m, loop')
  <2>1. /\ delivered /\ s.record.type \in Ends
        /\ m.flawless /\ Consistent =>
             /\ m.told /\ loop'.usage.output = m.tokens
             /\ loop'.usage.input + loop'.usage.creation + loop'.usage.read = Prompt
    BY <1>6, <1>11, <1>13, <1>14, <1>21 DEF Proceeds
  <2>2. view' = u /\ q.ended
    BY <1>15, <1>19, <2>1
  <2>3. u.ended /\ u.deltas = m.deltas
    BY <1>13, <1>15, <1>18, <2>2 DEF Shown
  <2>4. client = "openai" => u.usage = q.told
    BY <1>18 DEF Shown, ShownCalls
  <2>5. m.flawless /\ Consistent => TrueReport(q.told, m.tokens)
    BY <1>16, <2>1 DEF Numbers
  <2>6. QED
    BY <2>1, <2>2, <2>3, <2>4, <2>5 DEF Whole
<1>22. Told(outcome', m, d.dec, enc', view', loop')
  BY <1>19, <1>20, <1>21 DEF Told
<1>23. QED
  BY <1>4, <1>22

\* A stream that breaks off leaves the client with what it has seen.
LEMMA FailedTold ==
  ASSUME NEW l, NEW m, NEW d, NEW e, outcome = None, NEW p, Shown(p, enc, view),
         NEW gone \in BOOLEAN, Failed(gone), view' = view
  PROVE  Told(outcome', m, d, e, view', l)
<1>1. PICK verdict \in {"channel_error", "neutral"} : Finish(verdict, loop, FALSE)
  BY DEF Failed
<1>2. outcome' # None /\ outcome'.kind = verdict
  BY <1>1, VerdictIs
<1>3. ~view'.broken
  BY DEF Shown
<1>4. QED
  BY <1>1, <1>2, <1>3 DEF Told

\* A record that comes in,
LEMMA ReceiveTold ==
  ASSUME RelayInv, client \in Formats, outcome = None, ToldInv, ~passthrough, NEW s \in Sayings, Receive(s)
  PROVE  Told(outcome', made', dec', enc', view', loop')
<1>1. PICK d \in Decode(s.record) :
        /\ dec' = d.dec
        /\ \/ d.failed /\ (\E gone \in BOOLEAN : Failed(gone)) /\ UNCHANGED <<enc, view>>
           \/ ~d.failed /\ Relayed(s, d)
  BY DEF Receive
<1>2. made' = Judged(s)
  BY DEF Receive
<1>3. SaidOK(s) /\ DecodedOK(s, d)
  BY SaidDecoded
<1>4. CASE ~d.failed /\ Relayed(s, d)
  <2>1. Told(outcome', Judged(s), d.dec, enc', view', loop')
    BY <1>3, <1>4, RelayedTold
  <2>2. QED
    BY <1>1, <1>2, <2>1
<1>5. CASE (\E gone \in BOOLEAN : Failed(gone)) /\ UNCHANGED <<enc, view>>
  <2>1. PICK p : Shown(p, enc, view)
    BY DEF ToldInv, Told
  <2>2. PICK gone \in BOOLEAN : Failed(gone)
    BY <1>5
  <2>3. QED
    BY <1>5, <2>1, <2>2, FailedTold
<1>6. QED
  BY <1>1, <1>4, <1>5

\* The client's format does not change under way.
ClientOK == client \in Formats /\ (passthrough => channel = client)

\* What is told depends on no more than the stream's variables.
LEMMA ToldThen ==
  ASSUME channel' = channel, client' = client, details' = details, passthrough' = passthrough,
         passthrough => view' = View,
         ~passthrough => Told(outcome', made', dec', enc', view', loop')
  PROVE  ToldInv'
<1>1. CachedTold' = CachedTold /\ Consistent' = Consistent
  BY DEF CachedTold, Consistent
<1>2. ASSUME ~passthrough, outcome' = None
      PROVE  (\E p : Pictured(p, dec, made) /\ Shown(p, enc, view) /\ Numbers(p, made))'
  <2>1. PICK p : Pictured(p, dec', made') /\ Shown(p, enc', view') /\ Numbers(p, made')
    BY <1>2 DEF Told
  <2>2. Pictured(p, dec, made)'
    BY <2>1 DEF Pictured, Mirrors, InBlock, DecOK, StreamOK
  <2>3. Shown(p, enc, view)'
    BY <2>1 DEF Shown, ShownCalls, ShownBlocks, ViewOK
  <2>4. Numbers(p, made)'
    BY <1>1, <2>1 DEF Numbers, Honest, TrueReport
  <2>5. QED
    BY <2>2, <2>3, <2>4
<1>3. ASSUME ~passthrough, outcome' # None
      PROVE  ~view'.broken /\ (outcome'.kind = "success" => Whole(view, made, loop)')
  <2>1. ~view'.broken /\ (outcome'.kind = "success" => Whole(view', made', loop'))
    BY <1>3 DEF Told
  <2>2. Whole(view', made', loop') => Whole(view, made, loop)'
    BY <1>1 DEF Whole, TrueReport
  <2>3. QED
    BY <2>1, <2>2
<1>4. ~passthrough => Told(outcome, made, dec, enc, view, loop)'
  BY <1>2, <1>3 DEF Told
<1>5. QED
  BY <1>4 DEF ToldInv

\* Every step keeps what is told.
LEMMA ToldNext ==
  ASSUME RelayInv, ClientOK, ToldInv, [Next]_vars
  PROVE  ToldInv'
<1>1. client \in Formats
  BY DEF ClientOK
<1>2. ASSUME outcome = None, NEW s \in Sayings, Receive(s) PROVE ToldInv'
  <2>1. channel' = channel /\ client' = client /\ details' = details /\ passthrough' = passthrough
    BY <1>2 DEF Receive
  <2>2. passthrough => view' = View
    <3>1. passthrough => view' = view
      BY <1>2 DEF Receive, Relayed
    <3>2. QED
      BY <3>1 DEF ToldInv
  <2>3. ~passthrough => Told(outcome', made', dec', enc', view', loop')
    BY <1>1, <1>2, ReceiveTold
  <2>4. QED
    BY <2>1, <2>2, <2>3, ToldThen
<1>3. ASSUME NEW gone \in BOOLEAN, ReadFails(gone) PROVE ToldInv'
  <2>1. channel' = channel /\ client' = client /\ details' = details /\ passthrough' = passthrough /\ view' = view /\ outcome = None
        /\ Failed(gone)
    BY <1>3 DEF ReadFails
  <2>2. passthrough => view' = View
    BY <2>1 DEF ToldInv
  <2>3. ASSUME ~passthrough PROVE Told(outcome', made', dec', enc', view', loop')
    <3>1. PICK p : Shown(p, enc, view)
      BY <2>1, <2>3 DEF ToldInv, Told
    <3>2. QED
      BY <2>1, <3>1, FailedTold
  <2>4. QED
    BY <2>1, <2>2, <2>3, ToldThen
<1>4. CASE UNCHANGED vars
  <2>1. /\ channel' = channel /\ client' = client /\ details' = details /\ passthrough' = passthrough /\ view' = view
        /\ outcome' = outcome /\ made' = made /\ dec' = dec /\ enc' = enc /\ loop' = loop
    BY <1>4 DEF vars
  <2>2. (passthrough => view' = View) /\ (~passthrough => Told(outcome', made', dec', enc', view', loop'))
    BY <2>1 DEF ToldInv
  <2>3. QED
    BY <2>1, <2>2, ToldThen
<1>5. QED
  BY <1>2, <1>3, <1>4 DEF Next

\* The stream before the first record.
Silence == [begun |-> FALSE, kind |-> <<>>, open |-> {}, ended |-> FALSE, deltas |-> 0, usage |-> NoUsage,
            sent |-> FALSE, told |-> None]

\* Then nothing has been told, and all of it is seen.
LEMMA ToldInitial == Init => ToldInv
<1> SUFFICES ASSUME Init PROVE ToldInv
  OBVIOUS
<1>1. /\ channel \in Formats /\ client \in Formats /\ outcome = None /\ made = Made /\ view = View
      /\ channel = "openai" => dec = OpenAI!NewDecoder
      /\ channel = "anthropic" => dec = <<>>
      /\ client = "openai" => enc = OpenAI!NewEncoder
  BY DEF Init, Anthropic!NewBlocks
<1>2. PICK n : n = NoUsage
  OBVIOUS
<1>3. n \in UsageType /\ Honest(n)
  <2>1. n = [input |-> None, output |-> None, total |-> None, creation |-> 0, read |-> 0]
    BY <1>2 DEF NoUsage
  <2>2. n \in UsageType /\ n.input = None /\ n.output = None /\ n.total = None /\ n.creation = 0 /\ n.read = 0
    BY <2>1 DEF UsageType, Counts
  <2>3. QED
    BY <2>2, CachedIs DEF Honest
<1>4. PICK k : k = <<>>
  OBVIOUS
<1>5. DOMAIN k = {} /\ k \in [DOMAIN k -> Kinds]
  BY <1>4
<1>6. PICK p : p = Silence
  OBVIOUS
<1>7. p = [begun |-> FALSE, kind |-> k, open |-> {}, ended |-> FALSE, deltas |-> 0, usage |-> n,
           sent |-> FALSE, told |-> None]
  BY <1>2, <1>4, <1>6 DEF Silence
<1>8. /\ p.begun = FALSE /\ p.kind = k /\ p.open = {} /\ p.ended = FALSE /\ p.deltas = 0 /\ p.usage = n
      /\ p.sent = FALSE /\ p.told = None
  BY <1>7
<1>9. StreamOK(p)
  <2>1. p = [begun |-> p.begun, kind |-> p.kind, open |-> p.open, ended |-> p.ended, deltas |-> p.deltas,
             usage |-> p.usage, sent |-> p.sent, told |-> p.told]
    BY <1>7, <1>8
  <2>2. DOMAIN p.kind = {} /\ p.kind \in [DOMAIN p.kind -> Kinds]
    BY <1>5, <1>8
  <2>3. p.deltas \in Nat /\ p.usage \in UsageType /\ p.open = {} /\ p.told = None
    BY <1>3, <1>8
  <2>4. p.begun \in BOOLEAN /\ p.ended \in BOOLEAN /\ p.sent \in BOOLEAN
    <3>1. FALSE \in BOOLEAN
      OBVIOUS
    <3>2. QED
      BY <1>8, <3>1, Zenon
  <2>5. QED
    BY <2>1, <2>2, <2>3, <2>4 DEF StreamOK
<1>10. /\ made.deltas = 0 /\ made.next = 0 /\ made.open = None /\ made.started = FALSE /\ made.told = FALSE
  BY <1>1 DEF Made
<1>11. channel = "openai" => DecOK(dec) /\ Mirrors(dec, p)
  <2>. SUFFICES ASSUME channel = "openai" PROVE DecOK(dec) /\ Mirrors(dec, p)
    OBVIOUS
  <2>1. DecOK(dec)
    BY RelayInitial DEF RelayInv, Kept
  <2>2. dec = [started |-> FALSE, next |-> 0, textOpen |-> FALSE, textBlock |-> 0, tools |-> k]
    BY <1>1, <1>4 DEF OpenAI!NewDecoder
  <2>3. dec.started = FALSE /\ dec.textOpen = FALSE /\ dec.tools = k
    BY <2>2
  <2>4. Mirrors(dec, p)
    BY <1>5, <1>8, <2>3 DEF Mirrors
  <2>5. QED
    BY <2>1, <2>4
<1>12. channel = "anthropic" => InBlock(p, dec, made)
  <2>1. { b \in Nat : b < 0 } = {}
    OBVIOUS
  <2>2. QED
    BY <1>1, <1>4, <1>5, <1>8, <1>10, <2>1 DEF InBlock
<1>13. Pictured(p, dec, made)
  BY <1>8, <1>9, <1>10, <1>11, <1>12 DEF Pictured
<1>14. Shown(p, enc, view)
  <2>1. /\ ViewOK(view) /\ view.begun = FALSE /\ view.deltas = 0 /\ view.tools = 0 /\ view.open = {}
        /\ view.done = {} /\ view.ended = FALSE /\ view.usage = None /\ view.broken = FALSE
    BY <1>1 DEF View, ViewOK
  <2>2. client = "openai" => ShownCalls(p, enc, view)
    <3>. SUFFICES ASSUME client = "openai" PROVE ShownCalls(p, enc, view)
      OBVIOUS
    <3>1. enc = [usage |-> n, usageSent |-> FALSE, toolIndex |-> k, nextTool |-> 0]
      BY <1>1, <1>2, <1>4 DEF OpenAI!NewEncoder, OpenAI!NoUsage, NoUsage
    <3>2. enc.toolIndex = k /\ enc.nextTool = 0
      BY <3>1
    <3>3. enc = [usage |-> p.usage, usageSent |-> p.sent, toolIndex |-> enc.toolIndex, nextTool |-> enc.nextTool]
      BY <1>8, <3>1, <3>2
    <3>4. QED
      BY <1>5, <1>8, <2>1, <3>2, <3>3 DEF ShownCalls
  <2>3. client = "anthropic" => ShownBlocks(p, view)
    BY <1>5, <1>8, <2>1 DEF ShownBlocks
  <2>4. QED
    BY <1>8, <2>1, <2>2, <2>3 DEF Shown
<1>15. Numbers(p, made)
  BY <1>3, <1>8, <1>10 DEF Numbers
<1>16. QED
  BY <1>1, <1>13, <1>14, <1>15 DEF ToldInv, Told

\* Then the client's side is as it should be.
LEMMA ToldIsWhole == ToldInv /\ RelayInv => ToldWhole
<1> SUFFICES ASSUME ToldInv, RelayInv PROVE ToldWhole
  OBVIOUS
<1>1. ~view.broken
  <2>1. CASE passthrough
    BY <2>1 DEF ToldInv, View
  <2>2. CASE ~passthrough
    BY <2>2 DEF ToldInv, Told, Shown
  <2>3. QED
    BY <2>1, <2>2
<1>2. SuccessIsWhole
  <2>1. SUFFICES ASSUME outcome # None, outcome.kind = "success", ~passthrough
                 PROVE  /\ view.ended /\ view.deltas = made.deltas
                        /\ client = "openai" /\ made.flawless /\ Consistent =>
                             /\ view.usage # None
                             /\ view.usage.completion = loop.usage.output
                             /\ view.usage.prompt = loop.usage.input + loop.usage.creation + loop.usage.read
    BY DEF SuccessIsWhole
  <2>2. QED
    BY <2>1 DEF ToldInv, Told, Whole, TrueReport
<1>3. QED
  BY <1>1, <1>2 DEF ToldWhole, ProtocolKept

-----------------------------------------------------------------------------
(* What the client's parser has seen.                                      *)

\* Nothing more, if nothing more is written.
LEMMA SeesNothing ==
  ASSUME NEW v, NEW e, Len(e) = 0
  PROVE  See(v, e) = v
<1> DEFINE w == [k \in 0 .. 0 |-> v]
<1>1. w = [k \in 0 .. 0 |-> w[k]] /\ w[0] = v /\ 1 .. 0 = {}
  OBVIOUS
<1>. HIDE DEF w
<1>2. Len(e) \in Nat /\ Sees(w, v, e, v)
  BY <1>1 DEF Sees
<1>3. QED
  BY <1>2, Seen

\* An attempt that ends does not take back that the answer is committed,
LEMMA FinishCommits ==
  ASSUME NEW l \in LoopType, NEW verdict, NEW exact, Finish(verdict, l, exact)
  PROVE  loop'.committed = l.committed
BY DEF Finish, LoopType

\* nor does one that goes on.
LEMMA AdvanceCommits ==
  ASSUME NEW l \in LoopType, NEW events, NEW delivered, Advance(l, events, delivered)
  PROVE  loop'.committed = l.committed
<1>1. CASE Conclude(l)
  <2>1. PICK u, verdict, exact : Finish(verdict, [l EXCEPT !.usage = u], exact)
    BY <1>1 DEF Conclude
  <2>2. PICK k : k = [l EXCEPT !.usage = u]
    OBVIOUS
  <2>3. k.committed = l.committed
    BY <2>2 DEF LoopType
  <2>4. loop'.committed = k.committed
    BY <2>1, <2>2 DEF Finish, LoopType
  <2>5. QED
    BY <2>3, <2>4
<1>2. CASE Finish("channel_error", l, FALSE) \/ Finish("neutral", l, FALSE)
  BY <1>2, FinishCommits
<1>3. CASE loop' = l
  BY <1>3
<1>4. QED
  BY <1>1, <1>2, <1>3 DEF Advance

\* Nothing is seen of an answer that is not committed.
SeenCommitted == view.begun => loop.committed

\* The events of a record leave that alone.
LEMMA TrackCommits ==
  ASSUME loop \in LoopType, NEW s, NEW events, OnlyContents(s, events) \/ ContentsThen(s, events)
  PROVE  TrackAll(events).committed = loop.committed
<1>1. CASE OnlyContents(s, events)
  <2>1. TrackAll(events) = Doubted(loop)
    BY <1>1, TrackContents DEF OnlyContents
  <2>2. QED
    BY <2>1, DoubtedFields
<1>2. CASE ContentsThen(s, events)
  <2>1. PICK q \in Seq(Contents) : \E e : events = q \o <<e>> /\ EndsWith(s, q, e)
    BY <1>2 DEF ContentsThen
  <2>2. PICK e : events = q \o <<e>>
    BY <2>1
  <2>3. PICK l \in LoopType : l = (IF q = <<>> THEN loop ELSE Doubted(loop)) /\ l.committed = loop.committed
    BY DoubtedFields
  <2>4. TrackAll(events) = Track(l, e)
    BY <2>2, <2>3, TrackLast
  <2>5. Track(l, e).committed = l.committed
    BY TrackFields
  <2>6. QED
    BY <2>3, <2>4, <2>5
<1>3. QED
  BY <1>1, <1>2

\* A record that is written commits it,
LEMMA RelayedSeen ==
  ASSUME RelayInv, outcome = None, SeenCommitted, NEW s, SaidOK(s), NEW d, DecodedOK(s, d), ~d.failed, Relayed(s, d)
  PROVE  SeenCommitted'
<1> DEFINE x == IF passthrough THEN [enc |-> enc, out |-> <<s.record>>] ELSE EncodeAll(d.events)
<1>1. PICK k : k = TrackAll(d.events)
  OBVIOUS
<1>2. k \in LoopType /\ k.committed = loop.committed
  <2>1. OnlyContents(s, d.events) \/ ContentsThen(s, d.events)
    BY DEF DecodedOK
  <2>2. loop \in LoopType
    BY DEF RelayInv, Kept
  <2>3. QED
    BY <1>1, <2>1, <2>2, RecordKeeps, TrackCommits
<1>3. PICK n \in 0 .. Len(x.out) :
        /\ view' = IF passthrough THEN view ELSE See(view, SubSeq(x.out, 1, n))
        /\ Advance([k EXCEPT !.committed = @ \/ x.out # <<>>], d.events, n = Len(x.out))
  BY <1>1 DEF Relayed
<1>. HIDE DEF x
<1>4. PICK b \in BOOLEAN : b = (k.committed \/ x.out # <<>>)
  BY <1>2 DEF LoopType
<1>5. PICK l : l = [k EXCEPT !.committed = b]
  OBVIOUS
<1>6. l \in LoopType /\ l.committed = b
  BY <1>2, <1>5 DEF LoopType
<1>7. loop'.committed = b
  BY <1>3, <1>4, <1>5, <1>6, AdvanceCommits
<1>8. CASE x.out # <<>>
  BY <1>4, <1>7, <1>8 DEF SeenCommitted
<1>9. CASE x.out = <<>>
  <2>1. n = 0
    BY <1>9
  <2>2. Len(SubSeq(x.out, 1, n)) = 0
    BY <1>9, <2>1
  <2>3. view' = view
    BY <1>3, <2>2, SeesNothing
  <2>4. QED
    BY <1>2, <1>4, <1>7, <2>3 DEF SeenCommitted, RelayInv, Kept, LoopType
<1>10. QED
  BY <1>8, <1>9

\* and so it stays, whatever comes next.
LEMMA SeenNext ==
  ASSUME RelayInv, SeenCommitted, [Next]_vars
  PROVE  SeenCommitted'
<1>1. loop \in LoopType
  BY DEF RelayInv, Kept
<1>2. ASSUME outcome = None, NEW s \in Sayings, Receive(s) PROVE SeenCommitted'
  <2>1. PICK d \in Decode(s.record) :
          \/ d.failed /\ (\E gone \in BOOLEAN : Failed(gone)) /\ UNCHANGED <<enc, view>>
          \/ ~d.failed /\ Relayed(s, d)
    BY <1>2 DEF Receive
  <2>2. SaidOK(s) /\ DecodedOK(s, d)
    BY SaidDecoded
  <2>3. CASE ~d.failed /\ Relayed(s, d)
    BY <1>2, <2>2, <2>3, RelayedSeen
  <2>4. CASE (\E gone \in BOOLEAN : Failed(gone)) /\ UNCHANGED <<enc, view>>
    BY <1>1, <2>4, FinishCommits DEF Failed, SeenCommitted
  <2>5. QED
    BY <2>1, <2>3, <2>4
<1>3. ASSUME NEW gone \in BOOLEAN, ReadFails(gone) PROVE SeenCommitted'
  <2>1. view' = view
    BY <1>3 DEF ReadFails
  <2>2. Finish(IF gone THEN "neutral" ELSE "channel_error", loop, FALSE)
    BY <1>3 DEF ReadFails, Failed
  <2>3. QED
    BY <1>1, <2>1, <2>2, FinishCommits DEF SeenCommitted
<1>4. CASE UNCHANGED vars
  BY <1>4 DEF vars, SeenCommitted
<1>5. QED
  BY <1>2, <1>3, <1>4 DEF Next

\* The variables of a stream have their types.
LEMMA StreamTypes == RelayInv /\ ClientOK /\ SeenCommitted => TypeOK
<1>. SUFFICES ASSUME RelayInv, ClientOK, SeenCommitted PROVE TypeOK
  OBVIOUS
<1>1. /\ loop.finalUsageSeen \in BOOLEAN /\ loop.finalUsageInvalidated \in BOOLEAN
      /\ loop.protocolCompleted \in BOOLEAN
  BY DEF RelayInv, Kept, LoopType
<1>2. made.tokens \in 0 .. MaxTokens
  BY DEF RelayInv, Kept, MadeType
<1>3. outcome # None => /\ outcome.kind \in {"success", "channel_error", "neutral"}
                        /\ outcome.exact = (outcome.kind = "success")
  BY DEF RelayInv, Kept
<1>4. QED
  BY <1>1, <1>2, <1>3 DEF TypeOK, RelayInv, ClientOK, SeenCommitted

-----------------------------------------------------------------------------
(* The body of the request.                                                *)

\* An accepted body is the client's, normalized to the limit of the hold, which is a number
\* that a client could have asked for: the fallback does not mistake it for null.
BodyKept == IF phase = "accepted"
        THEN B!Parses /\ ~body.odd /\ hold \in Asked \cup {ModelLimit} /\ raw = B!Normalized(hold)
        ELSE sent = B!NoBody

BodyInv == /\ body \in B!Body /\ body.extra /\ format \in B!Formats
           /\ BodyKept /\ B!LimitEnforced /\ B!SentAsMeant

\* The values that the limit fields of a body may have.
LimitValues == B!Limits \cup {{ModelLimit}}

\* A hold that is priced is a limit a body may state.
LEMMA HoldIsAValue ==
  ASSUME NEW limit \in Asked \cup {ModelLimit}
  PROVE  {limit} \in LimitValues /\ {} \in LimitValues
BY DEF LimitValues, B!Limits

\* Requested limits are those of a field, and what is held is one of them or the model's.
LEMMA OutputLimitAsked ==
  ASSUME B!ConstantsOK, body \in B!Body
  PROVE  B!OutputLimit \subseteq Asked \cup {ModelLimit}
<1>1. /\ body.max_tokens \in LimitValues /\ body.max_completion_tokens \in LimitValues
  BY DEF B!Body, LimitValues
<1>2. \A v \in LimitValues : v \ {B!Null} \subseteq Asked \cup {ModelLimit}
  BY DEF LimitValues, B!Limits
<1>3. B!Requested \subseteq Asked \cup {ModelLimit}
  BY <1>1, <1>2 DEF B!Requested, B!Given
<1>4. QED
  BY <1>3 DEF B!OutputLimit

\* A normalized body is the client's, but for one limit, in the field the client used.
LEMMA NormalizedFields ==
  ASSUME body \in B!Body, format \in B!Formats, NEW limit \in Asked \cup {ModelLimit}
  PROVE  LET b == B!Normalized(limit) IN
         /\ b \in B!Body
         /\ b.stream = body.stream /\ b.n = body.n /\ b.odd = body.odd /\ b.extra = body.extra
         /\ format = "openai" =>
              /\ b.max_completion_tokens = IF B!Given(body.max_completion_tokens) # {} THEN {limit} ELSE {}
              /\ b.usage = IF body.stream THEN "on" ELSE body.usage
         /\ format = "anthropic" => b.max_tokens = {limit}
<1>1. {limit} \in LimitValues /\ {} \in LimitValues
  BY HoldIsAValue
<1>2. CASE format = "openai"
  <2>. DEFINE v == IF B!Given(body.max_completion_tokens) # {} THEN {limit} ELSE {}
              w == IF B!Given(body.max_completion_tokens) # {} THEN {} ELSE {limit}
              u == IF body.stream THEN "on" ELSE body.usage
              c == [body EXCEPT !.max_completion_tokens = v, !.max_tokens = w, !.usage = u]
  <2>1. v \in LimitValues /\ w \in LimitValues /\ u \in {"none", "on", "off"}
    BY <1>1 DEF B!Body
  <2>2. B!Normalized(limit) = c
    BY <1>2 DEF B!Normalized
  <2>. HIDE DEF v, w, u
  <2>3. c \in B!Body
    BY <2>1 DEF B!Body, LimitValues
  <2>4. /\ c.max_completion_tokens = v /\ c.usage = u
        /\ c.stream = body.stream /\ c.n = body.n /\ c.odd = body.odd /\ c.extra = body.extra
    BY DEF B!Body
  <2>5. QED
    BY <1>2, <2>2, <2>3, <2>4 DEF v, u
<1>3. CASE format = "anthropic"
  <2>1. [body EXCEPT !.max_tokens = {limit}] \in B!Body
    BY <1>1 DEF B!Body, LimitValues
  <2>2. QED
    BY <1>3, <2>1 DEF B!Body, B!Normalized
<1>4. QED
  BY <1>2, <1>3 DEF B!Formats

\* What a candidate is to be sent, before the limit is put into its field.
LEMMA CandidateFields ==
  ASSUME B!ConstantsOK, BodyInv, phase = "accepted", NEW t \in B!Target
  PROVE  LET b == B!Candidate(t) IN
         /\ b \in B!Body
         /\ b.model = t.model /\ b.stream = body.stream /\ ~b.odd
         /\ t.format = "openai" => (body.stream => b.usage = "on") /\ b.n # "two"
         /\ t.format = format => b.extra
         /\ t.format = "anthropic" => b.max_tokens = {hold}
         /\ format = "openai" /\ t.format = "openai" /\ B!Given(body.max_completion_tokens) # {} =>
              B!Fallback(b) = "max_completion_tokens"
<1>1. /\ body \in B!Body /\ body.extra /\ format \in B!Formats /\ ~body.odd /\ B!Parses
      /\ hold \in Asked \cup {ModelLimit} /\ raw = B!Normalized(hold)
  BY DEF BodyInv, BodyKept
<1>2. t.format \in B!Formats /\ t.model \in {"public", "upstream"}
  BY DEF B!Target
<1>3. CASE t.format = format
  <2>1. B!Candidate(t) = [raw EXCEPT !.model = t.model]
    BY <1>3 DEF B!Candidate
  <2>3. /\ raw \in B!Body
        /\ raw.stream = body.stream /\ raw.n = body.n /\ ~raw.odd /\ raw.extra
        /\ format = "openai" =>
             /\ raw.max_completion_tokens = IF B!Given(body.max_completion_tokens) # {} THEN {hold} ELSE {}
             /\ raw.usage = IF body.stream THEN "on" ELSE body.usage
        /\ format = "anthropic" => raw.max_tokens = {hold}
    BY <1>1, NormalizedFields
  <2>4. format = "openai" => body.n # "two"
    BY <1>1 DEF B!Parses
  <2>5. B!Given({hold}) # {}
    BY <1>1 DEF B!Given, B!Null, B!ConstantsOK
  <2>6. /\ B!Candidate(t) \in B!Body /\ B!Candidate(t).model = t.model
        /\ B!Candidate(t).stream = raw.stream /\ B!Candidate(t).n = raw.n /\ B!Candidate(t).odd = raw.odd
        /\ B!Candidate(t).extra = raw.extra /\ B!Candidate(t).usage = raw.usage
        /\ B!Candidate(t).max_tokens = raw.max_tokens
        /\ B!Candidate(t).max_completion_tokens = raw.max_completion_tokens
    <3>1. [raw EXCEPT !.model = t.model] \in B!Body
      BY <1>2, <2>3 DEF B!Body
    <3>2. QED
      BY <2>1, <2>3, <3>1 DEF B!Body
  <2>7. QED
    BY <1>1, <1>3, <2>3, <2>4, <2>5, <2>6 DEF B!Fallback
<1>4. CASE t.format # format
  <2>1. B!Candidate(t) = B!Built(t)
    BY <1>4 DEF B!Candidate
  <2>2. {hold} \in LimitValues /\ {} \in LimitValues /\ body.stream \in BOOLEAN
    BY <1>1, HoldIsAValue DEF B!Body
  <2>. DEFINE u == IF t.format = "openai" /\ body.stream THEN "on" ELSE "none"
              c == [B!NoBody EXCEPT !.model = t.model, !.max_tokens = {hold}, !.stream = body.stream, !.usage = u]
  <2>3. u \in {"none", "on", "off"} /\ B!Built(t) = c
    BY DEF B!Built
  <2>4. B!NoBody \in B!Body
    BY <2>2 DEF B!NoBody, B!Body, LimitValues
  <2>. HIDE DEF u
  <2>5. c \in B!Body
    BY <1>2, <2>2, <2>3, <2>4 DEF B!Body, LimitValues
  <2>6. /\ c.model = t.model /\ c.max_tokens = {hold} /\ c.stream = body.stream /\ c.usage = u
        /\ ~c.odd /\ c.n = "absent"
    BY DEF B!NoBody
  <2>7. c.max_completion_tokens = {}
    BY DEF B!NoBody
  <2>8. QED
    BY <1>4, <2>1, <2>3, <2>5, <2>6, <2>7 DEF u
<1>5. QED
  BY <1>3, <1>4

\* The patched body limits the output in one field only and is else the same.
LEMMA PatchedFields ==
  ASSUME NEW b \in B!Body, NEW field \in B!Fields
  PROVE  LET c == B!Patched(b, field) IN
         /\ B!LimitFields(c) = {field} /\ c[field] = {hold}
         /\ c.model = b.model /\ c.stream = b.stream /\ c.odd = b.odd /\ c.usage = b.usage
         /\ c.extra = b.extra /\ c.n = b.n
<1>1. CASE field = "max_tokens"
  <2>1. /\ B!Patched(b, field).max_tokens = {hold} /\ B!Patched(b, field).max_completion_tokens = {}
    BY <1>1 DEF B!Patched, B!Body
  <2>2. B!LimitFields(B!Patched(b, field)) = {field}
    BY <1>1, <2>1 DEF B!LimitFields, B!Fields
  <2>3. QED
    BY <1>1, <2>1, <2>2 DEF B!Patched, B!Body
<1>2. CASE field = "max_completion_tokens"
  <2>1. /\ B!Patched(b, field).max_tokens = {} /\ B!Patched(b, field).max_completion_tokens = {hold}
    BY <1>2 DEF B!Patched, B!Body
  <2>2. B!LimitFields(B!Patched(b, field)) = {field}
    BY <1>2, <2>1 DEF B!LimitFields, B!Fields
  <2>3. QED
    BY <1>2, <2>1, <2>2 DEF B!Patched, B!Body
<1>3. QED
  BY <1>1, <1>2 DEF B!Fields

-----------------------------------------------------------------------------
(* The invariant.                                                          *)

\* Before the request is accepted nothing is sent,
LEMMA InitBody == B!ConstantsOK /\ B!Init => BodyInv
<1>. SUFFICES ASSUME B!ConstantsOK, B!Init
              PROVE  BodyInv
  OBVIOUS
<1>1. body \in B!Body /\ body.extra /\ format \in B!Formats
  BY DEF B!Init, B!Body
<1>2. QED
  BY <1>1 DEF B!Init, BodyInv, BodyKept, B!LimitEnforced, B!SentAsMeant

\* An attempt sends what was held, or nothing.
LEMMA AttemptSound ==
  ASSUME B!ConstantsOK, BodyInv, NEW t \in B!Target,
         t.byChannel \in B!Policies, t.byModel \in B!Policies, B!Attempt(t)
  PROVE  B!LimitEnforced' /\ B!SentAsMeant'
<1>. DEFINE b == B!Candidate(t)
<1>1. /\ phase = "accepted" /\ target' = t
      /\ UNCHANGED <<format, body, strict, phase, hold, raw>>
  BY DEF B!Attempt
<1>2. /\ b \in B!Body
      /\ b.model = t.model /\ b.stream = body.stream /\ ~b.odd
      /\ t.format = "openai" => (body.stream => b.usage = "on") /\ b.n # "two"
      /\ t.format = format => b.extra
      /\ t.format = "anthropic" => b.max_tokens = {hold}
      /\ format = "openai" /\ t.format = "openai" /\ B!Given(body.max_completion_tokens) # {} =>
           B!Fallback(b) = "max_completion_tokens"
  BY <1>1, CandidateFields
<1>. HIDE DEF b
<1>3. CASE t.format = "anthropic"
  <2>1. sent' = b
    BY <1>3 DEF B!Attempt, b
  <2>2. QED
    BY <1>1, <1>2, <1>3, <2>1 DEF B!LimitEnforced, B!SentAsMeant
<1>4. CASE t.format = "openai" /\ B!Resolve(t, b) = {}
  <2>1. sent' = B!NoBody
    BY <1>4 DEF B!Attempt, b
  <2>2. QED
    BY <2>1 DEF B!LimitEnforced, B!SentAsMeant, B!NoBody
<1>5. CASE t.format = "openai" /\ B!Resolve(t, b) # {}
  <2>1. PICK field \in B!Resolve(t, b) : sent' = B!Patched(b, field)
    BY <1>5 DEF B!Attempt, b
  <2>2. /\ field \in B!Fields
        /\ t.byChannel # {} => {field} = t.byChannel
        /\ t.byChannel = {} /\ t.byModel # {} => {field} = t.byModel
        /\ t.byChannel = {} /\ t.byModel = {} => ~strict /\ field = B!Fallback(b)
    BY DEF B!Resolve, B!Policies, B!Fields, B!Fallback
  <2>3. /\ B!LimitFields(sent') = {field} /\ sent'[field] = {hold}
        /\ sent'.model = b.model /\ sent'.stream = b.stream /\ sent'.odd = b.odd
        /\ sent'.usage = b.usage /\ sent'.extra = b.extra /\ sent'.n = b.n
    BY <1>2, <2>1, <2>2, PatchedFields
  <2>4. B!LimitEnforced'
    BY <1>1, <1>2, <1>5, <2>2, <2>3 DEF B!LimitEnforced, B!LimitFields
  <2>5. B!SentAsMeant'
    BY <1>1, <1>2, <1>5, <2>3 DEF B!SentAsMeant
  <2>6. QED
    BY <2>4, <2>5
<1>6. QED
  BY <1>3, <1>4, <1>5 DEF B!Target, B!Formats

\* and afterwards only what was held.
LEMMA NextBody == B!ConstantsOK /\ BodyInv /\ [B!Next]_(B!vars) => BodyInv'
<1>. SUFFICES ASSUME B!ConstantsOK, BodyInv, [B!Next]_(B!vars)
              PROVE  BodyInv'
  OBVIOUS
<1>1. CASE B!Accept
  <2>1. UNCHANGED <<format, body, strict, target, sent>> /\ phase = "new"
    BY <1>1 DEF B!Accept
  <2>2. BodyKept'
    <3>1. CASE B!Accepts
      <4>1. PICK limit \in B!OutputLimit : phase' = "accepted" /\ hold' = limit /\ raw' = B!Normalized(limit)
        BY <1>1, <3>1 DEF B!Accept
      <4>2. hold' \in Asked \cup {ModelLimit}
        BY <4>1, OutputLimitAsked DEF BodyInv
      <4>3. raw' = B!Normalized(hold)'
        BY <2>1, <4>1 DEF B!Normalized, B!Given
      <4>4. QED
        <5>1. B!Parses' /\ ~body'.odd
          BY <2>1, <3>1 DEF B!Accepts, B!Parses, B!Given
        <5>2. QED
          BY <4>1, <4>2, <4>3, <5>1 DEF BodyKept
    <3>2. CASE ~B!Accepts
      BY <1>1, <2>1, <3>2 DEF B!Accept, BodyKept, BodyInv
    <3>3. QED
      BY <3>1, <3>2
  <2>3. sent = B!NoBody
    BY <2>1 DEF BodyInv, BodyKept
  <2>4. QED
    BY <2>1, <2>2, <2>3 DEF BodyInv, B!LimitEnforced, B!SentAsMeant
<1>2. ASSUME NEW t \in [format : B!Formats, model : {"public", "upstream"}, byChannel : B!Policies, byModel : B!Policies],
             B!Attempt(t)
      PROVE  BodyInv'
  <2>1. t \in B!Target /\ t.byChannel \in B!Policies /\ t.byModel \in B!Policies
    BY DEF B!Target, B!Policies
  <2>2. B!LimitEnforced' /\ B!SentAsMeant'
    BY <1>2, <2>1, AttemptSound
  <2>3. phase = "accepted" /\ UNCHANGED <<format, body, strict, phase, hold, raw>>
    BY <1>2 DEF B!Attempt
  <2>4. QED
    BY <2>2, <2>3 DEF BodyInv, BodyKept, B!Parses, B!Normalized, B!Given
<1>3. CASE UNCHANGED B!vars
  BY <1>3 DEF B!vars, BodyInv, BodyKept, B!Parses, B!Normalized, B!Given, B!LimitEnforced, B!LimitFields, B!SentAsMeant
<1>4. QED
  BY <1>1, <1>2, <1>3 DEF B!Next

\* The bodies that are kept and sent are bodies, and what is held is a limit.
LEMMA BodyTypes ==
  ASSUME B!ConstantsOK, BodyInv, B!TypeOK, [B!Next]_(B!vars)
  PROVE  B!TypeOK'
<1>1. CASE B!Accept
  <2>1. UNCHANGED <<body, target, sent>>
    BY <1>1 DEF B!Accept
  <2>2. CASE UNCHANGED <<hold, raw>>
    BY <2>1, <2>2 DEF B!TypeOK, B!Body
  <2>3. ASSUME NEW limit \in B!OutputLimit, hold' = limit, raw' = B!Normalized(limit)
        PROVE  B!TypeOK'
    <3>1. limit \in Asked \cup {ModelLimit}
      BY OutputLimitAsked DEF BodyInv
    <3>2. raw' \in B!Body
      BY <2>3, <3>1, NormalizedFields DEF BodyInv
    <3>3. limit \in 0 .. ModelLimit
      BY <2>3 DEF B!OutputLimit, B!ConstantsOK
    <3>4. body' \in B!Body /\ sent' \in B!Body /\ target' \in B!Target
      BY <2>1 DEF B!TypeOK
    <3>5. QED
      BY <2>3, <3>2, <3>3, <3>4 DEF B!TypeOK
  <2>4. QED
    BY <1>1, <2>2, <2>3 DEF B!Accept
<1>2. ASSUME NEW t \in [format : B!Formats, model : {"public", "upstream"}, byChannel : B!Policies, byModel : B!Policies],
             B!Attempt(t)
      PROVE  B!TypeOK'
  <2>1. t \in B!Target
    BY DEF B!Target, B!Policies
  <2>2. phase = "accepted" /\ target' = t /\ UNCHANGED <<body, hold, raw>>
    BY <1>2 DEF B!Attempt
  <2>3. hold \in Asked \cup {ModelLimit}
    BY <2>2 DEF BodyInv, BodyKept
  <2>4. {hold} \in LimitValues /\ {} \in LimitValues
    BY <2>3, HoldIsAValue
  <2>5. B!NoBody \in B!Body
    BY <2>4 DEF B!NoBody, B!Body, LimitValues
  <2>6. B!Candidate(t) \in B!Body
    BY <2>1, <2>2, CandidateFields
  <2>7. ASSUME NEW b \in B!Body, NEW field PROVE B!Patched(b, field) \in B!Body
    BY <2>4 DEF B!Patched, B!Body, LimitValues
  <2>8. sent' \in B!Body
    BY <1>2, <2>5, <2>6, <2>7 DEF B!Attempt
  <2>9. QED
    BY <2>1, <2>2, <2>8 DEF B!TypeOK
<1>3. CASE UNCHANGED B!vars
  <2>1. /\ body' \in B!Body /\ raw' \in B!Body /\ sent' \in B!Body /\ target' \in B!Target
        /\ hold' \in 0 .. ModelLimit
    BY <1>3 DEF B!vars, B!TypeOK
  <2>2. QED
    BY <2>1 DEF B!TypeOK
<1>4. QED
  BY <1>1, <1>2, <1>3 DEF B!Next

-----------------------------------------------------------------------------
(* The reader.                                                             *)

\* Nothing is read that has not come, and no error told that has not happened.
ReaderInv == S!TypeOK /\ Len(feed) \in Nat /\ ending \in {"open", "eof", "broken"}

\* Before the first byte nothing has come,
LEMMA InitReader == S!Init => ReaderInv
<1>. SUFFICES ASSUME S!Init PROVE ReaderInv
  OBVIOUS
<1>1. PICK n \in 0 .. MaxFeed : feed \in [1 .. n -> {"text", "mark", "lf", "cr"}]
  BY DEF S!Init, S!Feeds
<1>2. n \in Nat
  OBVIOUS
<1>3. feed \in Seq({"text", "mark", "lf", "cr"})
  BY <1>1, <1>2, SeqDef
<1>4. Len(feed) \in Nat
  BY <1>3
<1>5. /\ arrived = 0 /\ ending = "open" /\ fetched = 0 /\ failed = "no" /\ pos = 0
      /\ peeking = FALSE /\ first = TRUE /\ ended = "no"
  BY DEF S!Init
<1>6. /\ fetched \in 0 .. arrived /\ arrived \in 0 .. Len(feed) /\ pos \in 0 .. fetched
  BY <1>4, <1>5
<1>7. peeking \in BOOLEAN /\ first \in BOOLEAN
  BY <1>5, Zenon
<1>8. QED
  BY <1>4, <1>5, <1>6, <1>7, Zenon DEF S!TypeOK, ReaderInv

\* A line or an error leaves the reader with a known error, or none.
LEMMA ErrorKnown ==
  ASSUME NEW l, NEW err \in {"eof", "broken", "idle", "too_large"}, ended = "no",
         S!NextLine(l) \/ S!NextError(l, err)
  PROVE  ended' \in {"no", "eof", "broken", "idle", "too_large"} /\ first' = FALSE
<1> DEFINE lines == IF S!Trimmed(l) = <<>> THEN buf ELSE Append(buf, S!Trimmed(l))
<1>1. CASE S!NextLine(l)
  <2>1. \/ S!Joins(S!Trimmed(l)) \/ S!Returns(buf) \/ UNCHANGED <<out, buf, ended>>
    BY <1>1 DEF S!NextLine
  <2>2. first' = FALSE
    BY <1>1 DEF S!NextLine
  <2>3. QED
    BY <2>1, <2>2 DEF S!Joins, S!Returns, S!Fails
<1>2. CASE S!NextError(l, err)
  <2>1. S!Fails(err) \/ S!Fails("too_large") \/ S!Returns(lines)
    BY <1>2 DEF S!NextError
  <2>2. first' = FALSE
    BY <1>2 DEF S!NextError
  <2>3. QED
    BY <2>1, <2>2 DEF S!Returns, S!Fails
<1>3. QED
  BY <1>1, <1>2

\* and every byte keeps its place.
LEMMA NextReader == ReaderInv /\ [S!Next]_(S!vars) => ReaderInv'
<1>. SUFFICES ASSUME ReaderInv, [S!Next]_(S!vars) PROVE ReaderInv'
  OBVIOUS
<1>1. /\ Len(feed) \in Nat /\ arrived \in 0 .. Len(feed) /\ fetched \in 0 .. arrived /\ pos \in 0 .. fetched
      /\ failed \in {"no", "eof", "broken", "idle"} /\ ended \in {"no", "eof", "broken", "idle", "too_large"}
      /\ peeking \in BOOLEAN /\ first \in BOOLEAN /\ ending \in {"open", "eof", "broken"}
  BY DEF ReaderInv, S!TypeOK
<1>2. CASE S!Arrive
  BY <1>1, <1>2 DEF S!Arrive, S!reader, ReaderInv, S!TypeOK
<1>3. CASE S!End
  BY <1>1, <1>3 DEF S!End, S!reader, ReaderInv, S!TypeOK
<1>4. CASE S!Read
  BY <1>1, <1>4 DEF S!Read, S!source, S!reader, ReaderInv, S!TypeOK
<1>5. CASE S!ReadByte
  <2>1. /\ UNCHANGED <<kind, feed, arrived, ending, fetched, failed>> /\ ended = "no"
        /\ pos' = pos + 1 /\ pos < fetched /\ ~peeking
    BY <1>5 DEF S!ReadByte, S!source
  <2>2. /\ peeking' \in BOOLEAN
        /\ \/ S!NextLine(line) \/ S!NextError(<<>>, "too_large")
           \/ UNCHANGED <<first, ended>>
    BY <1>1, <1>5 DEF S!ReadByte
  <2>3. ended' \in {"no", "eof", "broken", "idle", "too_large"} /\ first' \in BOOLEAN
    BY <1>1, <2>1, <2>2, ErrorKnown
  <2>4. QED
    BY <1>1, <2>1, <2>2, <2>3 DEF ReaderInv, S!TypeOK
<1>6. CASE S!PeekLF
  <2>1. /\ UNCHANGED <<kind, feed, arrived, ending, fetched, failed>> /\ ended = "no"
        /\ pos' = (IF pos < fetched /\ feed[pos + 1] = "lf" THEN pos + 1 ELSE pos) /\ peeking' = FALSE
        /\ S!NextLine(line)
    BY <1>6 DEF S!PeekLF, S!source
  <2>2. ended' \in {"no", "eof", "broken", "idle", "too_large"} /\ first' = FALSE
    BY <2>1, ErrorKnown
  <2>3. pos' \in 0 .. fetched
    BY <1>1, <2>1
  <2>4. QED
    BY <1>1, <2>1, <2>2, <2>3 DEF ReaderInv, S!TypeOK
<1>7. CASE S!ReadError
  <2>1. /\ UNCHANGED <<kind, feed, arrived, ending, fetched, failed, pos, peeking>> /\ ended = "no"
        /\ failed # "no" /\ S!NextError(line, failed)
    BY <1>7 DEF S!ReadError, S!source
  <2>2. ended' \in {"no", "eof", "broken", "idle", "too_large"} /\ first' = FALSE
    BY <1>1, <2>1, ErrorKnown
  <2>3. QED
    BY <1>1, <2>1, <2>2 DEF ReaderInv, S!TypeOK
<1>8. CASE S!ReadAtMost
  BY <1>1, <1>8 DEF S!ReadAtMost, S!source, ReaderInv, S!TypeOK
<1>9. CASE UNCHANGED S!vars
  BY <1>1, <1>9 DEF S!vars, S!source, S!reader, ReaderInv, S!TypeOK
<1>10. QED
  BY <1>2, <1>3, <1>4, <1>5, <1>6, <1>7, <1>8, <1>9 DEF S!Next

-----------------------------------------------------------------------------
(* The parts together.                                                     *)

\* What belongs to a part at rest stays as it is.
LEMMA StreamRests ==
  ASSUME ExchangeNext
  PROVE  [Next]_vars
<1>1. streamVars' = streamVars => UNCHANGED vars
  BY DEF streamVars, vars
<1>2. QED
  BY <1>1 DEF ExchangeNext, Streams, Converts, Reads, Sends

\* Likewise the body of the request.
LEMMA BodyRests ==
  ASSUME ExchangeNext
  PROVE  [B!Next]_(B!vars)
<1>1. bodyVars' = bodyVars => UNCHANGED B!vars
  BY DEF bodyVars, B!vars
<1>2. QED
  BY <1>1 DEF ExchangeNext, Streams, Converts, Reads, Sends

\* Likewise the reader.
LEMMA ReaderRests ==
  ASSUME ExchangeNext
  PROVE  [S!Next]_(S!vars)
<1>1. readerVars' = readerVars => UNCHANGED S!vars
  BY DEF readerVars, S!vars, S!source, S!reader
<1>2. QED
  BY <1>1 DEF ExchangeNext, Streams, Converts, Reads, Sends

\* A stream whose reports always or never give the cached tokens apart is settled exactly only at
\* the true token counts, and if it is flawless never held against its channel (forwardStream,
\* usageReadyForExactSettlement, finishAttempt).
THEOREM StreamsSettledTruly == ExchangeSpec => [](ExactIsTrue /\ FlawlessNotBlamed)
<1>1. ExchangeInit => RelayInv
  BY RelayInitial DEF ExchangeInit
<1>2. RelayInv /\ [ExchangeNext]_allVars => RelayInv'
  <2>1. UNCHANGED allVars => UNCHANGED vars
    BY DEF allVars, streamVars, vars
  <2>2. QED
    BY <2>1, StreamRests, RelayNext
<1>3. RelayInv => ExactIsTrue /\ FlawlessNotBlamed
  BY DEF RelayInv, Kept, ExactIsTrue, TrueCounts, FlawlessNotBlamed
<1>4. QED
  BY <1>1, <1>2, <1>3, PTL DEF ExchangeSpec

\* Whatever the provider sends and wherever the client is cut off, the converted stream keeps the
\* client's protocol; a stream that counts as a success reached the client whole, and of a flawless
\* and consistent one an OpenAI client is told the very numbers that are charged (stream_decode.go and
\* stream_encode.go of both adapters, forwardStream).
THEOREM StreamsToldWhole == ExchangeSpec => []ToldWhole
<1> DEFINE Inv == RelayInv /\ ClientOK /\ ToldInv
<1>1. ExchangeInit => Inv
  <2>1. ExchangeInit => ClientOK
    BY DEF ExchangeInit, Init, ClientOK, canPassthrough
  <2>2. QED
    BY <2>1, RelayInitial, ToldInitial DEF ExchangeInit
<1>2. Inv /\ [ExchangeNext]_allVars => Inv'
  <2>1. ExchangeNext => [Next]_vars
    BY StreamRests
  <2>2. UNCHANGED allVars => UNCHANGED vars
    BY DEF allVars, streamVars, vars
  <2>3. ClientOK /\ [Next]_vars => ClientOK'
    BY DEF ClientOK, Next, Receive, ReadFails, vars
  <2>4. QED
    BY <2>1, <2>2, <2>3, RelayNext, ToldNext
<1>3. Inv => ToldWhole
  BY ToldIsWhole
<1>4. QED
  BY <1>1, <1>2, <1>3, PTL DEF ExchangeSpec

\* The variables of a request and its answer have their types, and nothing is seen of an answer
\* that is not committed.
THEOREM ExchangeTypes ==
  ASSUME B!ConstantsOK
  PROVE  ExchangeSpec => []TypesOK
<1> DEFINE Inv == RelayInv /\ ClientOK /\ SeenCommitted /\ BodyInv /\ B!TypeOK /\ ReaderInv
<1>1. ExchangeInit => Inv
  <2>. SUFFICES ASSUME ExchangeInit PROVE Inv
    OBVIOUS
  <2>1. RelayInv /\ BodyInv /\ ReaderInv
    BY RelayInitial, InitBody, InitReader DEF ExchangeInit
  <2>2. ClientOK /\ SeenCommitted
    BY DEF ExchangeInit, Init, View, ClientOK, SeenCommitted, canPassthrough
  <2>3. B!TypeOK
    <3>1. B!NoBody \in B!Body /\ B!NoTarget \in B!Target
      BY DEF B!NoBody, B!Body, B!Limits, B!NoTarget, B!Target, B!Formats
    <3>2. body \in B!Body /\ hold = 0 /\ raw = B!NoBody /\ sent = B!NoBody /\ target = B!NoTarget
      BY <2>1 DEF ExchangeInit, B!Init, BodyInv
    <3>3. QED
      BY <3>1, <3>2 DEF B!TypeOK, B!ConstantsOK
  <2>4. QED
    BY <2>1, <2>2, <2>3
<1>2. Inv /\ [ExchangeNext]_allVars => Inv'
  <2>. SUFFICES ASSUME Inv, [ExchangeNext]_allVars PROVE Inv'
    OBVIOUS
  <2>1. [Next]_vars /\ [B!Next]_(B!vars) /\ [S!Next]_(S!vars)
    <3>1. CASE ExchangeNext
      BY <3>1, StreamRests, BodyRests, ReaderRests
    <3>2. CASE UNCHANGED allVars
      BY <3>2 DEF allVars, streamVars, vars, bodyVars, B!vars, readerVars, S!vars, S!source, S!reader
    <3>3. QED
      BY <3>1, <3>2
  <2>2. RelayInv' /\ BodyInv' /\ ReaderInv'
    BY <2>1, RelayNext, NextBody, NextReader
  <2>3. SeenCommitted' /\ B!TypeOK'
    BY <2>1, SeenNext, BodyTypes
  <2>4. ClientOK'
    BY <2>1 DEF ClientOK, Next, Receive, ReadFails, vars
  <2>5. QED
    BY <2>2, <2>3, <2>4
<1>3. Inv => TypesOK
  BY StreamTypes DEF TypesOK, ReaderInv
<1>4. QED
  BY <1>1, <1>2, <1>3, PTL DEF ExchangeSpec

\* Every provider is told the limit of the hold, in the field it obeys, and the rest of what
\* the client meant, whichever candidates are tried (normalizePassthroughRequest, Resolve and
\* patchOpenAIOutputLimit).
THEOREM BodiesSound ==
  ASSUME B!ConstantsOK
  PROVE  ExchangeSpec => []BodySound
<1>1. ExchangeInit => BodyInv
  BY InitBody DEF ExchangeInit
<1>2. BodyInv /\ [ExchangeNext]_allVars => BodyInv'
  <2>1. UNCHANGED allVars => UNCHANGED B!vars
    BY DEF allVars, bodyVars, B!vars
  <2>2. QED
    BY <2>1, BodyRests, NextBody
<1>3. BodyInv => BodySound
  BY DEF BodyInv, BodySound, B!BodySound
<1>4. QED
  BY <1>1, <1>2, <1>3, PTL DEF ExchangeSpec

-----------------------------------------------------------------------------
(* What FlattenSeq comes to: Messages and SSEReader are written with it.   *)

\* What is put together of the first k sequences, one after the other.
Joined(f, ss, V) ==
  /\ f \in [0 .. Len(ss) -> Seq(V)] /\ f[0] = <<>>
  /\ \A k \in 1 .. Len(ss) : f[k] = f[k - 1] \o ss[k]

\* FlattenSeq is where it arrives.
LEMMA JoinedIs ==
  ASSUME NEW V, NEW ss \in Seq(Seq(V)), NEW f, Joined(f, ss, V)
  PROVE  S!FlattenSeq(ss) = f[Len(ss)]
<1> DEFINE n == Len(ss)
           Goes1(h) == h = [k \in 1 .. n |-> IF k = 1 THEN ss[k] ELSE h[k - 1] \o ss[k]]
           g == CHOOSE h : Goes1(h)
           h1 == [k \in 1 .. n |-> f[k]]
<1>1. n \in Nat /\ \A k \in 1 .. n : ss[k] \in Seq(V) /\ k \in 0 .. n
  OBVIOUS
<1>a. n # 0 => f[1] = ss[1]
  <2>. SUFFICES ASSUME n # 0 PROVE f[1] = ss[1]
    OBVIOUS
  <2>1. 1 \in 1 .. n /\ 1 - 1 = 0 /\ ss[1] \in Seq(V)
    BY <1>1
  <2>2. f[1] = f[1 - 1] \o ss[1] /\ f[0] = <<>>
    BY <2>1 DEF Joined
  <2>3. <<>> \o ss[1] = ss[1]
    BY <2>1, ConcatEmptySeq
  <2>4. QED
    BY <2>1, <2>2, <2>3
<1>2. CASE n = 0
  <2>1. ss = <<>>
    BY <1>2
  <2>2. S!FlattenSeq(ss) = ss
    BY <1>2 DEF S!FlattenSeq
  <2>3. QED
    BY <1>2, <2>1, <2>2 DEF Joined
<1>3. CASE n # 0
  <2>1. \A k \in 1 .. n : h1[k] = IF k = 1 THEN ss[k] ELSE h1[k - 1] \o ss[k]
    <3>1. ASSUME NEW k \in 1 .. n PROVE h1[k] = IF k = 1 THEN ss[k] ELSE h1[k - 1] \o ss[k]
      <4>1. CASE k = 1
        BY <1>3, <1>a, <4>1
      <4>2. CASE k # 1
        <5>1. k - 1 \in 1 .. n
          BY <4>2
        <5>2. QED
          BY <4>2, <5>1 DEF Joined
      <4>3. QED
        BY <4>1, <4>2
    <3>2. QED
      BY <3>1
  <2>2. Goes1(h1)
    BY <2>1
  <2>3. Goes1(g)
    BY <2>2
  <2>4. S!FlattenSeq(ss) = g[n]
    BY <1>3 DEF S!FlattenSeq
  <2>. HIDE DEF g, h1
  <2>5. \A k \in 1 .. n : g[k] = IF k = 1 THEN ss[k] ELSE g[k - 1] \o ss[k]
    BY <2>3
  <2> DEFINE D == { k \in 0 .. n - 1 : g[k + 1] = f[k + 1] }
  <2>6. 0 \in D
    <3>1. 1 \in 1 .. n /\ 0 \in 0 .. n - 1 /\ 0 + 1 = 1
      BY <1>1, <1>3
    <3>2. QED
      BY <1>3, <1>a, <2>5, <3>1
  <2>7. ASSUME NEW m \in 0 .. (n - 1) - 1, m \in D PROVE m + 1 \in D
    <3>1. /\ m + 2 \in 1 .. n /\ m + 2 # 1 /\ (m + 2) - 1 = m + 1 /\ m + 1 \in 0 .. n - 1 /\ (m + 1) + 1 = m + 2
      BY <1>1
    <3>2. g[m + 2] = g[m + 1] \o ss[m + 2] /\ f[m + 2] = f[m + 1] \o ss[m + 2]
      BY <2>5, <3>1 DEF Joined
    <3>3. QED
      BY <2>7, <3>1, <3>2
  <2>. HIDE DEF D
  <2>8. n - 1 \in Nat
    BY <1>1, <1>3
  <2>9. \A k \in 0 .. n - 1 : k \in D
    BY <2>6, <2>7, <2>8, Counting
  <2>10. n - 1 \in D /\ (n - 1) + 1 = n
    BY <1>1, <2>8, <2>9
  <2>11. QED
    BY <2>4, <2>10 DEF D
<1>4. QED
  BY <1>2, <1>3

\* There is one.
LEMMA JoinedExists ==
  ASSUME NEW V, NEW ss \in Seq(Seq(V))
  PROVE  \E f : Joined(f, ss, V)
<1> DEFINE n == Len(ss)
           W == Seq(V)
           step == [x \in W \X (1 .. n) |-> x[1] \o ss[x[2]]]
<1>1. n \in Nat /\ <<>> \in W /\ \A k \in 1 .. n : ss[k] \in W
  BY EmptySeq
<1>2. \A x \in W, k \in 1 .. n : x \o ss[k] \in W
  BY <1>1, ConcatProperties
<1>3. \A x \in W, k \in 1 .. n : <<x, k>> \in W \X (1 .. n) /\ step[<<x, k>>] = x \o ss[k]
  OBVIOUS
<1>4. step \in [W \X (1 .. n) -> W]
  <2>1. \A x \in W \X (1 .. n) : x[1] \in W /\ x[2] \in 1 .. n
    OBVIOUS
  <2>. HIDE DEF W
  <2>2. QED
    BY <1>2, <2>1
<1>. HIDE DEF step, W
<1>5. Steps(step, n, W)
  BY <1>4 DEF Steps
<1>6. PICK f : Follows(f, <<>>, step, n, W)
  BY <1>1, <1>5, Iterates
<1>7. \A k \in 1 .. n : f[k - 1] \in W
  <2>1. \A k \in 1 .. n : k - 1 \in 0 .. n
    BY <1>1
  <2>2. QED
    BY <1>6, <2>1 DEF Follows
<1>8. \A k \in 1 .. n : f[k] = f[k - 1] \o ss[k]
  BY <1>3, <1>6, <1>7 DEF Follows
<1>9. Joined(f, ss, V)
  BY <1>6, <1>8 DEF Follows, Joined, W
<1>10. QED
  BY <1>9

\* Nothing and one,
LEMMA FlattenOne ==
  ASSUME NEW V, NEW s \in Seq(V)
  PROVE  S!FlattenSeq(<<>>) = <<>> /\ S!FlattenSeq(<<s>>) = s
<1>1. <<>> \in Seq(Seq(V)) /\ <<s>> \in Seq(Seq(V)) /\ Len(<<s>>) = 1 /\ <<s>>[1] = s /\ Len(<<>>) = 0
  BY EmptySeq
<1>2. PICK f : Joined(f, <<s>>, V)
  BY <1>1, JoinedExists
<1>3. S!FlattenSeq(<<s>>) = f[1]
  BY <1>1, <1>2, JoinedIs
<1>4. 1 \in 1 .. 1 /\ 1 - 1 = 0
  OBVIOUS
<1>5. f[1] = f[1 - 1] \o s /\ f[0] = <<>>
  BY <1>1, <1>2, <1>4 DEF Joined
<1>6. <<>> \o s = s
  BY ConcatEmptySeq
<1>7. S!FlattenSeq(<<>>) = <<>>
  BY <1>1 DEF S!FlattenSeq
<1>8. QED
  BY <1>3, <1>4, <1>5, <1>6, <1>7

\* a sequence of values,
LEMMA FlattenType ==
  ASSUME NEW V, NEW ss \in Seq(Seq(V))
  PROVE  S!FlattenSeq(ss) \in Seq(V)
<1>1. PICK f : Joined(f, ss, V)
  BY JoinedExists
<1>2. S!FlattenSeq(ss) = f[Len(ss)]
  BY <1>1, JoinedIs
<1>3. Len(ss) \in 0 .. Len(ss)
  OBVIOUS
<1>4. QED
  BY <1>1, <1>2, <1>3 DEF Joined

\* and both parts, put together.
LEMMA FlattenBoth ==
  ASSUME NEW V, NEW a \in Seq(Seq(V)), NEW b \in Seq(Seq(V))
  PROVE  S!FlattenSeq(a \o b) = S!FlattenSeq(a) \o S!FlattenSeq(b)
<1>1. PICK f : Joined(f, a, V)
  BY JoinedExists
<1>2. PICK g : Joined(g, b, V)
  BY JoinedExists
<1>3. PICK m, n \in Nat : m = Len(a) /\ n = Len(b)
  OBVIOUS
<1>4. PICK c : c = a \o b
  OBVIOUS
<1>5. /\ c \in Seq(Seq(V)) /\ Len(c) = m + n
      /\ \A k \in 1 .. m : c[k] = a[k]
      /\ \A k \in 1 .. n : c[m + k] = b[k]
  <2>1. c \in Seq(Seq(V)) /\ Len(c) = m + n
    BY <1>3, <1>4, ConcatProperties
  <2>2. \A i \in 1 .. m + n : c[i] = IF i <= m THEN a[i] ELSE b[i - m]
    BY <1>3, <1>4, ConcatProperties
  <2>3. \A k \in 1 .. m : k \in 1 .. m + n /\ k <= m
    BY <1>3
  <2>4. \A k \in 1 .. n : m + k \in 1 .. m + n /\ ~(m + k <= m) /\ (m + k) - m = k
    BY <1>3
  <2>5. QED
    BY <2>1, <2>2, <2>3, <2>4
<1>6. /\ f \in [0 .. m -> Seq(V)] /\ f[0] = <<>> /\ \A k \in 1 .. m : f[k] = f[k - 1] \o a[k]
      /\ g \in [0 .. n -> Seq(V)] /\ g[0] = <<>> /\ \A k \in 1 .. n : g[k] = g[k - 1] \o b[k]
  BY <1>1, <1>2, <1>3 DEF Joined
<1>7. f[m] \in Seq(V)
  <2>1. m \in 0 .. m
    BY <1>3
  <2>2. QED
    BY <1>6, <2>1
<1>8. \A k \in 0 .. n : f[m] \o g[k] \in Seq(V)
  BY <1>6, <1>7, ConcatProperties
<1> DEFINE h == [k \in 0 .. m + n |-> IF k <= m THEN f[k] ELSE f[m] \o g[k - m]]
<1>9. \A k \in 0 .. m + n : h[k] \in Seq(V)
  <2>1. ASSUME NEW k \in 0 .. m + n PROVE h[k] \in Seq(V)
    <3>1. CASE k <= m
      <4>1. k \in 0 .. m
        BY <1>3, <3>1
      <4>2. QED
        BY <1>6, <3>1, <4>1
    <3>2. CASE ~(k <= m)
      <4>1. k - m \in 0 .. n
        BY <1>3, <3>2
      <4>2. QED
        BY <1>8, <3>2, <4>1
    <3>3. QED
      BY <3>1, <3>2
  <2>2. QED
    BY <2>1
<1>10. h \in [0 .. m + n -> Seq(V)]
  <2>1. h = [k \in 0 .. m + n |-> h[k]]
    OBVIOUS
  <2>. HIDE DEF h
  <2>2. QED
    BY <1>9, <2>1
<1>11. \A k \in 0 .. n : h[m + k] = f[m] \o g[k]
  <2>1. ASSUME NEW k \in 0 .. n PROVE h[m + k] = f[m] \o g[k]
    <3>1. m + k \in 0 .. m + n /\ (m + k <= m => k = 0) /\ (m + k) - m = k /\ m + 0 = m
      BY <1>3
    <3>2. f[m] \o <<>> = f[m]
      BY <1>7, ConcatEmptySeq
    <3>3. QED
      BY <1>6, <3>1, <3>2
  <2>2. QED
    BY <2>1
<1>12. \A k \in 0 .. m : h[k] = f[k]
  BY <1>3
<1>. HIDE DEF h
<1>13. ASSUME NEW k \in 1 .. m + n PROVE h[k] = h[k - 1] \o c[k]
  <2>1. CASE k <= m
    <3>1. k \in 1 .. m /\ k \in 0 .. m /\ k - 1 \in 0 .. m
      BY <1>3, <2>1
    <3>2. QED
      BY <1>5, <1>6, <1>12, <3>1
  <2>2. CASE ~(k <= m)
    <3>1. PICK j : j = k - m
      OBVIOUS
    <3>2. j \in 1 .. n /\ j \in 0 .. n /\ j - 1 \in 0 .. n /\ m + j = k /\ m + (j - 1) = k - 1
      BY <1>3, <2>2, <3>1
    <3>a. h[m + j] = f[m] \o g[j] /\ h[m + (j - 1)] = f[m] \o g[j - 1]
      BY <1>11, <3>2
    <3>b. c[m + j] = b[j] /\ g[j] = g[j - 1] \o b[j]
      BY <1>5, <1>6, <3>2
    <3>3. h[k] = f[m] \o g[j] /\ h[k - 1] = f[m] \o g[j - 1] /\ c[k] = b[j] /\ g[j] = g[j - 1] \o b[j]
      BY <3>2, <3>a, <3>b
    <3>c. g[j - 1] \in Seq(V)
      BY <1>6, <3>2
    <3>d. b[j] \in Seq(V)
      BY <1>3, <3>2
    <3>4. g[j - 1] \in Seq(V) /\ b[j] \in Seq(V)
      BY <3>c, <3>d
    <3>5. (f[m] \o g[j - 1]) \o b[j] = f[m] \o (g[j - 1] \o b[j])
      <4>1. \A x, y, z \in Seq(V) : (x \o y) \o z = x \o (y \o z)
        OBVIOUS
      <4>2. QED
        BY <1>7, <3>4, <4>1
    <3>6. QED
      BY <3>3, <3>5
  <2>3. QED
    BY <2>1, <2>2
<1>14. Joined(h, c, V)
  <2>1. 0 \in 0 .. m
    BY <1>3
  <2>2. QED
    BY <1>5, <1>6, <1>10, <1>12, <1>13, <2>1 DEF Joined
<1>15. S!FlattenSeq(c) = h[m + n]
  BY <1>5, <1>14, JoinedIs
<1>16. S!FlattenSeq(a) = f[m] /\ S!FlattenSeq(b) = g[n]
  BY <1>1, <1>2, <1>3, JoinedIs
<1>17. n \in 0 .. n
  BY <1>3
<1>18. QED
  BY <1>4, <1>11, <1>15, <1>16, <1>17

-----------------------------------------------------------------------------
(* What is made of the members of a sequence, one after the other.         *)

\* g makes a sequence of every member of U.
Makes(g, U, V) == g \in [U -> Seq(V)]
Mapped(g, s)   == S!FlattenSeq([i \in DOMAIN s |-> g[s[i]]])

\* Messages puts together as SSEReader does.
LEMMA SameFlatten == ASSUME NEW ss PROVE T!FlattenSeq(ss) = S!FlattenSeq(ss)
  BY DEF T!FlattenSeq, S!FlattenSeq

\* A sequence of sequences is what is put together,
LEMMA MappedEach ==
  ASSUME NEW U, NEW V, NEW g, Makes(g, U, V), NEW s \in Seq(U)
  PROVE  [i \in DOMAIN s |-> g[s[i]]] \in Seq(Seq(V)) /\ Mapped(g, s) \in Seq(V)
<1>1. [i \in DOMAIN s |-> g[s[i]]] \in Seq(Seq(V))
  <2>1. DOMAIN s = 1 .. Len(s) /\ Len(s) \in Nat /\ \A i \in 1 .. Len(s) : s[i] \in U
    OBVIOUS
  <2>2. [i \in DOMAIN s |-> g[s[i]]] \in [1 .. Len(s) -> Seq(V)]
    BY <2>1 DEF Makes
  <2>3. QED
    BY <2>1, <2>2, IsASeq
<1>2. QED
  BY <1>1, FlattenType DEF Mapped

\* of nothing and of one,
LEMMA MappedOne ==
  ASSUME NEW U, NEW V, NEW g, Makes(g, U, V), NEW x \in U
  PROVE  Mapped(g, <<>>) = <<>> /\ Mapped(g, <<x>>) = g[x]
<1>1. [i \in DOMAIN <<>> |-> g[<<>>[i]]] = <<>> /\ [i \in DOMAIN <<x>> |-> g[<<x>>[i]]] = <<g[x]>>
  OBVIOUS
<1>2. QED
  BY <1>1, FlattenOne DEF Mapped, Makes

\* of both parts,
LEMMA MappedBoth ==
  ASSUME NEW U, NEW V, NEW g, Makes(g, U, V), NEW s \in Seq(U), NEW t \in Seq(U)
  PROVE  Mapped(g, s \o t) = Mapped(g, s) \o Mapped(g, t)
<1> DEFINE e(u) == [i \in DOMAIN u |-> g[u[i]]]
<1>1. e(s) \in Seq(Seq(V)) /\ e(t) \in Seq(Seq(V))
  BY MappedEach
<1>2. e(s \o t) = e(s) \o e(t)
  <2>1. PICK m, n \in Nat : m = Len(s) /\ n = Len(t)
    OBVIOUS
  <2>2. PICK c : c = s \o t
    OBVIOUS
  <2>3. /\ DOMAIN s = 1 .. m /\ DOMAIN t = 1 .. n /\ DOMAIN c = 1 .. m + n
        /\ \A i \in 1 .. m + n : c[i] = IF i <= m THEN s[i] ELSE t[i - m]
    BY <2>1, <2>2, ConcatProperties
  <2>4. PICK es, et \in Seq(Seq(V)) : es = e(s) /\ et = e(t)
    BY <1>1
  <2>5. /\ Len(es) = m /\ Len(et) = n
        /\ \A i \in 1 .. m : es[i] = g[s[i]]
        /\ \A i \in 1 .. n : et[i] = g[t[i]]
    <3>1. DOMAIN es = 1 .. m /\ DOMAIN et = 1 .. n
      BY <2>3, <2>4
    <3>2. QED
      BY <2>1, <2>3, <2>4, <3>1
  <2>6. PICK d : d = es \o et
    OBVIOUS
  <2>7. /\ d \in Seq(Seq(V)) /\ Len(d) = m + n
        /\ \A i \in 1 .. m + n : d[i] = IF i <= m THEN es[i] ELSE et[i - m]
    <3>1. /\ d \in Seq(Seq(V)) /\ Len(d) = Len(es) + Len(et)
          /\ \A i \in 1 .. Len(es) + Len(et) : d[i] = IF i <= Len(es) THEN es[i] ELSE et[i - Len(es)]
      <4>. HIDE DEF e
      <4>1. QED
        BY <2>6, ConcatProperties
    <3>2. QED
      BY <2>5, <3>1
  <2>8. \A i \in 1 .. m + n : d[i] = g[c[i]]
    <3>1. ASSUME NEW i \in 1 .. m + n PROVE d[i] = g[c[i]]
      <4>1. CASE i <= m
        <5>1. i \in 1 .. m
          BY <2>1, <4>1
        <5>2. QED
          BY <2>3, <2>5, <2>7, <4>1, <5>1
      <4>2. CASE ~(i <= m)
        <5>1. i - m \in 1 .. n
          BY <2>1, <4>2
        <5>2. QED
          BY <2>1, <2>3, <2>5, <2>7, <4>2, <5>1
      <4>3. QED
        BY <4>1, <4>2
    <3>2. QED
      BY <3>1
  <2>9. d = [i \in 1 .. m + n |-> g[c[i]]]
    BY <2>7, <2>8
  <2>10. QED
    BY <2>2, <2>3, <2>4, <2>6, <2>9
<1>3. Mapped(g, s \o t) = S!FlattenSeq(e(s) \o e(t))
  BY <1>2 DEF Mapped
<1>4. QED
  BY <1>1, <1>3, FlattenBoth DEF Mapped

\* and of one more.
LEMMA MappedMore ==
  ASSUME NEW U, NEW V, NEW g, Makes(g, U, V), NEW s \in Seq(U), NEW x \in U
  PROVE  Append(s, x) \in Seq(U) /\ Mapped(g, Append(s, x)) = Mapped(g, s) \o g[x]
<1>1. Append(s, x) = s \o <<x>> /\ <<x>> \in Seq(U) /\ Append(s, x) \in Seq(U)
  BY AppendIsConcat
<1>2. PICK y \in Seq(U) : y = <<x>>
  BY <1>1
<1>a. Mapped(g, s \o y) = Mapped(g, s) \o Mapped(g, y)
  BY MappedBoth
<1>3. Mapped(g, <<x>>) = g[x]
  BY MappedOne
<1>4. QED
  BY <1>1, <1>2, <1>a, <1>3

\* Two that make the same of every member make the same.
LEMMA MappedSame ==
  ASSUME NEW g, NEW h, NEW s, \A i \in DOMAIN s : g[s[i]] = h[s[i]]
  PROVE  Mapped(g, s) = Mapped(h, s)
  BY DEF Mapped

\* What holds of nothing and of one more holds of any sequence.
LEMMA Growing ==
  ASSUME NEW U, NEW P, <<>> \in P, \A s \in Seq(U), x \in U : s \in P => Append(s, x) \in P
  PROVE  \A s \in Seq(U) : s \in P
<1>1. ASSUME NEW s \in Seq(U) PROVE s \in P
  <2> DEFINE n == Len(s)
             to(m) == SubSeq(s, 1, m)
             D == { m \in 0 .. n : to(m) \in P }
  <2>1. 0 \in D
    <3>1. to(0) = <<>> /\ 0 \in 0 .. n
      OBVIOUS
    <3>2. QED
      BY <3>1
  <2>2. ASSUME NEW m \in 0 .. n - 1, m \in D PROVE m + 1 \in D
    <3>1. m + 1 \in 1 .. n /\ m \in 0 .. n
      OBVIOUS
    <3>2. to(m) \in Seq(U) /\ s[m + 1] \in U
      BY <3>1
    <3>3. to(m + 1) = Append(to(m), s[m + 1])
      OBVIOUS
    <3>4. to(m) \in P
      BY <2>2
    <3>5. Append(to(m), s[m + 1]) \in P
      <4>. HIDE DEF to
      <4>1. QED
        BY <3>2, <3>4
    <3>6. to(m + 1) \in P
      BY <3>3, <3>5
    <3>7. QED
      <4>. HIDE DEF to
      <4>1. QED
        BY <3>1, <3>6
  <2>3. n \in D
    <3>1. \A m \in 0 .. n : m \in D
      <4>1. n \in Nat
        OBVIOUS
      <4>2. \A m \in 0 .. n - 1 : m \in D => m + 1 \in D
        <5>. HIDE DEF D, n
        <5>1. QED
          BY <2>2
      <4>. HIDE DEF D, n
      <4>3. QED
        BY <2>1, <4>1, <4>2, Counting
    <3>2. QED
      BY <3>1
  <2>4. to(n) = s
    OBVIOUS
  <2>5. QED
    BY <2>3, <2>4
<1>2. QED
  BY <1>1

\* Making something of what was made is making it of each.
LEMMA MappedTwice ==
  ASSUME NEW U, NEW V, NEW W, NEW g, Makes(g, U, V), NEW h, Makes(h, V, W),
         NEW f, Makes(f, U, W), \A x \in U : f[x] = Mapped(h, g[x])
  PROVE  \A s \in Seq(U) : Mapped(h, Mapped(g, s)) = Mapped(f, s)
<1> DEFINE P == { s \in Seq(U) : Mapped(h, Mapped(g, s)) = Mapped(f, s) }
<1>1. <<>> \in P
  <2>1. S!FlattenSeq(<<>>) = <<>>
    BY DEF S!FlattenSeq
  <2>2. Mapped(g, <<>>) = <<>> /\ Mapped(f, <<>>) = <<>> /\ Mapped(h, <<>>) = <<>>
    BY <2>1 DEF Mapped
  <2>3. QED
    BY <2>2
<1>2. ASSUME NEW s \in Seq(U), NEW x \in U, s \in P PROVE Append(s, x) \in P
  <2>1. Append(s, x) \in Seq(U) /\ Mapped(g, Append(s, x)) = Mapped(g, s) \o g[x]
    BY MappedMore
  <2>2. Mapped(f, Append(s, x)) = Mapped(f, s) \o f[x]
    BY MappedMore
  <2>3. Mapped(g, s) \in Seq(V) /\ g[x] \in Seq(V)
    BY MappedEach DEF Makes
  <2>4. PICK a, b \in Seq(V) : a = Mapped(g, s) /\ b = g[x]
    BY <2>3
  <2>5. Mapped(h, a \o b) = Mapped(h, a) \o Mapped(h, b)
    BY MappedBoth
  <2>6. QED
    BY <1>2, <2>1, <2>2, <2>4, <2>5
<1>3. QED
  <2>. HIDE DEF P
  <2>1. \A s \in Seq(U) : s \in P
    BY <1>1, <1>2, Growing
  <2>2. QED
    BY <2>1 DEF P

\* Each taken as it is,
LEMMA MappedItself ==
  ASSUME NEW U, NEW g, Makes(g, U, U), NEW s \in Seq(U), \A i \in DOMAIN s : g[s[i]] = <<s[i]>>
  PROVE  Mapped(g, s) = s
<1> DEFINE h == [x \in U |-> <<x>>]
           P == { t \in Seq(U) : Mapped(h, t) = t }
<1>1. Makes(h, U, U)
  BY DEF Makes
<1>2. <<>> \in P
  <2>1. S!FlattenSeq(<<>>) = <<>>
    BY DEF S!FlattenSeq
  <2>2. QED
    BY <2>1 DEF Mapped
<1>3. ASSUME NEW t \in Seq(U), NEW x \in U, t \in P PROVE Append(t, x) \in P
  <2>1. Append(t, x) \in Seq(U) /\ Mapped(h, Append(t, x)) = Mapped(h, t) \o h[x]
    <3>1. PICK k : k = h /\ Makes(k, U, U)
      BY <1>1
    <3>2. Append(t, x) \in Seq(U) /\ Mapped(k, Append(t, x)) = Mapped(k, t) \o k[x]
      <4>. HIDE DEF P, h
      <4>1. QED
        BY <3>1, MappedMore
    <3>3. QED
      BY <3>1, <3>2
  <2>2. Append(t, x) = t \o <<x>>
    BY AppendIsConcat
  <2>3. QED
    BY <1>3, <2>1, <2>2
<1>4. \A t \in Seq(U) : t \in P
  <2>. HIDE DEF P
  <2>1. QED
    BY <1>2, <1>3, Growing
<1>5. Mapped(g, s) = Mapped(h, s)
  <2>1. \A i \in DOMAIN s : s[i] \in U
    OBVIOUS
  <2>a. \A i \in DOMAIN s : g[s[i]] = h[s[i]]
    BY <2>1
  <2>2. QED
    BY <2>a, MappedSame
<1>6. QED
  BY <1>4, <1>5

\* and none.
LEMMA MappedNone ==
  ASSUME NEW U, NEW g, NEW s \in Seq(U), \A i \in DOMAIN s : g[s[i]] = <<>>
  PROVE  Mapped(g, s) = <<>>
<1> DEFINE h == [x \in U |-> <<>>]
           P == { t \in Seq(U) : Mapped(h, t) = <<>> }
<1>1. Makes(h, U, U)
  BY DEF Makes
<1>2. <<>> \in P
  <2>1. S!FlattenSeq(<<>>) = <<>>
    BY DEF S!FlattenSeq
  <2>2. QED
    BY <2>1 DEF Mapped
<1>3. ASSUME NEW t \in Seq(U), NEW x \in U, t \in P PROVE Append(t, x) \in P
  <2>1. Append(t, x) \in Seq(U) /\ Mapped(h, Append(t, x)) = Mapped(h, t) \o h[x]
    <3>1. PICK k : k = h /\ Makes(k, U, U)
      BY <1>1
    <3>2. Append(t, x) \in Seq(U) /\ Mapped(k, Append(t, x)) = Mapped(k, t) \o k[x]
      <4>. HIDE DEF P, h
      <4>1. QED
        BY <3>1, MappedMore
    <3>3. QED
      BY <3>1, <3>2
  <2>2. <<>> \o <<>> = <<>>
    OBVIOUS
  <2>3. QED
    BY <1>3, <2>1, <2>2
<1>4. \A t \in Seq(U) : t \in P
  <2>. HIDE DEF P
  <2>1. QED
    BY <1>2, <1>3, Growing
<1>5. Mapped(g, s) = Mapped(h, s)
  <2>1. \A i \in DOMAIN s : s[i] \in U
    OBVIOUS
  <2>a. \A i \in DOMAIN s : g[s[i]] = h[s[i]]
    BY <2>1
  <2>2. QED
    BY <2>a, MappedSame
<1>6. QED
  BY <1>4, <1>5

-----------------------------------------------------------------------------
(* What messages are made of.                                              *)

Texts    == [type : {"text"}, text : Seq({Word})]
Parts    == Texts \cup {T!Picture}
Unknown  == {[type |-> "other"]}
Inner    == Parts \cup Unknown
Uses     == [type : {"tool_use"}, call : Calls]
Results  == [type : {"tool_result"}, call : Calls, result : Seq(Inner), error : BOOLEAN]

\* The blocks of a user and of an assistant.
OfUser      == Inner \cup {T!Blank} \cup Results
OfAssistant == Texts \cup {T!Thinking} \cup Uses
Piece       == OfUser \cup OfAssistant

\* Messages of OpenAI, and canonical ones.
FlatRoles == {"system", "developer", "user", "assistant", "tool"}
FlatM     == { m \in [role : FlatRoles, content : Seq(Parts), calls : Seq(Calls), of : Seq(Calls)] :
                 m.role = "tool" => m.of # <<>> }
CanonM    == { m \in [role : {"system", "developer", "user", "assistant"}, content : Seq(Piece)] :
                 /\ m.role = "user" => m.content \in Seq(OfUser)
                 /\ m.role = "assistant" => m.content \in Seq(OfAssistant)
                 /\ m.role \in {"system", "developer"} => m.content \in Seq(Texts) }

\* What is read: who says a word or shows an image, a call, a result.
Readers == {"instruction", "system", "developer", "user", "assistant"}
Speech  == Readers \X {Word, Image}
Traffic == ({"call"} \X Calls) \cup ({"result"} \X Calls \X Seq({Word}))
Entry   == Speech \cup Traffic

\* What is made of a block, one function for each operator of Messages.
WordsOf     == [b \in Piece |-> IF b.type = "text" THEN b.text ELSE <<>>]
CallOf      == [b \in Piece |-> IF b.type = "tool_use" THEN <<b.call>> ELSE <<>>]
KeptOf(kinds) == [b \in Piece |-> IF b.type \in kinds THEN <<b>> ELSE <<>>]
Answered    == [b \in Piece |-> IF b.type = "tool_result" THEN <<T!ToolMessage(b)>> ELSE <<>>]
Found(who)  == [b \in Piece |-> T!Finds(who, b)]

\* What a block of each set has.
LEMMA KindsAre ==
  /\ \A b \in Texts : b.type = "text" /\ b.text \in Seq({Word})
  /\ \A b \in Uses : b.type = "tool_use" /\ b.call \in Calls
  /\ \A b \in Results : b.type = "tool_result" /\ b.call \in Calls /\ b.result \in Seq(Inner)
  /\ T!Picture.type = "image" /\ T!Picture.image = Image /\ T!Thinking.type = "thinking"
  /\ \A b \in Unknown : b.type = "other"
  BY DEF Texts, Uses, Results, Unknown, T!Picture, T!Thinking

\* A block is of one of the types.
LEMMA PieceIs ==
  ASSUME NEW b \in Piece
  PROVE  \/ b.type = "text" /\ b.text \in Seq({Word}) /\ b \in Texts
         \/ b.type = "image" /\ b.image = Image /\ b = T!Picture
         \/ b.type = "thinking" /\ b = T!Thinking
         \/ b.type = "tool_use" /\ b.call \in Calls /\ b \in Uses
         \/ b.type = "tool_result" /\ b.call \in Calls /\ b.result \in Seq(Inner) /\ b \in Results
         \/ b.type \in {"other", "none"} /\ b \in OfUser
<1>1. b \in Texts \/ b = T!Picture \/ b \in Unknown \/ b = T!Blank \/ b \in Results
      \/ b = T!Thinking \/ b \in Uses
  BY DEF Piece, OfUser, OfAssistant, Inner, Parts
<1>2. b \in Unknown \/ b = T!Blank => b \in OfUser
  BY DEF OfUser, Inner
<1>3. T!Blank.type = "none"
  BY DEF T!Blank
<1>4. QED
  BY <1>1, <1>2, <1>3, KindsAre

\* The blocks of a user and of an assistant have types of their own.
LEMMA SidesAre ==
  /\ \A b \in OfUser : b \in Piece /\ b.type \notin {"tool_use", "thinking"}
  /\ \A b \in OfAssistant : b \in Piece /\ b.type \in {"text", "thinking", "tool_use"}
  /\ \A b \in Inner : b \in OfUser /\ b \in Piece /\ b.type \in {"text", "image", "other"}
  /\ \A b \in Parts : b \in Inner /\ b \in OfUser /\ b \in Piece /\ b.type \in {"text", "image"}
  /\ \A b \in Texts : b \in Parts /\ b \in OfUser /\ b \in OfAssistant /\ b \in Piece /\ b.type = "text"
  /\ \A b \in Results : b \in OfUser /\ b \in Piece /\ b.type = "tool_result"
  /\ \A b \in Uses : b \in OfAssistant /\ b \in Piece /\ b.type = "tool_use"
<1>1. /\ OfUser \subseteq Piece /\ OfAssistant \subseteq Piece /\ Inner \subseteq OfUser /\ Parts \subseteq Inner
      /\ Texts \subseteq Parts /\ Texts \subseteq OfAssistant /\ Results \subseteq OfUser /\ Uses \subseteq OfAssistant
  BY DEF Piece, OfUser, OfAssistant, Inner, Parts
<1>2. \A b \in Parts : b \in Texts \/ b = T!Picture
  BY DEF Parts
<1>3. \A b \in Inner : b \in Parts \/ b \in Unknown
  BY DEF Inner
<1>4. \A b \in OfAssistant : b \in Texts \/ b = T!Thinking \/ b \in Uses
  BY DEF OfAssistant
<1>5. \A b \in OfUser : b \in Inner \/ b.type = "none" \/ b \in Results
  <2>1. T!Blank.type = "none"
    BY DEF T!Blank
  <2>2. QED
    BY <2>1 DEF OfUser
<1>6. QED
  BY <1>1, <1>2, <1>3, <1>4, <1>5, KindsAre

\* A sequence of some is a sequence of more.
LEMMA Widened ==
  ASSUME NEW A, NEW D, \A x \in A : x \in D, NEW s \in Seq(A)
  PROVE  s \in Seq(D)
  OBVIOUS

\* Sequences of blocks are sequences of pieces.
LEMMA SidesWiden ==
  /\ \A s \in Seq(OfUser) : s \in Seq(Piece)
  /\ \A s \in Seq(OfAssistant) : s \in Seq(Piece)
  /\ \A s \in Seq(Inner) : s \in Seq(Piece) /\ s \in Seq(OfUser)
  /\ \A s \in Seq(Parts) : s \in Seq(Piece) /\ s \in Seq(OfUser) /\ s \in Seq(Inner)
  /\ \A s \in Seq(Texts) : s \in Seq(Piece) /\ s \in Seq(OfUser) /\ s \in Seq(OfAssistant) /\ s \in Seq(Parts)
  /\ \A s \in Seq(Uses) : s \in Seq(Piece) /\ s \in Seq(OfAssistant)
  BY SidesAre

\* The operators of Messages are those functions, applied to each.
LEMMA EachIs ==
  ASSUME NEW s \in Seq(Piece)
  PROVE  /\ T!Words(s) = Mapped(WordsOf, s)
         /\ T!CallsOf(s) = Mapped(CallOf, s)
         /\ T!ToolMessages(s) = Mapped(Answered, s)
         /\ \A kinds : T!Of(kinds, s) = Mapped(KeptOf(kinds), s)
         /\ \A who : T!FindsAll(who, s) = Mapped(Found(who), s)
<1>1. \A i \in DOMAIN s : s[i] \in Piece
  OBVIOUS
<1>2. T!Words(s) = Mapped(WordsOf, s)
  <2>1. \A i \in DOMAIN s : WordsOf[s[i]] = IF s[i].type = "text" THEN s[i].text ELSE <<>>
    BY <1>1 DEF WordsOf
  <2>2. QED
    BY <2>1, SameFlatten DEF T!Words, T!Each, Mapped
<1>3. T!CallsOf(s) = Mapped(CallOf, s)
  <2>1. \A i \in DOMAIN s : CallOf[s[i]] = IF s[i].type = "tool_use" THEN <<s[i].call>> ELSE <<>>
    BY <1>1 DEF CallOf
  <2>2. QED
    BY <2>1, SameFlatten DEF T!CallsOf, T!Each, Mapped
<1>4. T!ToolMessages(s) = Mapped(Answered, s)
  <2>1. \A i \in DOMAIN s : Answered[s[i]] = IF s[i].type = "tool_result" THEN <<T!ToolMessage(s[i])>> ELSE <<>>
    BY <1>1 DEF Answered
  <2>2. QED
    BY <2>1, SameFlatten DEF T!ToolMessages, T!Each, Mapped
<1>5. ASSUME NEW kinds PROVE T!Of(kinds, s) = Mapped(KeptOf(kinds), s)
  <2>1. \A i \in DOMAIN s : KeptOf(kinds)[s[i]] = IF s[i].type \in kinds THEN <<s[i]>> ELSE <<>>
    BY <1>1 DEF KeptOf
  <2>2. QED
    BY <2>1, SameFlatten DEF T!Of, T!Those, T!Each, Mapped
<1>6. ASSUME NEW who PROVE T!FindsAll(who, s) = Mapped(Found(who), s)
  <2>1. \A i \in DOMAIN s : Found(who)[s[i]] = T!Finds(who, s[i])
    BY <1>1 DEF Found
  <2>2. QED
    BY <2>1, SameFlatten DEF T!FindsAll, T!Each, Mapped
<1>7. QED
  BY <1>2, <1>3, <1>4, <1>5, <1>6

\* The words are words, and calls are calls.
LEMMA PlainMakes == /\ Makes(WordsOf, Piece, {Word})
                    /\ Makes(CallOf, Piece, Calls)
                    /\ \A kinds : Makes(KeptOf(kinds), Piece, Piece)
<1>1. ASSUME NEW b \in Piece PROVE WordsOf[b] \in Seq({Word})
  BY PieceIs, EmptySeq DEF WordsOf
<1>2. ASSUME NEW b \in Piece PROVE CallOf[b] \in Seq(Calls)
  <2>1. CallOf[b] = IF b.type = "tool_use" THEN <<b.call>> ELSE <<>>
    BY DEF CallOf
  <2>2. CASE b.type = "tool_use"
    <3>1. b.call \in Calls
      BY <2>2, PieceIs
    <3>2. QED
      BY <2>1, <2>2, <3>1
  <2>3. CASE b.type # "tool_use"
    BY <2>1, <2>3, EmptySeq
  <2>4. QED
    BY <2>2, <2>3
<1>3. QED
  BY <1>1, <1>2 DEF WordsOf, CallOf, KeptOf, Makes

\* Words of the parts, of nothing, of one and of what is not a text.
LEMMA WordsAre ==
  ASSUME NEW s \in Seq(Piece), NEW t \in Seq(Piece)
  PROVE  /\ T!Words(s) \in Seq({Word}) /\ T!CallsOf(s) \in Seq(Calls)
         /\ s \o t \in Seq(Piece)
         /\ T!Words(s \o t) = T!Words(s) \o T!Words(t)
         /\ T!CallsOf(s \o t) = T!CallsOf(s) \o T!CallsOf(t)
<1>1. s \o t \in Seq(Piece)
  OBVIOUS
<1>2. T!Words(s) = Mapped(WordsOf, s) /\ T!CallsOf(s) = Mapped(CallOf, s)
  BY EachIs
<1>3. T!Words(t) = Mapped(WordsOf, t) /\ T!CallsOf(t) = Mapped(CallOf, t)
  BY EachIs
<1>4. PICK u \in Seq(Piece) : u = s \o t
  BY <1>1
<1>5. T!Words(u) = Mapped(WordsOf, u) /\ T!CallsOf(u) = Mapped(CallOf, u)
  BY EachIs
<1>6. Mapped(WordsOf, s) \in Seq({Word}) /\ Mapped(CallOf, s) \in Seq(Calls)
  BY MappedEach, PlainMakes
<1>7. Mapped(WordsOf, s \o t) = Mapped(WordsOf, s) \o Mapped(WordsOf, t)
  <2>1. Makes(WordsOf, Piece, {Word})
    BY PlainMakes
  <2>2. QED
    BY <2>1, MappedBoth
<1>8. Mapped(CallOf, s \o t) = Mapped(CallOf, s) \o Mapped(CallOf, t)
  <2>1. Makes(CallOf, Piece, Calls)
    BY PlainMakes
  <2>2. QED
    BY <2>1, MappedBoth
<1>9. QED
  BY <1>1, <1>2, <1>3, <1>4, <1>5, <1>6, <1>7, <1>8

\* A text alone.
LEMMA TextIs ==
  ASSUME NEW w \in Seq({Word})
  PROVE  /\ T!Text(w) \in Texts /\ <<T!Text(w)>> \in Seq(Texts) /\ T!TextOrNone(w) \in Seq(Texts)
         /\ T!Words(<<T!Text(w)>>) = w /\ T!Words(T!TextOrNone(w)) = w
<1>1. T!Text(w) \in Texts /\ T!Text(w).type = "text" /\ T!Text(w).text = w /\ T!Text(w) \in Piece
  BY DEF T!Text, Texts, Piece, OfUser, Inner, Parts
<1>2. <<T!Text(w)>> \in Seq(Texts) /\ T!TextOrNone(w) \in Seq(Texts)
  BY <1>1, EmptySeq DEF T!TextOrNone
<1>3. <<T!Text(w)>> \in Seq(Piece) /\ <<>> \in Seq(Piece)
  BY <1>1, EmptySeq
<1>4. T!Words(<<T!Text(w)>>) = Mapped(WordsOf, <<T!Text(w)>>) /\ T!Words(<<>>) = Mapped(WordsOf, <<>>)
  BY <1>3, EachIs
<1>5. Mapped(WordsOf, <<>>) = <<>> /\ Mapped(WordsOf, <<T!Text(w)>>) = WordsOf[T!Text(w)]
  BY <1>1, PlainMakes, MappedOne
<1>6. WordsOf[T!Text(w)] = w
  BY <1>1 DEF WordsOf
<1>7. QED
  BY <1>1, <1>2, <1>4, <1>5, <1>6 DEF T!TextOrNone

-----------------------------------------------------------------------------
(* What is built of a message.                                             *)

\* A message.
LEMMA FlatIs ==
  ASSUME NEW role \in FlatRoles, NEW content \in Seq(Parts), NEW calls \in Seq(Calls), NEW of \in Seq(Calls),
         role = "tool" => of # <<>>
  PROVE  \A m : m = T!Flat(role, content, calls, of) =>
           m \in FlatM /\ m.role = role /\ m.content = content /\ m.calls = calls /\ m.of = of
<1>1. SUFFICES ASSUME NEW m, m = T!Flat(role, content, calls, of)
               PROVE  m \in FlatM /\ m.role = role /\ m.content = content /\ m.calls = calls /\ m.of = of
  OBVIOUS
<1>2. m = [role |-> role, content |-> content, calls |-> calls, of |-> of]
  BY <1>1 DEF T!Flat
<1>3. m \in [role : FlatRoles, content : Seq(Parts), calls : Seq(Calls), of : Seq(Calls)]
  BY <1>2
<1>4. m.role = role /\ m.content = content /\ m.calls = calls /\ m.of = of
  BY <1>2
<1>5. QED
  BY <1>1, <1>3, <1>4 DEF FlatM

\* The message of a tool.
LEMMA ToolMessageIs ==
  ASSUME NEW b \in Results
  PROVE  /\ T!ToolMessage(b) \in FlatM /\ T!ToolMessage(b).role = "tool" /\ T!ToolMessage(b).of = <<b.call>>
         /\ T!ToolMessage(b).content = T!TextOrNone(T!Words(b.result)) /\ T!ToolMessage(b).calls = <<>>
<1>1. b.call \in Calls /\ b.result \in Seq(Inner)
  BY KindsAre
<1>2. b.result \in Seq(Piece) /\ <<>> \in Seq(Piece)
  BY <1>1, SidesWiden, EmptySeq
<1>3. T!Words(b.result) \in Seq({Word})
  BY <1>2, WordsAre
<1>4. T!TextOrNone(T!Words(b.result)) \in Seq(Parts)
  BY <1>3, TextIs, SidesWiden
<1>5. <<>> \in Seq(Calls) /\ <<b.call>> \in Seq(Calls) /\ <<b.call>> # <<>>
  BY <1>1, EmptySeq
<1>6. T!ToolMessage(b) = T!Flat("tool", T!TextOrNone(T!Words(b.result)), <<>>, <<b.call>>) /\ "tool" \in FlatRoles
  BY DEF T!ToolMessage, FlatRoles
<1>7. PICK r, c, e, o, m : r = "tool" /\ c = T!TextOrNone(T!Words(b.result)) /\ e = <<>> /\ o = <<b.call>> /\ m = T!ToolMessage(b)
  OBVIOUS
<1>8. m = T!Flat(r, c, e, o) /\ r \in FlatRoles /\ c \in Seq(Parts) /\ e \in Seq(Calls) /\ o \in Seq(Calls) /\ o # <<>>
  BY <1>4, <1>5, <1>6, <1>7
<1>9. m \in FlatM /\ m.role = r /\ m.content = c /\ m.calls = e /\ m.of = o
  BY <1>8, FlatIs
<1>10. QED
  BY <1>7, <1>9

\* Results make messages.
LEMMA AnsweredMakes == Makes(Answered, Piece, FlatM)
<1>1. ASSUME NEW b \in Piece PROVE Answered[b] \in Seq(FlatM)
  <2>1. Answered[b] = IF b.type = "tool_result" THEN <<T!ToolMessage(b)>> ELSE <<>>
    BY DEF Answered
  <2>2. CASE b.type = "tool_result"
    <3>1. b \in Results
      BY <2>2, PieceIs
    <3>2. T!ToolMessage(b) \in FlatM
      BY <3>1, ToolMessageIs
    <3>3. QED
      BY <2>1, <2>2, <3>2
  <2>3. CASE b.type # "tool_result"
    BY <2>1, <2>3, EmptySeq
  <2>4. QED
    BY <2>2, <2>3
<1>2. QED
  BY <1>1 DEF Makes, Answered

\* Calls of tools and their blocks.
LEMMA UsesAre ==
  ASSUME NEW calls \in Seq(Calls)
  PROVE  /\ T!Uses(calls) \in Seq(Uses) /\ T!Uses(calls) \in Seq(Piece) /\ T!Uses(calls) \in Seq(OfAssistant)
         /\ T!Words(T!Uses(calls)) = <<>> /\ T!CallsOf(T!Uses(calls)) = calls
<1>1. DOMAIN calls = 1 .. Len(calls) /\ Len(calls) \in Nat /\ \A i \in DOMAIN calls : calls[i] \in Calls
  OBVIOUS
<1>2. PICK u : u = T!Uses(calls)
  OBVIOUS
<1>3. DOMAIN u = DOMAIN calls /\ \A i \in DOMAIN calls : u[i] = T!ToolUse(calls[i])
  BY <1>2 DEF T!Uses
<1>4. \A i \in DOMAIN calls : u[i] \in Uses /\ u[i].type = "tool_use" /\ u[i].call = calls[i]
  BY <1>1, <1>3 DEF T!ToolUse, Uses
<1>5. u \in Seq(Uses) /\ u \in Seq(Piece) /\ u \in Seq(OfAssistant)
  <2>1. u = [i \in 1 .. Len(calls) |-> u[i]]
    BY <1>1, <1>2, <1>3 DEF T!Uses
  <2>2. u \in Seq(Uses)
    BY <1>1, <1>4, <2>1, IsASeq
  <2>3. QED
    BY <2>2, SidesWiden
<1>6. \A i \in DOMAIN u : u[i] \in Piece
  BY <1>5
<1>7. T!Words(u) = <<>>
  <2>1. \A i \in DOMAIN u : WordsOf[u[i]] = <<>>
    BY <1>3, <1>4, <1>6 DEF WordsOf
  <2>2. Mapped(WordsOf, u) = <<>>
    BY <1>5, <2>1, MappedNone
  <2>3. QED
    BY <1>5, <2>2, EachIs
<1>8. T!CallsOf(u) = calls
  <2>1. \A i \in DOMAIN u : CallOf[u[i]] = <<calls[i]>>
    BY <1>3, <1>4, <1>6 DEF CallOf
  <2>2. PICK g : g = [c \in Calls |-> <<c>>]
    OBVIOUS
  <2>3. Makes(g, Calls, Calls) /\ \A i \in DOMAIN calls : g[calls[i]] = <<calls[i]>>
    BY <1>1, <2>2 DEF Makes
  <2>4. Mapped(g, calls) = calls
    BY <2>3, MappedItself
  <2>5. Mapped(CallOf, u) = Mapped(g, calls)
    <3>1. [i \in DOMAIN u |-> CallOf[u[i]]] = [i \in DOMAIN calls |-> g[calls[i]]]
      BY <1>3, <2>1, <2>3
    <3>2. QED
      BY <3>1 DEF Mapped
  <2>6. QED
    BY <1>5, <2>4, <2>5, EachIs
<1>9. QED
  BY <1>2, <1>5, <1>7, <1>8

\* Texts call nothing.
LEMMA TextsCallNothing ==
  ASSUME NEW s \in Seq(Texts)
  PROVE  T!CallsOf(s) = <<>>
<1>1. s \in Seq(Piece)
  BY SidesWiden
<1>2. \A i \in DOMAIN s : CallOf[s[i]] = <<>>
  <2>1. \A i \in DOMAIN s : s[i] \in Texts
    OBVIOUS
  <2>2. QED
    BY <2>1, SidesAre DEF CallOf
<1>3. Mapped(CallOf, s) = <<>>
  BY <1>1, <1>2, MappedNone
<1>4. QED
  BY <1>1, <1>3, EachIs

\* A text and calls: what an assistant says is found in its blocks.
LEMMA TextAndUses ==
  ASSUME NEW w \in Seq({Word}), NEW calls \in Seq(Calls)
  PROVE  LET s == T!TextOrNone(w) \o T!Uses(calls) IN
         s \in Seq(OfAssistant) /\ s \in Seq(Piece) /\ T!Words(s) = w /\ T!CallsOf(s) = calls
<1>1. PICK a, b : a = T!TextOrNone(w) /\ b = T!Uses(calls)
  OBVIOUS
<1>2. a \in Seq(Texts) /\ T!Words(a) = w
  BY <1>1, TextIs
<1>3. b \in Seq(Piece) /\ b \in Seq(OfAssistant) /\ T!Words(b) = <<>> /\ T!CallsOf(b) = calls
  BY <1>1, UsesAre
<1>4. a \in Seq(Piece) /\ a \in Seq(OfAssistant) /\ T!CallsOf(a) = <<>>
  BY <1>2, SidesWiden, TextsCallNothing
<1>5. a \o b \in Seq(OfAssistant)
  BY <1>3, <1>4
<1>6. a \o b \in Seq(Piece) /\ T!Words(a \o b) = T!Words(a) \o T!Words(b) /\ T!CallsOf(a \o b) = T!CallsOf(a) \o T!CallsOf(b)
  BY <1>3, <1>4, WordsAre
<1>7. w \o <<>> = w /\ <<>> \o calls = calls
  BY ConcatEmptySeq
<1>8. QED
  BY <1>1, <1>2, <1>3, <1>4, <1>5, <1>6, <1>7

\* The message of an assistant.
LEMMA AssistantMessageIs ==
  ASSUME NEW s \in Seq(Piece)
  PROVE  /\ T!AssistantMessage(s) \in FlatM /\ T!AssistantMessage(s).role = "assistant"
         /\ T!AssistantMessage(s).content = T!TextOrNone(T!Words(s)) /\ T!AssistantMessage(s).calls = T!CallsOf(s)
<1>1. T!Words(s) \in Seq({Word}) /\ T!CallsOf(s) \in Seq(Calls)
  BY WordsAre
<1>2. T!TextOrNone(T!Words(s)) \in Seq(Parts) /\ <<>> \in Seq(Calls)
  BY <1>1, TextIs, SidesWiden, EmptySeq
<1>3. T!AssistantMessage(s) = T!Flat("assistant", T!TextOrNone(T!Words(s)), T!CallsOf(s), <<>>) /\ "assistant" \in FlatRoles
  BY DEF T!AssistantMessage, FlatRoles
<1>4. PICK r, c, d, e, m : r = "assistant" /\ c = T!TextOrNone(T!Words(s)) /\ d = T!CallsOf(s) /\ e = <<>> /\ m = T!AssistantMessage(s)
  OBVIOUS
<1>5. m = T!Flat(r, c, d, e) /\ r \in FlatRoles /\ r # "tool" /\ c \in Seq(Parts) /\ d \in Seq(Calls) /\ e \in Seq(Calls)
  BY <1>1, <1>2, <1>3, <1>4
<1>6. m \in FlatM /\ m.role = r /\ m.content = c /\ m.calls = d
  BY <1>5, FlatIs
<1>7. QED
  BY <1>4, <1>6

\* The texts and images of what is said are such.
LEMMA PartsFound ==
  ASSUME NEW s \in Seq(Piece)
  PROVE  T!Of({"text", "image"}, s) \in Seq(Parts)
<1>1. PICK g : g = KeptOf({"text", "image"})
  OBVIOUS
<1>2. ASSUME NEW b \in Piece PROVE g[b] \in Seq(Parts)
  <2>1. g[b] = IF b.type \in {"text", "image"} THEN <<b>> ELSE <<>>
    BY <1>1 DEF KeptOf
  <2>2. b.type \in {"text", "image"} => b \in Parts
    BY PieceIs DEF Parts
  <2>3. QED
    BY <2>1, <2>2, EmptySeq
<1>3. Makes(g, Piece, Parts)
  BY <1>1, <1>2 DEF Makes, KeptOf
<1>4. Mapped(g, s) \in Seq(Parts)
  BY <1>3, MappedEach
<1>5. QED
  BY <1>1, <1>4, EachIs

\* What a user says: words and images first, then the results.
LEMMA UserMessagesAre ==
  ASSUME NEW s \in Seq(Piece)
  PROVE  LET parts == T!Of({"text", "image"}, s) IN
         /\ T!UserMessages(s) = (IF parts = <<>> THEN <<>> ELSE <<T!Say("user", parts)>>) \o T!ToolMessages(s)
         /\ parts \in Seq(Parts) /\ T!ToolMessages(s) \in Seq(FlatM) /\ T!UserMessages(s) \in Seq(FlatM)
         /\ T!Say("user", parts) \in FlatM /\ T!Say("user", parts).role = "user" /\ T!Say("user", parts).content = parts
         /\ T!Say("user", parts).calls = <<>>
<1> DEFINE parts == T!Of({"text", "image"}, s)
<1>1. parts \in Seq(Parts) /\ <<>> \in Seq(Calls)
  BY PartsFound, EmptySeq
<1>2. T!ToolMessages(s) \in Seq(FlatM)
  <2>1. Mapped(Answered, s) \in Seq(FlatM)
    BY AnsweredMakes, MappedEach
  <2>2. QED
    BY <2>1, EachIs
<1>3. T!UserMessages(s) = (IF parts = <<>> THEN <<>> ELSE <<T!Say("user", parts)>>) \o T!ToolMessages(s)
  BY DEF T!UserMessages
<1>. HIDE DEF parts
<1>4. T!Say("user", parts) = T!Flat("user", parts, <<>>, <<>>) /\ "user" \in FlatRoles
  BY DEF T!Say, FlatRoles
<1>5. /\ T!Say("user", parts) \in FlatM /\ T!Say("user", parts).role = "user"
      /\ T!Say("user", parts).content = parts /\ T!Say("user", parts).calls = <<>>
  <2>1. PICK r, e, m : r = "user" /\ e = <<>> /\ m = T!Say("user", parts)
    OBVIOUS
  <2>2. m = T!Flat(r, parts, e, e) /\ r \in FlatRoles /\ r # "tool" /\ e \in Seq(Calls)
    BY <1>1, <1>4, <2>1
  <2>3. m \in FlatM /\ m.role = r /\ m.content = parts /\ m.calls = e
    BY <1>1, <2>2, FlatIs
  <2>4. QED
    BY <2>1, <2>3
<1>6. (IF parts = <<>> THEN <<>> ELSE <<T!Say("user", parts)>>) \in Seq(FlatM)
  BY <1>5, EmptySeq
<1>7. T!UserMessages(s) \in Seq(FlatM)
  BY <1>2, <1>3, <1>6
<1>8. QED
  BY <1>1, <1>2, <1>3, <1>4, <1>5, <1>7 DEF parts

\* One function for what is built of a canonical message.
Built == [m \in CanonM |-> T!BuiltFlat(m)]

\* Messages are made of messages.
LEMMA BuiltMakes == Makes(Built, CanonM, FlatM)
<1>1. ASSUME NEW m \in CanonM PROVE T!BuiltFlat(m) \in Seq(FlatM)
  <2>1. m.content \in Seq(Piece) /\ m.role \in {"system", "developer", "user", "assistant"}
    BY DEF CanonM
  <2>2. PICK s \in Seq(Piece) : s = m.content
    BY <2>1
  <2>3. CASE m.role = "user"
    <3>1. T!BuiltFlat(m) = T!UserMessages(s)
      BY <2>2, <2>3 DEF T!BuiltFlat
    <3>2. QED
      BY <3>1, UserMessagesAre
  <2>4. CASE m.role = "assistant"
    <3>1. T!BuiltFlat(m) = <<T!AssistantMessage(s)>>
      BY <2>2, <2>4 DEF T!BuiltFlat
    <3>2. T!AssistantMessage(s) \in FlatM
      BY AssistantMessageIs
    <3>3. QED
      BY <3>1, <3>2
  <2>5. CASE m.role \in {"system", "developer"}
    <3>1. PICK r, c, e, x : r = m.role /\ c = T!TextOrNone(T!Words(s)) /\ e = <<>> /\ x = T!Say(r, c)
      OBVIOUS
    <3>2. T!BuiltFlat(m) = <<x>>
      BY <2>2, <2>5, <3>1 DEF T!BuiltFlat
    <3>3. c \in Seq(Parts)
      BY <3>1, WordsAre, TextIs, SidesWiden
    <3>4. x = T!Flat(r, c, e, e) /\ r \in FlatRoles /\ r # "tool" /\ e \in Seq(Calls)
      BY <2>5, <3>1, EmptySeq DEF T!Say, FlatRoles
    <3>5. x \in FlatM
      BY <3>3, <3>4, FlatIs
    <3>6. QED
      BY <3>2, <3>5
  <2>6. QED
    BY <2>1, <2>3, <2>4, <2>5
<1>2. QED
  BY <1>1 DEF Makes, Built

\* BuildFlat is that function, applied to each, after the system prompt.
LEMMA BuildIs ==
  ASSUME NEW s \in Seq(CanonM), NEW prompt
  PROVE  T!BuildFlat(prompt, s) =
           (IF T!Words(prompt) = <<>> THEN <<>> ELSE <<T!Say("system", <<T!Text(T!Words(prompt))>>)>>) \o Mapped(Built, s)
<1>1. \A i \in DOMAIN s : Built[s[i]] = T!BuiltFlat(s[i])
  <2>1. \A i \in DOMAIN s : s[i] \in CanonM
    OBVIOUS
  <2>2. QED
    BY <2>1 DEF Built
<1>2. T!Each(s, T!BuiltFlat) = Mapped(Built, s)
  BY <1>1, SameFlatten DEF T!Each, Mapped
<1>3. QED
  BY <1>2 DEF T!BuildFlat

-----------------------------------------------------------------------------
(* What is read of a message.                                              *)

\* Words, images, calls and results are entries.
LEMMA FoundMakes ==
  ASSUME NEW who \in Readers
  PROVE  Makes(Found(who), Piece, Entry)
<1>1. ASSUME NEW b \in Piece PROVE T!Finds(who, b) \in Seq(Entry)
  <2>1. CASE b.type = "text"
    <3>1. b.text \in Seq({Word}) /\ T!Finds(who, b) = [i \in DOMAIN b.text |-> <<who, b.text[i]>>]
      BY <2>1, PieceIs DEF T!Finds
    <3>2. PICK w \in Seq({Word}) : w = b.text
      BY <3>1
    <3>3. \A i \in 1 .. Len(w) : w[i] = Word
      OBVIOUS
    <3>4. <<who, Word>> \in Entry
      BY DEF Entry, Speech
    <3>5. [i \in 1 .. Len(w) |-> <<who, w[i]>>] \in [1 .. Len(w) -> Entry]
      BY <3>3, <3>4
    <3>6. DOMAIN w = 1 .. Len(w) /\ Len(w) \in Nat
      OBVIOUS
    <3>7. QED
      BY <3>1, <3>2, <3>5, <3>6, IsASeq
  <2>2. CASE b.type = "image"
    <3>1. T!Finds(who, b) = << <<who, Image>> >>
      BY <2>2, PieceIs DEF T!Finds
    <3>2. <<who, Image>> \in Entry
      BY DEF Entry, Speech
    <3>3. QED
      BY <3>1, <3>2
  <2>3. CASE b.type = "tool_use"
    <3>1. T!Finds(who, b) = << <<"call", b.call>> >> /\ b.call \in Calls
      BY <2>3, PieceIs DEF T!Finds
    <3>2. <<"call", b.call>> \in Entry
      BY <3>1 DEF Entry, Traffic
    <3>3. QED
      BY <3>1, <3>2
  <2>4. CASE b.type = "tool_result"
    <3>1. T!Finds(who, b) = << <<"result", b.call, T!Words(b.result)>> >> /\ b.call \in Calls /\ b.result \in Seq(Piece)
      BY <2>4, PieceIs, SidesWiden DEF T!Finds
    <3>2. T!Words(b.result) \in Seq({Word})
      BY <3>1, WordsAre
    <3>3. <<"result", b.call, T!Words(b.result)>> \in Entry
      BY <3>1, <3>2 DEF Entry, Traffic
    <3>4. QED
      BY <3>1, <3>3
  <2>5. CASE b.type \notin {"text", "image", "tool_use", "tool_result"}
    <3>1. T!Finds(who, b) = <<>>
      BY <2>5 DEF T!Finds
    <3>2. QED
      BY <3>1, EmptySeq
  <2>6. QED
    BY <2>1, <2>2, <2>3, <2>4, <2>5
<1>2. QED
  BY <1>1 DEF Makes, Found

\* What is found in blocks is found in their parts.
LEMMA FindsBoth ==
  ASSUME NEW who \in Readers, NEW s \in Seq(Piece), NEW t \in Seq(Piece)
  PROVE  /\ T!FindsAll(who, s) \in Seq(Entry)
         /\ T!FindsAll(who, s \o t) = T!FindsAll(who, s) \o T!FindsAll(who, t)
<1>1. PICK g : g = Found(who) /\ Makes(g, Piece, Entry)
  BY FoundMakes
<1>a. s \o t \in Seq(Piece)
  OBVIOUS
<1>2. PICK u \in Seq(Piece) : u = s \o t
  BY <1>a
<1>3. T!FindsAll(who, s) = Mapped(g, s)
  BY <1>1, EachIs
<1>4. T!FindsAll(who, t) = Mapped(g, t)
  BY <1>1, EachIs
<1>5. T!FindsAll(who, u) = Mapped(g, u)
  BY <1>1, EachIs
<1>6. Mapped(g, s) \in Seq(Entry)
  BY <1>1, MappedEach
<1>7. Mapped(g, s \o t) = Mapped(g, s) \o Mapped(g, t)
  <2>1. Makes(g, Piece, Entry)
    BY <1>1
  <2>2. QED
    BY <2>1, MappedBoth
<1>8. QED
  BY <1>2, <1>3, <1>4, <1>5, <1>6, <1>7

\* In nothing there is nothing, and in one block what it has.
LEMMA FindsOne ==
  ASSUME NEW who \in Readers, NEW b \in Piece
  PROVE  T!FindsAll(who, <<>>) = <<>> /\ T!FindsAll(who, <<b>>) = T!Finds(who, b) /\ T!Finds(who, b) \in Seq(Entry)
<1>1. PICK g : g = Found(who) /\ Makes(g, Piece, Entry)
  BY FoundMakes
<1>2. <<>> \in Seq(Piece) /\ <<b>> \in Seq(Piece)
  BY EmptySeq
<1>3. T!FindsAll(who, <<>>) = Mapped(g, <<>>) /\ T!FindsAll(who, <<b>>) = Mapped(g, <<b>>)
  BY <1>1, <1>2, EachIs
<1>4. Mapped(g, <<>>) = <<>> /\ Mapped(g, <<b>>) = g[b]
  BY <1>1, MappedOne
<1>5. g[b] = T!Finds(who, b) /\ g[b] \in Seq(Entry)
  BY <1>1 DEF Found, Makes
<1>6. QED
  BY <1>3, <1>4, <1>5

\* What a message of OpenAI says.
ReadOf == [m \in FlatM |-> T!ReadFlat(m)]

\* It says entries.
LEMMA ReadMakes == Makes(ReadOf, FlatM, Entry)
<1>1. ASSUME NEW m \in FlatM PROVE T!ReadFlat(m) \in Seq(Entry)
  <2>1. m.role \in FlatRoles /\ m.content \in Seq(Parts) /\ m.calls \in Seq(Calls) /\ m.of \in Seq(Calls)
        /\ (m.role = "tool" => m.of # <<>>)
    BY DEF FlatM
  <2>2. m.content \in Seq(Piece) /\ T!Uses(m.calls) \in Seq(Piece)
    BY <2>1, SidesWiden, UsesAre
  <2>3. CASE m.role = "tool"
    <3>1. m.of[1] \in Calls
      BY <2>1, <2>3
    <3>2. T!Words(m.content) \in Seq({Word})
      BY <2>2, WordsAre
    <3>3. <<"result", m.of[1], T!Words(m.content)>> \in Entry
      BY <3>1, <3>2 DEF Entry, Traffic
    <3>4. T!ReadFlat(m) = << <<"result", m.of[1], T!Words(m.content)>> >>
      BY <2>3 DEF T!ReadFlat
    <3>5. QED
      BY <3>3, <3>4
  <2>4. CASE m.role \in {"system", "developer"}
    <3>1. T!ReadFlat(m) = T!FindsAll("instruction", m.content)
      BY <2>4 DEF T!ReadFlat
    <3>2. "instruction" \in Readers
      BY DEF Readers
    <3>3. QED
      BY <2>2, <3>1, <3>2, FindsBoth
  <2>5. CASE m.role \in {"user", "assistant"}
    <3>1. T!ReadFlat(m) = T!FindsAll(m.role, m.content) \o T!FindsAll(m.role, T!Uses(m.calls))
      BY <2>5 DEF T!ReadFlat
    <3>2. m.role \in Readers
      BY <2>5 DEF Readers
    <3>3. T!FindsAll(m.role, m.content) \in Seq(Entry)
      BY <2>2, <3>2, FindsBoth
    <3>4. T!FindsAll(m.role, T!Uses(m.calls)) \in Seq(Entry)
      BY <2>2, <3>2, FindsBoth
    <3>5. QED
      BY <3>1, <3>3, <3>4
  <2>6. QED
    BY <2>1, <2>3, <2>4, <2>5 DEF FlatRoles
<1>2. QED
  BY <1>1 DEF Makes, ReadOf

\* ReadsFlat is that function, applied to each.
LEMMA ReadsIs ==
  ASSUME NEW s \in Seq(FlatM)
  PROVE  T!ReadsFlat(s) = Mapped(ReadOf, s) /\ T!ReadsFlat(s) \in Seq(Entry)
<1>1. \A i \in DOMAIN s : ReadOf[s[i]] = T!ReadFlat(s[i])
  <2>1. \A i \in DOMAIN s : s[i] \in FlatM
    OBVIOUS
  <2>2. QED
    BY <2>1 DEF ReadOf
<1>2. T!ReadsFlat(s) = Mapped(ReadOf, s)
  BY <1>1, SameFlatten DEF T!ReadsFlat, T!Each, Mapped
<1>3. QED
  BY <1>2, ReadMakes, MappedEach

-----------------------------------------------------------------------------
(* What is parsed of a message of OpenAI.                                  *)

Instructs(m) == m.role \in {"system", "developer"}

\* The messages a client of OpenAI sends.
LEMMA FlatMessageIs ==
  ASSUME NEW m \in T!FlatMessages
  PROVE  /\ m \in FlatM /\ m.role \in FlatRoles /\ m = T!Flat(m.role, m.content, m.calls, m.of)
         /\ \E w \in Seq({Word}) : m.role \in {"system", "developer", "assistant"} => m.content = T!TextOrNone(w)
         /\ m.role = "user" => m.content # <<>>
         /\ m.role # "tool" => m.of = <<>>
         /\ m.role # "assistant" => m.calls = <<>>
         /\ m.role = "tool" => \E c \in Calls : m.of = <<c>> /\ m.content = <<T!Text(T!SomeWords)>>
<1>1. T!SomeWords \in Seq({Word}) /\ <<>> \in Seq({Word}) /\ <<>> \in Seq(Calls)
  BY EmptySeq DEF T!SomeWords
<1>2. T!TextOrNone(<<>>) = <<>> /\ T!TextOrNone(T!SomeWords) = <<T!Text(T!SomeWords)>>
  BY DEF T!TextOrNone, T!SomeWords
<1>3. <<>> \in Seq(Parts) /\ <<T!Text(T!SomeWords)>> \in Seq(Parts)
  BY <1>1, EmptySeq, TextIs, SidesWiden
<1>4. \A p \in T!UpTo(MaxBlocks, {T!Text(T!SomeWords), T!Picture}) : p \in Seq(Parts)
  <2>1. SUFFICES ASSUME NEW k \in 0 .. MaxBlocks, NEW p \in [1 .. k -> {T!Text(T!SomeWords), T!Picture}]
                 PROVE  p \in Seq(Parts)
    BY DEF T!UpTo
  <2>2. {T!Text(T!SomeWords), T!Picture} \subseteq Parts
    BY <1>1, TextIs DEF Parts
  <2>3. k \in Nat /\ p \in [1 .. k -> Parts]
    BY <2>2
  <2>4. QED
    BY <2>3, IsASeq
<1>5. \A calls \in T!UpTo(2, Calls) : calls \in Seq(Calls)
  <2>1. SUFFICES ASSUME NEW k \in 0 .. 2, NEW calls \in [1 .. k -> Calls]
                 PROVE  calls \in Seq(Calls)
    BY DEF T!UpTo
  <2>2. QED
    BY IsASeq
<1> DEFINE F1 == [role : {"system", "developer"}, content : {<<>>, <<T!Text(T!SomeWords)>>}, calls : {<<>>}, of : {<<>>}]
           F2 == [role : {"user"}, content : T!UpTo(MaxBlocks, {T!Text(T!SomeWords), T!Picture}) \ {<<>>},
                  calls : {<<>>}, of : {<<>>}]
           F3 == [role : {"assistant"}, content : {<<>>, <<T!Text(T!SomeWords)>>}, calls : T!UpTo(2, Calls), of : {<<>>}]
           F4 == [role : {"tool"}, content : {<<T!Text(T!SomeWords)>>}, calls : {<<>>}, of : { <<call>> : call \in Calls }]
<1>6. m \in F1 \/ m \in F2 \/ m \in F3 \/ m \in F4
  BY DEF T!FlatMessages
<1>7. m.role \in FlatRoles /\ m = T!Flat(m.role, m.content, m.calls, m.of)
  BY <1>6 DEF FlatRoles, T!Flat
<1>8. m.content \in Seq(Parts) /\ m.calls \in Seq(Calls)
  BY <1>1, <1>3, <1>4, <1>5, <1>6
<1>9. /\ m.role \in {"system", "developer", "assistant"} => m.content = T!TextOrNone(<<>>) \/ m.content = T!TextOrNone(T!SomeWords)
      /\ m.role = "user" => m.content # <<>>
      /\ m.role # "tool" => m.of = <<>>
      /\ m.role # "assistant" => m.calls = <<>>
      /\ m.role = "tool" => \E c \in Calls : m.of = <<c>> /\ m.content = <<T!Text(T!SomeWords)>>
  BY <1>2, <1>6
<1>10. m.of \in Seq(Calls) /\ (m.role = "tool" => m.of # <<>>)
  <2>. HIDE DEF F1, F2, F3, F4
  <2>1. CASE m.role = "tool"
    <3>1. PICK c \in Calls : m.of = <<c>>
      BY <1>9, <2>1
    <3>2. QED
      BY <3>1
  <2>2. CASE m.role # "tool"
    BY <1>1, <1>9, <2>2
  <2>3. QED
    BY <2>1, <2>2
<1>11. PICK r, c, d, e : r = m.role /\ c = m.content /\ d = m.calls /\ e = m.of
  OBVIOUS
<1>12. m \in FlatM
  <2>. HIDE DEF F1, F2, F3, F4
  <2>1. m = T!Flat(r, c, d, e) /\ r \in FlatRoles /\ c \in Seq(Parts) /\ d \in Seq(Calls) /\ e \in Seq(Calls)
        /\ (r = "tool" => e # <<>>)
    BY <1>7, <1>8, <1>10, <1>11
  <2>2. QED
    BY <2>1, FlatIs
<1>13. \E w \in Seq({Word}) : m.role \in {"system", "developer", "assistant"} => m.content = T!TextOrNone(w)
  <2>. HIDE DEF F1, F2, F3, F4
  <2>1. QED
    BY <1>1, <1>9
<1>14. QED
  BY <1>7, <1>9, <1>12, <1>13

\* What is found of a canonical message among the instructions and in the conversation.
Instructed == [m \in CanonM |-> IF T!Conversation(m) THEN <<>> ELSE T!FindsAll("instruction", m.content)]
Spoken     == [m \in CanonM |-> IF T!Conversation(m) THEN T!FindsAll(m.role, m.content) ELSE <<>>]

\* Both are entries.
LEMMA HeardMakes == Makes(Instructed, CanonM, Entry) /\ Makes(Spoken, CanonM, Entry)
<1>1. ASSUME NEW m \in CanonM PROVE Instructed[m] \in Seq(Entry) /\ Spoken[m] \in Seq(Entry)
  <2>1. m.content \in Seq(Piece) /\ m.role \in Readers /\ "instruction" \in Readers
    BY DEF CanonM, Readers
  <2>2. T!FindsAll(m.role, m.content) \in Seq(Entry)
    BY <2>1, FindsBoth
  <2>3. T!FindsAll("instruction", m.content) \in Seq(Entry)
    BY <2>1, FindsBoth
  <2>4. QED
    BY <2>2, <2>3, EmptySeq DEF Instructed, Spoken
<1>2. QED
  BY <1>1 DEF Makes, Instructed, Spoken

\* A message more, which is found where it belongs,
Added(c, d, m) ==
  \E x \in CanonM : /\ d = Append(c, x)
                    /\ Instructed[x] = IF Instructs(m) THEN T!ReadFlat(m) ELSE <<>>
                    /\ Spoken[x] = IF Instructs(m) THEN <<>> ELSE T!ReadFlat(m)
                    /\ T!Conversation(x) <=> ~Instructs(m)

\* or a result more in the user's last message.
Extended(c, d, m) ==
  \E s \in Seq(CanonM), x \in CanonM, y \in CanonM :
    /\ c = Append(s, x) /\ d = Append(s, y) /\ x.role = y.role
    /\ Instructed[y] = Instructed[x] /\ Spoken[y] = Spoken[x] \o T!ReadFlat(m)
    /\ T!Conversation(x) /\ T!Conversation(y) /\ ~Instructs(m)

\* An instruction,
LEMMA InstructionParsed ==
  ASSUME NEW c \in Seq(CanonM), NEW m \in T!FlatMessages, Instructs(m)
  PROVE  Added(c, T!Parsed(c, m), m)
<1>1. PICK w \in Seq({Word}) : m.content = T!TextOrNone(w)
  BY FlatMessageIs DEF Instructs
<1>2. m = T!Flat(m.role, m.content, m.calls, m.of) /\ m.of = <<>> /\ m.calls = <<>> /\ m.role \in {"system", "developer"}
  BY FlatMessageIs DEF Instructs
<1>3. PICK t : t = T!TextOrNone(w)
  OBVIOUS
<1>4. t \in Seq(Texts) /\ t \in Seq(Piece) /\ T!Words(t) = w /\ T!TextOrNone(T!Words(m.content)) = t
  BY <1>1, <1>3, TextIs, SidesWiden
<1>5. PICK x : x = [role |-> m.role, content |-> t]
  OBVIOUS
<1>6. x \in CanonM /\ x.role = m.role /\ x.content = t
  BY <1>2, <1>4, <1>5 DEF CanonM
<1>7. T!Parsed(c, m) = Append(c, x)
  BY <1>2, <1>4, <1>5 DEF T!Parsed
<1>8. ~T!Conversation(x)
  BY <1>2, <1>6 DEF T!Conversation
<1>9. T!ReadFlat(m) = T!FindsAll("instruction", t)
  BY <1>1, <1>2, <1>3 DEF T!ReadFlat
<1>10. Instructed[x] = T!ReadFlat(m) /\ Spoken[x] = <<>>
  BY <1>6, <1>8, <1>9 DEF Instructed, Spoken
<1>11. QED
  BY <1>6, <1>7, <1>8, <1>10 DEF Added

\* a user's words and images,
LEMMA UserParsed ==
  ASSUME NEW c \in Seq(CanonM), NEW m \in T!FlatMessages, m.role = "user"
  PROVE  Added(c, T!Parsed(c, m), m)
<1>1. m = T!Flat("user", m.content, <<>>, <<>>) /\ m.content # <<>> /\ m \in FlatM
  BY FlatMessageIs
<1>2. PICK t \in Seq(Parts) : t = m.content
  BY <1>1 DEF FlatM
<1>3. t # <<>> /\ t \in Seq(OfUser) /\ t \in Seq(Piece) /\ m = T!Say("user", t)
  BY <1>1, <1>2, SidesWiden DEF T!Say
<1>4. PICK x : x = [role |-> "user", content |-> t]
  OBVIOUS
<1>5. x \in CanonM /\ x.role = "user" /\ x.content = t
  BY <1>3, <1>4 DEF CanonM
<1>6. T!Parsed(c, m) = Append(c, x)
  BY <1>2, <1>4 DEF T!Parsed
<1>7. T!ReadFlat(m) = T!FindsAll("user", t)
  <2>1. T!ReadFlat(m) = T!FindsAll("user", t) \o T!FindsAll("user", T!Uses(<<>>))
    <3>1. m.calls = <<>>
      BY FlatMessageIs
    <3>2. QED
      BY <1>2, <3>1 DEF T!ReadFlat
  <2>2. T!Uses(<<>>) = <<>>
    BY DEF T!Uses
  <2>3. "user" \in Readers /\ T!Picture \in Piece
    BY DEF Readers, Piece, OfUser, Inner, Parts
  <2>4. T!FindsAll("user", <<>>) = <<>> /\ T!FindsAll("user", t) \in Seq(Entry)
    BY <1>3, <2>3, FindsOne, FindsBoth
  <2>5. QED
    BY <2>1, <2>2, <2>4, ConcatEmptySeq
<1>8. T!Conversation(x) /\ ~Instructs(m)
  BY <1>5 DEF T!Conversation, Instructs
<1>9. Instructed[x] = <<>> /\ Spoken[x] = T!ReadFlat(m)
  BY <1>5, <1>7, <1>8 DEF Instructed, Spoken
<1>10. QED
  BY <1>5, <1>6, <1>8, <1>9 DEF Added

\* and an assistant's words and calls are added.
LEMMA AssistantParsed ==
  ASSUME NEW c \in Seq(CanonM), NEW m \in T!FlatMessages, m.role = "assistant"
  PROVE  Added(c, T!Parsed(c, m), m)
<1>1. PICK w \in Seq({Word}) : m.content = T!TextOrNone(w)
  BY FlatMessageIs
<1>2. m = T!Flat("assistant", m.content, m.calls, <<>>) /\ m \in FlatM
  BY FlatMessageIs
<1>3. PICK d \in Seq(Calls) : d = m.calls
  BY <1>2 DEF FlatM
<1>4. PICK a, u : a = T!TextOrNone(w) /\ u = T!Uses(d)
  OBVIOUS
<1>5. a \in Seq(Texts) /\ a \in Seq(Piece) /\ T!Words(a) = w
  BY <1>4, TextIs, SidesWiden
<1>6. u \in Seq(Piece)
  BY <1>4, UsesAre
<1>7. PICK t : t = a \o u
  OBVIOUS
<1>8. t \in Seq(OfAssistant) /\ t \in Seq(Piece) /\ T!Words(t) = w /\ T!CallsOf(t) = d
  BY <1>4, <1>7, TextAndUses
<1>9. PICK x : x = [role |-> "assistant", content |-> t]
  OBVIOUS
<1>10. x \in CanonM /\ x.role = "assistant" /\ x.content = t
  BY <1>8, <1>9 DEF CanonM
<1>11. T!Parsed(c, m) = Append(c, x)
  <2>1. T!TextOrNone(T!Words(m.content)) \o T!Uses(m.calls) = t
    BY <1>1, <1>3, <1>4, <1>5, <1>7
  <2>2. QED
    BY <1>9, <2>1 DEF T!Parsed
<1>12. T!ReadFlat(m) = T!FindsAll("assistant", t)
  <2>1. T!ReadFlat(m) = T!FindsAll("assistant", a) \o T!FindsAll("assistant", u)
    BY <1>1, <1>3, <1>4 DEF T!ReadFlat
  <2>2. "assistant" \in Readers
    BY DEF Readers
  <2>3. T!FindsAll("assistant", a \o u) = T!FindsAll("assistant", a) \o T!FindsAll("assistant", u)
    BY <1>5, <1>6, <2>2, FindsBoth
  <2>4. QED
    BY <1>7, <2>1, <2>3
<1>13. T!Conversation(x) /\ ~Instructs(m)
  BY <1>10 DEF T!Conversation, Instructs
<1>14. Instructed[x] = <<>> /\ Spoken[x] = T!ReadFlat(m)
  BY <1>10, <1>12, <1>13 DEF Instructed, Spoken
<1>15. QED
  BY <1>10, <1>11, <1>13, <1>14 DEF Added

\* The result a tool's message holds.
LEMMA ResultOf ==
  ASSUME NEW m \in T!FlatMessages, m.role = "tool"
  PROVE  \E r \in Results : /\ r = T!ToolResult(m.of[1], <<T!Text(T!Words(m.content))>>, FALSE)
                            /\ T!ToolMessage(r) = m
                            /\ \A who : T!Finds(who, r) = T!ReadFlat(m)
<1>1. PICK k \in Calls : m.of = <<k>> /\ m.content = <<T!Text(T!SomeWords)>>
  BY FlatMessageIs
<1>2. m = T!Flat("tool", m.content, <<>>, m.of)
  BY FlatMessageIs
<1>3. PICK w \in Seq({Word}) : w = T!SomeWords /\ w # <<>>
  <2>1. T!SomeWords \in Seq({Word}) /\ T!SomeWords # <<>>
    BY DEF T!SomeWords
  <2>2. QED
    BY <2>1
<1>4. PICK t : t = <<T!Text(w)>>
  OBVIOUS
<1>5. t \in Seq(Texts) /\ t \in Seq(Inner) /\ T!Words(t) = w /\ T!TextOrNone(w) = t
  <2>1. t \in Seq(Texts) /\ T!Words(t) = w
    BY <1>4, TextIs
  <2>2. t \in Seq(Parts)
    BY <2>1, SidesWiden
  <2>3. QED
    BY <1>3, <1>4, <2>1, <2>2, SidesWiden DEF T!TextOrNone
<1>6. m.content = t /\ m.of[1] = k
  BY <1>1, <1>3, <1>4
<1>7. PICK r : r = T!ToolResult(k, t, FALSE)
  OBVIOUS
<1>8. r = [type |-> "tool_result", call |-> k, result |-> t, error |-> FALSE]
  BY <1>7 DEF T!ToolResult
<1>9. r \in Results /\ r.type = "tool_result" /\ r.call = k /\ r.result = t
  BY <1>5, <1>8 DEF Results
<1>10. r = T!ToolResult(m.of[1], <<T!Text(T!Words(m.content))>>, FALSE)
  BY <1>4, <1>5, <1>6, <1>7
<1>11. T!ToolMessage(r) = m
  <2>1. T!ToolMessage(r) = T!Flat("tool", t, <<>>, <<k>>)
    BY <1>5, <1>9 DEF T!ToolMessage
  <2>2. QED
    BY <1>1, <1>2, <1>6, <2>1
<1>12. ASSUME NEW who PROVE T!Finds(who, r) = T!ReadFlat(m)
  <2>1. T!Finds(who, r) = << <<"result", k, w>> >>
    BY <1>5, <1>9 DEF T!Finds
  <2>2. T!ReadFlat(m) = << <<"result", k, w>> >>
    BY <1>5, <1>6 DEF T!ReadFlat
  <2>3. QED
    BY <2>1, <2>2
<1>13. QED
  BY <1>9, <1>10, <1>11, <1>12

\* A result joins the user's last message,
LEMMA ResultJoined ==
  ASSUME NEW c \in Seq(CanonM), NEW m \in T!FlatMessages, m.role = "tool", c # <<>>, c[Len(c)].role = "user"
  PROVE  Extended(c, T!Parsed(c, m), m)
<1>1. PICK r \in Results : /\ r = T!ToolResult(m.of[1], <<T!Text(T!Words(m.content))>>, FALSE)
                           /\ T!ToolMessage(r) = m /\ \A who : T!Finds(who, r) = T!ReadFlat(m)
  BY ResultOf
<1>2. PICK s, x : s = SubSeq(c, 1, Len(c) - 1) /\ x = c[Len(c)]
  OBVIOUS
<1>3. s \in Seq(CanonM) /\ x \in CanonM /\ c = Append(s, x)
  BY <1>2
<1>4. x.role = "user" /\ x.content \in Seq(OfUser) /\ x.content \in Seq(Piece)
  BY <1>2, <1>3 DEF CanonM
<1>5. PICK p \in Seq(Piece) : p = x.content
  BY <1>4
<1>6. PICK q : q = Append(p, r)
  OBVIOUS
<1>7. q \in Seq(OfUser) /\ q \in Seq(Piece) /\ q = p \o <<r>> /\ r \in Piece /\ <<r>> \in Seq(Piece)
  <2>1. r \in OfUser /\ r \in Piece
    BY SidesAre
  <2>2. q \in Seq(OfUser)
    BY <1>4, <1>5, <1>6, <2>1
  <2>3. q = p \o <<r>>
    BY <1>6, <2>1, AppendIsConcat
  <2>4. QED
    BY <2>1, <2>2, <2>3, SidesWiden
<1>8. PICK y : y = [role |-> "user", content |-> q]
  OBVIOUS
<1>9. y \in CanonM /\ y.role = "user" /\ y.content = q
  BY <1>7, <1>8 DEF CanonM
<1>10. T!Parsed(c, m) = Append(s, y)
  <2>1. T!Last(c) = x /\ T!Front(c) = s
    BY <1>2 DEF T!Last, T!Front
  <2>2. T!Parsed(c, m) = T!WithResult(c, m)
    BY DEF T!Parsed
  <2>3. T!WithResult(c, m) = s \o <<y>>
    BY <1>1, <1>4, <1>5, <1>6, <1>8, <2>1 DEF T!WithResult
  <2>4. s \o <<y>> = Append(s, y)
    BY <1>3, <1>9, AppendIsConcat
  <2>5. QED
    BY <2>2, <2>3, <2>4
<1>11. T!Conversation(x) /\ T!Conversation(y) /\ ~Instructs(m)
  BY <1>4, <1>9 DEF T!Conversation, Instructs
<1>12. Instructed[y] = <<>> /\ Instructed[x] = <<>>
  BY <1>3, <1>9, <1>11 DEF Instructed
<1>13. Spoken[y] = Spoken[x] \o T!ReadFlat(m)
  <2>1. Spoken[y] = T!FindsAll("user", q) /\ Spoken[x] = T!FindsAll("user", p)
    BY <1>3, <1>4, <1>5, <1>9, <1>11 DEF Spoken
  <2>2. "user" \in Readers
    BY DEF Readers
  <2>3. PICK one \in Seq(Piece) : one = <<r>>
    BY <1>7
  <2>4. T!FindsAll("user", p \o one) = T!FindsAll("user", p) \o T!FindsAll("user", one)
    BY <2>2, FindsBoth
  <2>5. T!FindsAll("user", <<r>>) = T!Finds("user", r)
    BY <1>7, <2>2, FindsOne
  <2>6. QED
    BY <1>1, <1>7, <2>1, <2>3, <2>4, <2>5
<1>14. x.role = y.role
  BY <1>4, <1>9
<1>15. QED
  BY <1>3, <1>9, <1>10, <1>11, <1>12, <1>13, <1>14 DEF Extended

\* or begins one.
LEMMA ResultAdded ==
  ASSUME NEW c \in Seq(CanonM), NEW m \in T!FlatMessages, m.role = "tool", ~(c # <<>> /\ c[Len(c)].role = "user")
  PROVE  Added(c, T!Parsed(c, m), m)
<1>1. PICK r \in Results : /\ r = T!ToolResult(m.of[1], <<T!Text(T!Words(m.content))>>, FALSE)
                           /\ T!ToolMessage(r) = m /\ \A who : T!Finds(who, r) = T!ReadFlat(m)
  BY ResultOf
<1>2. r \in OfUser /\ r \in Piece
  BY SidesAre
<1>3. PICK q : q = <<r>>
  OBVIOUS
<1>4. q \in Seq(OfUser) /\ q \in Seq(Piece) /\ q = Append(<<>>, r) /\ <<>> \in Seq(Piece)
  BY <1>2, <1>3, EmptySeq
<1>5. PICK x : x = [role |-> "user", content |-> q]
  OBVIOUS
<1>6. x \in CanonM /\ x.role = "user" /\ x.content = q
  BY <1>4, <1>5 DEF CanonM
<1>7. T!Parsed(c, m) = Append(c, x)
  <2>1. T!Parsed(c, m) = T!WithResult(c, m)
    BY DEF T!Parsed
  <2>2. T!WithResult(c, m) = Append(c, x)
    BY <1>1, <1>3, <1>5 DEF T!WithResult, T!Last
  <2>3. QED
    BY <2>1, <2>2
<1>8. T!Conversation(x) /\ ~Instructs(m)
  BY <1>6 DEF T!Conversation, Instructs
<1>9. Instructed[x] = <<>>
  BY <1>6, <1>8 DEF Instructed
<1>10. Spoken[x] = T!ReadFlat(m)
  <2>1. Spoken[x] = T!FindsAll("user", q)
    BY <1>6, <1>8 DEF Spoken
  <2>2. "user" \in Readers
    BY DEF Readers
  <2>3. T!FindsAll("user", <<r>>) = T!Finds("user", r)
    BY <1>2, <2>2, FindsOne
  <2>4. QED
    BY <1>1, <1>3, <2>1, <2>3
<1>11. QED
  BY <1>6, <1>7, <1>8, <1>9, <1>10 DEF Added

\* In any case.
LEMMA ParsedIs ==
  ASSUME NEW c \in Seq(CanonM), NEW m \in T!FlatMessages
  PROVE  Added(c, T!Parsed(c, m), m) \/ Extended(c, T!Parsed(c, m), m)
<1>1. m.role \in FlatRoles
  BY FlatMessageIs
<1>2. QED
  BY <1>1, InstructionParsed, UserParsed, AssistantParsed, ResultJoined, ResultAdded DEF FlatRoles, Instructs

-----------------------------------------------------------------------------
(* What is parsed of a request of OpenAI, one message after the other.     *)

\* The messages parsed so far.
ParsedTo(f, s) == /\ f \in [0 .. Len(s) -> Seq(CanonM)] /\ f[0] = <<>>
                  /\ \A k \in 1 .. Len(s) : f[k] = T!Parsed(f[k - 1], s[k])

\* A message parsed leaves canonical messages.
LEMMA ParsedType ==
  ASSUME NEW c \in Seq(CanonM), NEW m \in T!FlatMessages
  PROVE  T!Parsed(c, m) \in Seq(CanonM)
<1>1. CASE Added(c, T!Parsed(c, m), m)
  <2>1. PICK x \in CanonM : T!Parsed(c, m) = Append(c, x)
    BY <1>1 DEF Added
  <2>2. QED
    BY <2>1
<1>2. CASE Extended(c, T!Parsed(c, m), m)
  <2>1. PICK s \in Seq(CanonM), y \in CanonM : T!Parsed(c, m) = Append(s, y)
    BY <1>2 DEF Extended
  <2>2. QED
    BY <2>1
<1>3. QED
  BY <1>1, <1>2, ParsedIs

\* There are such messages,
LEMMA ParsedExists ==
  ASSUME NEW s \in Seq(T!FlatMessages)
  PROVE  \E f : ParsedTo(f, s)
<1> DEFINE n == Len(s)
           C == Seq(CanonM)
           step == [p \in C \X (1 .. n) |-> T!Parsed(p[1], s[p[2]])]
<1>1. n \in Nat /\ <<>> \in C
  BY EmptySeq
<1>2. step \in [C \X (1 .. n) -> C]
  <2>1. ASSUME NEW p \in C \X (1 .. n) PROVE T!Parsed(p[1], s[p[2]]) \in C
    <3>1. p[1] \in Seq(CanonM) /\ s[p[2]] \in T!FlatMessages
      OBVIOUS
    <3>2. QED
      BY <3>1, ParsedType
  <2>2. QED
    BY <2>1
<1>3. \E f : Follows(f, <<>>, step, n, C)
  <2>1. Steps(step, n, C)
    BY <1>2 DEF Steps
  <2>2. QED
    <3>. HIDE DEF step, C, n
    <3>1. QED
      BY <1>1, <2>1, Iterates
<1>4. PICK f : Follows(f, <<>>, step, n, C)
  BY <1>3
<1>5. f \in [0 .. n -> C] /\ f[0] = <<>> /\ \A k \in 1 .. n : f[k] = step[<<f[k - 1], k>>]
  BY <1>4 DEF Follows
<1>6. ASSUME NEW k \in 1 .. n PROVE f[k] = T!Parsed(f[k - 1], s[k])
  <2>1. k - 1 \in 0 .. n
    BY <1>1
  <2>2. f[k - 1] \in C
    BY <1>5, <2>1
  <2>3. QED
    BY <1>5, <2>2
<1>7. QED
  BY <1>5, <1>6 DEF ParsedTo

\* and what is parsed is the last of them.
LEMMA ParsedLast ==
  ASSUME NEW s \in Seq(T!FlatMessages), NEW f, ParsedTo(f, s)
  PROVE  T!ParseFlat(s) = f[Len(s)]
<1> DEFINE n == Len(s)
           Right(h) == h = [k \in 0 .. n |-> IF k = 0 THEN <<>> ELSE T!Parsed(h[k - 1], s[k])]
           g == CHOOSE h : Right(h)
<1>1. n \in Nat
  OBVIOUS
<1>2. f \in [0 .. n -> Seq(CanonM)] /\ f[0] = <<>> /\ \A k \in 1 .. n : f[k] = T!Parsed(f[k - 1], s[k])
  BY DEF ParsedTo
<1>3. Right(f)
  <2>1. \A k \in 0 .. n : f[k] = IF k = 0 THEN <<>> ELSE T!Parsed(f[k - 1], s[k])
    <3>1. \A k \in 0 .. n : k = 0 \/ k \in 1 .. n
      BY <1>1
    <3>2. QED
      BY <1>2, <3>1
  <2>2. QED
    BY <1>2, <2>1
<1>4. Right(g)
  <2>1. \E h : Right(h)
    BY <1>3
  <2>2. QED
    BY <2>1
<1>5. T!ParseFlat(s) = g[n]
  BY DEF T!ParseFlat
<1>6. \A k \in 0 .. n : g[k] = IF k = 0 THEN <<>> ELSE T!Parsed(g[k - 1], s[k])
  <2>. HIDE DEF g
  <2>1. QED
    BY <1>4
<1>7. \A k \in 0 .. n : f[k] = IF k = 0 THEN <<>> ELSE T!Parsed(f[k - 1], s[k])
  <2>. HIDE DEF g
  <2>1. QED
    BY <1>3
<1>8. g[n] = f[n]
  <2>. HIDE DEF g, Right
  <2> DEFINE D == { k \in 0 .. n : g[k] = f[k] }
  <2>1. 0 \in D
    BY <1>1, <1>6, <1>7
  <2>2. ASSUME NEW k \in 0 .. n - 1, k \in D PROVE k + 1 \in D
    <3>1. k + 1 \in 0 .. n /\ k + 1 # 0 /\ (k + 1) - 1 = k
      BY <1>1
    <3>2. QED
      BY <1>6, <1>7, <2>2, <3>1
  <2>3. \A k \in 0 .. n : k \in D
    <3>. HIDE DEF D
    <3>1. QED
      BY <1>1, <2>1, <2>2, Counting
  <2>4. QED
    BY <1>1, <2>3
<1>9. QED
  BY <1>5, <1>8

\* One message after the other is parsed.
LEMMA ParseMore ==
  ASSUME NEW s \in Seq(T!FlatMessages), NEW m \in T!FlatMessages
  PROVE  /\ T!ParseFlat(<<>>) = <<>> /\ T!ParseFlat(s) \in Seq(CanonM)
         /\ T!ParseFlat(Append(s, m)) = T!Parsed(T!ParseFlat(s), m)
<1>1. PICK f : ParsedTo(f, s)
  BY ParsedExists
<1>2. PICK n \in Nat : n = Len(s)
  OBVIOUS
<1>3. T!ParseFlat(s) = f[n]
  BY <1>1, <1>2, ParsedLast
<1>4. f \in [0 .. n -> Seq(CanonM)] /\ f[0] = <<>> /\ \A k \in 1 .. n : f[k] = T!Parsed(f[k - 1], s[k])
  BY <1>1, <1>2 DEF ParsedTo
<1>5. f[n] \in Seq(CanonM)
  BY <1>4
<1>6. PICK c \in Seq(CanonM) : c = T!Parsed(f[n], m)
  BY <1>5, ParsedType
<1>7. PICK t : t = Append(s, m)
  OBVIOUS
<1>8. t \in Seq(T!FlatMessages) /\ Len(t) = n + 1 /\ t[n + 1] = m /\ \A k \in 1 .. n : t[k] = s[k]
  BY <1>2, <1>7, AppendProperties
<1>9. PICK h : h = [k \in 0 .. n + 1 |-> IF k = n + 1 THEN c ELSE f[k]]
  OBVIOUS
<1>10. h[n + 1] = c /\ \A k \in 0 .. n : h[k] = f[k]
  BY <1>9
<1>11. h \in [0 .. n + 1 -> Seq(CanonM)]
  <2>1. \A k \in 0 .. n + 1 : k = n + 1 \/ k \in 0 .. n
    BY <1>2
  <2>2. QED
    BY <1>4, <1>9, <2>1
<1>12. ASSUME NEW k \in 1 .. n + 1 PROVE h[k] = T!Parsed(h[k - 1], t[k])
  <2>1. CASE k = n + 1
    <3>1. k - 1 = n /\ n \in 0 .. n
      BY <2>1
    <3>2. QED
      BY <1>6, <1>8, <1>10, <2>1, <3>1
  <2>2. CASE k # n + 1
    <3>1. k \in 1 .. n /\ k \in 0 .. n /\ k - 1 \in 0 .. n
      BY <2>2
    <3>2. QED
      BY <1>4, <1>8, <1>10, <3>1
  <2>3. QED
    BY <2>1, <2>2
<1>13. h[0] = <<>>
  BY <1>4, <1>10
<1>14. ParsedTo(h, t)
  BY <1>8, <1>11, <1>12, <1>13 DEF ParsedTo
<1>15. T!ParseFlat(t) = h[n + 1]
  BY <1>8, <1>14, ParsedLast
<1>16. T!ParseFlat(<<>>) = <<>>
  <2>1. <<>> \in Seq(T!FlatMessages) /\ Len(<<>>) = 0
    BY EmptySeq
  <2>2. PICK e : ParsedTo(e, <<>>)
    BY <2>1, ParsedExists
  <2>3. T!ParseFlat(<<>>) = e[0]
    BY <2>1, <2>2, ParsedLast
  <2>4. QED
    BY <2>2, <2>3 DEF ParsedTo
<1>17. QED
  BY <1>3, <1>5, <1>6, <1>7, <1>10, <1>15, <1>16

-----------------------------------------------------------------------------
(* What is read of a request of OpenAI is read of what it is parsed to.    *)

AllInstruct(c) == \A i \in DOMAIN c : ~T!Conversation(c[i])

\* A message more, in order.
LEMMA OrderMore ==
  ASSUME NEW c \in Seq(CanonM), NEW x \in CanonM
  PROVE  /\ AllInstruct(Append(c, x)) <=> AllInstruct(c) /\ ~T!Conversation(x)
         /\ T!InstructionsInOrder(Append(c, x)) <=> T!InstructionsInOrder(c) /\ (T!Conversation(x) \/ AllInstruct(c))
<1>1. PICK n \in Nat : n = Len(c)
  OBVIOUS
<1>2. PICK d : d = Append(c, x)
  OBVIOUS
<1>3. /\ DOMAIN c = 1 .. n /\ DOMAIN d = 1 .. n + 1 /\ d[n + 1] = x
      /\ \A i \in 1 .. n : d[i] = c[i]
  BY <1>1, <1>2, AppendProperties
<1>4. /\ \A i \in 1 .. n + 1 : i = n + 1 \/ i \in 1 .. n
      /\ \A i \in 1 .. n : i \in 1 .. n + 1 /\ i < n + 1 /\ ~(n + 1 < i)
      /\ n + 1 \in 1 .. n + 1 /\ ~(n + 1 < n + 1)
  BY <1>1
<1>5. AllInstruct(d) <=> AllInstruct(c) /\ ~T!Conversation(x)
  BY <1>3, <1>4 DEF AllInstruct
<1>6. ASSUME T!InstructionsInOrder(d) PROVE T!InstructionsInOrder(c) /\ (T!Conversation(x) \/ AllInstruct(c))
  <2>1. \A i, j \in 1 .. n + 1 : i < j /\ T!Conversation(d[i]) => T!Conversation(d[j])
    BY <1>3, <1>6 DEF T!InstructionsInOrder
  <2>2. \A i, j \in 1 .. n : i < j /\ T!Conversation(c[i]) => T!Conversation(c[j])
    BY <1>3, <1>4, <2>1
  <2>3. \A i \in 1 .. n : T!Conversation(c[i]) => T!Conversation(x)
    BY <1>3, <1>4, <2>1
  <2>4. QED
    BY <1>3, <2>2, <2>3 DEF T!InstructionsInOrder, AllInstruct
<1>7. ASSUME T!InstructionsInOrder(c), T!Conversation(x) \/ AllInstruct(c) PROVE T!InstructionsInOrder(d)
  <2>1. \A i, j \in 1 .. n : i < j /\ T!Conversation(c[i]) => T!Conversation(c[j])
    BY <1>3, <1>7 DEF T!InstructionsInOrder
  <2>2. \A i \in 1 .. n : T!Conversation(c[i]) => T!Conversation(x)
    BY <1>3, <1>7 DEF AllInstruct
  <2>3. ASSUME NEW i \in 1 .. n + 1, NEW j \in 1 .. n + 1, i < j, T!Conversation(d[i]) PROVE T!Conversation(d[j])
    <3>1. i \in 1 .. n
      BY <1>1, <2>3
    <3>2. CASE j = n + 1
      BY <1>3, <2>2, <2>3, <3>1, <3>2
    <3>3. CASE j \in 1 .. n
      BY <1>3, <2>1, <2>3, <3>1, <3>3
    <3>4. QED
      BY <1>4, <3>2, <3>3
  <2>4. QED
    BY <1>3, <2>3 DEF T!InstructionsInOrder
<1>8. QED
  BY <1>2, <1>5, <1>6, <1>7

\* What is known of a request and what it is parsed to.
Faithful(s, c) ==
  /\ s \in Seq(T!FlatMessages) /\ c \in Seq(CanonM)
  /\ T!InstructionsInOrder(c) => Mapped(Instructed, c) \o Mapped(Spoken, c) = Mapped(ReadOf, s)
  /\ AllInstruct(c) => Mapped(Spoken, c) = <<>>
  /\ ~AllInstruct(c) => \E i \in DOMAIN s : ~Instructs(s[i])
  /\ ~T!InstructionsInOrder(c) => \E i, j \in DOMAIN s : i < j /\ ~Instructs(s[i]) /\ Instructs(s[j])

\* What was said before is said after a message more.
LEMMA SaidMore ==
  ASSUME NEW s \in Seq(T!FlatMessages), NEW m \in T!FlatMessages
  PROVE  /\ Append(s, m) \in Seq(T!FlatMessages)
         /\ Mapped(ReadOf, Append(s, m)) = Mapped(ReadOf, s) \o T!ReadFlat(m)
         /\ T!ReadFlat(m) \in Seq(Entry) /\ Mapped(ReadOf, s) \in Seq(Entry)
         /\ ~Instructs(m) => \E i \in DOMAIN Append(s, m) : ~Instructs(Append(s, m)[i])
         /\ \A i \in DOMAIN s : i \in DOMAIN Append(s, m) /\ Append(s, m)[i] = s[i] /\ i < Len(s) + 1
         /\ Len(s) + 1 \in DOMAIN Append(s, m) /\ Append(s, m)[Len(s) + 1] = m
<1>1. s \in Seq(FlatM) /\ m \in FlatM
  <2>1. \A x \in T!FlatMessages : x \in FlatM
    BY FlatMessageIs
  <2>2. QED
    BY <2>1
<1>2. ReadOf[m] = T!ReadFlat(m) /\ ReadOf[m] \in Seq(Entry)
  BY <1>1, ReadMakes DEF ReadOf, Makes
<1>3. Mapped(ReadOf, Append(s, m)) = Mapped(ReadOf, s) \o ReadOf[m]
  BY <1>1, ReadMakes, MappedMore
<1>4. Mapped(ReadOf, s) \in Seq(Entry)
  BY <1>1, ReadMakes, MappedEach
<1>5. PICK n \in Nat : n = Len(s)
  OBVIOUS
<1>6. PICK t : t = Append(s, m)
  OBVIOUS
<1>7. /\ DOMAIN s = 1 .. n /\ DOMAIN t = 1 .. n + 1 /\ t[n + 1] = m /\ t \in Seq(T!FlatMessages)
      /\ \A i \in 1 .. n : t[i] = s[i]
  BY <1>5, <1>6, AppendProperties
<1>8. n + 1 \in 1 .. n + 1 /\ \A i \in 1 .. n : i \in 1 .. n + 1 /\ i < n + 1
  BY <1>5
<1>9. QED
  BY <1>2, <1>3, <1>4, <1>5, <1>6, <1>7, <1>8

\* One after the other.
FollowedBy(a, b) == a \o b

\* Whether the first two or the last two are put together first makes no difference.
LEMMA EntriesTogether ==
  \A a, b, c \in Seq(Entry) : /\ FollowedBy(a, FollowedBy(b, c)) = FollowedBy(FollowedBy(a, b), c) /\ FollowedBy(a, b) \in Seq(Entry)
                             /\ FollowedBy(a, <<>>) = a
<1>1. ASSUME NEW a \in Seq(Entry), NEW b \in Seq(Entry), NEW c \in Seq(Entry)
      PROVE  a \o (b \o c) = (a \o b) \o c /\ a \o b \in Seq(Entry) /\ a \o <<>> = a
  OBVIOUS
<1>2. QED
  BY <1>1 DEF FollowedBy

\* A message that is added keeps it so,
LEMMA AddedFaithful ==
  ASSUME NEW s, NEW c, Faithful(s, c), NEW m \in T!FlatMessages, NEW d, Added(c, d, m)
  PROVE  Faithful(Append(s, m), d)
<1>1. PICK x \in CanonM : /\ d = Append(c, x)
                          /\ Instructed[x] = IF Instructs(m) THEN T!ReadFlat(m) ELSE <<>>
                          /\ Spoken[x] = IF Instructs(m) THEN <<>> ELSE T!ReadFlat(m)
                          /\ T!Conversation(x) <=> ~Instructs(m)
  BY DEF Added
<1>2. s \in Seq(T!FlatMessages) /\ c \in Seq(CanonM)
  BY DEF Faithful
<1>3. PICK R \in Seq(Entry) : R = T!ReadFlat(m)
  BY <1>2, SaidMore
<1>4. PICK I \in Seq(Entry) : I = Mapped(Instructed, c)
  BY <1>2, HeardMakes, MappedEach
<1>5. PICK K \in Seq(Entry) : K = Mapped(Spoken, c)
  BY <1>2, HeardMakes, MappedEach
<1>6. PICK P \in Seq(Entry) : P = Mapped(ReadOf, s)
  BY <1>2, SaidMore
<1>7. d \in Seq(CanonM)
  BY <1>1, <1>2
<1>8. Mapped(Instructed, d) = I \o Instructed[x]
  <2>1. c \in Seq(CanonM) /\ x \in CanonM
    BY <1>2
  <2>2. Mapped(Instructed, Append(c, x)) = Mapped(Instructed, c) \o Instructed[x]
    BY <2>1, HeardMakes, MappedMore
  <2>3. QED
    BY <1>1, <1>4, <2>2
<1>9. Mapped(Spoken, d) = K \o Spoken[x]
  <2>1. c \in Seq(CanonM) /\ x \in CanonM
    BY <1>2
  <2>2. Mapped(Spoken, Append(c, x)) = Mapped(Spoken, c) \o Spoken[x]
    BY <2>1, HeardMakes, MappedMore
  <2>3. QED
    BY <1>1, <1>5, <2>2
<1>10. Mapped(ReadOf, Append(s, m)) = P \o R /\ Append(s, m) \in Seq(T!FlatMessages)
  BY <1>2, <1>3, <1>6, SaidMore
<1>11. /\ AllInstruct(d) <=> AllInstruct(c) /\ ~T!Conversation(x)
       /\ T!InstructionsInOrder(d) <=> T!InstructionsInOrder(c) /\ (T!Conversation(x) \/ AllInstruct(c))
  BY <1>1, <1>2, OrderMore
<1>12. /\ T!InstructionsInOrder(c) => I \o K = P
       /\ AllInstruct(c) => K = <<>>
       /\ ~AllInstruct(c) => \E i \in DOMAIN s : ~Instructs(s[i])
       /\ ~T!InstructionsInOrder(c) => \E i, j \in DOMAIN s : i < j /\ ~Instructs(s[i]) /\ Instructs(s[j])
  BY <1>4, <1>5, <1>6 DEF Faithful
<1>13. I \o <<>> = I /\ K \o <<>> = K /\ (I \o R) \o <<>> = I \o R /\ I \o (K \o R) = (I \o K) \o R
  <2>1. /\ FollowedBy(I, <<>>) = I /\ FollowedBy(K, <<>>) = K /\ FollowedBy(FollowedBy(I, R), <<>>) = FollowedBy(I, R)
        /\ FollowedBy(I, FollowedBy(K, R)) = FollowedBy(FollowedBy(I, K), R)
    BY EntriesTogether
  <2>2. QED
    BY <2>1 DEF FollowedBy
<1>14. T!InstructionsInOrder(d) => Mapped(Instructed, d) \o Mapped(Spoken, d) = P \o R
  <2>1. CASE Instructs(m)
    <3>1. Mapped(Instructed, d) = I \o R /\ Mapped(Spoken, d) = K
      BY <1>1, <1>3, <1>8, <1>9, <1>13, <2>1
    <3>2. T!InstructionsInOrder(d) => I \o K = P /\ K = <<>>
      BY <1>1, <1>11, <1>12, <2>1
    <3>3. QED
      BY <1>13, <3>1, <3>2
  <2>2. CASE ~Instructs(m)
    <3>1. Mapped(Instructed, d) = I /\ Mapped(Spoken, d) = K \o R
      BY <1>1, <1>3, <1>8, <1>9, <1>13, <2>2
    <3>2. T!InstructionsInOrder(d) => I \o K = P
      BY <1>1, <1>11, <1>12, <2>2
    <3>3. QED
      BY <1>13, <3>1, <3>2
  <2>3. QED
    BY <2>1, <2>2
<1>15. AllInstruct(d) => Mapped(Spoken, d) = <<>>
  <2>1. AllInstruct(d) => K = <<>> /\ Instructs(m)
    BY <1>1, <1>11, <1>12
  <2>2. Instructs(m) => Mapped(Spoken, d) = K
    BY <1>1, <1>9, <1>13
  <2>3. QED
    BY <2>1, <2>2
<1>16. PICK t : t = Append(s, m)
  OBVIOUS
<1>17. /\ \A i \in DOMAIN s : i \in DOMAIN t /\ t[i] = s[i] /\ i < Len(s) + 1
       /\ Len(s) + 1 \in DOMAIN t /\ t[Len(s) + 1] = m
  BY <1>2, <1>16, SaidMore
<1>18. ~AllInstruct(d) => \E i \in DOMAIN t : ~Instructs(t[i])
  BY <1>1, <1>11, <1>12, <1>17
<1>19. ASSUME ~T!InstructionsInOrder(d) PROVE \E i, j \in DOMAIN t : i < j /\ ~Instructs(t[i]) /\ Instructs(t[j])
  <2>1. CASE ~T!InstructionsInOrder(c)
    BY <1>12, <1>17, <2>1
  <2>2. CASE T!InstructionsInOrder(c)
    <3>1. Instructs(m) /\ \E i \in DOMAIN s : ~Instructs(s[i])
      BY <1>1, <1>11, <1>12, <1>19, <2>2
    <3>2. QED
      BY <1>17, <3>1
  <2>3. QED
    BY <2>1, <2>2
<1>20. QED
  BY <1>7, <1>10, <1>14, <1>15, <1>16, <1>18, <1>19 DEF Faithful

\* and so does one that extends the last.
LEMMA ExtendedFaithful ==
  ASSUME NEW s, NEW c, Faithful(s, c), NEW m \in T!FlatMessages, NEW d, Extended(c, d, m)
  PROVE  Faithful(Append(s, m), d)
<1>1. PICK z \in Seq(CanonM), x \in CanonM, y \in CanonM :
        /\ c = Append(z, x) /\ d = Append(z, y) /\ x.role = y.role
        /\ Instructed[y] = Instructed[x] /\ Spoken[y] = Spoken[x] \o T!ReadFlat(m)
        /\ T!Conversation(x) /\ T!Conversation(y) /\ ~Instructs(m)
  BY DEF Extended
<1>2. s \in Seq(T!FlatMessages) /\ c \in Seq(CanonM)
  BY DEF Faithful
<1>3. PICK R \in Seq(Entry) : R = T!ReadFlat(m)
  BY <1>2, SaidMore
<1>4. PICK I \in Seq(Entry) : I = Mapped(Instructed, c)
  BY <1>2, HeardMakes, MappedEach
<1>5. PICK K \in Seq(Entry) : K = Mapped(Spoken, c)
  BY <1>2, HeardMakes, MappedEach
<1>6. PICK P \in Seq(Entry) : P = Mapped(ReadOf, s)
  BY <1>2, SaidMore
<1>7. d \in Seq(CanonM)
  BY <1>1
<1>8. Mapped(Instructed, d) = I
  <2>1. Mapped(Instructed, Append(z, x)) = Mapped(Instructed, z) \o Instructed[x]
    BY HeardMakes, MappedMore
  <2>2. Mapped(Instructed, Append(z, y)) = Mapped(Instructed, z) \o Instructed[y]
    BY HeardMakes, MappedMore
  <2>3. QED
    BY <1>1, <1>4, <2>1, <2>2
<1>9. Mapped(Spoken, d) = K \o R
  <2>1. Mapped(Spoken, Append(z, x)) = Mapped(Spoken, z) \o Spoken[x]
    BY HeardMakes, MappedMore
  <2>2. Mapped(Spoken, Append(z, y)) = Mapped(Spoken, z) \o Spoken[y]
    BY HeardMakes, MappedMore
  <2>3. Mapped(Spoken, z) \in Seq(Entry)
    BY HeardMakes, MappedEach
  <2>4. PICK v, u \in Seq(Entry) : v = Mapped(Spoken, z) /\ u = Spoken[x]
    BY <2>3, HeardMakes DEF Makes
  <2>5. v \o (u \o R) = (v \o u) \o R
    <3>1. FollowedBy(v, FollowedBy(u, R)) = FollowedBy(FollowedBy(v, u), R)
      BY EntriesTogether
    <3>2. QED
      BY <3>1 DEF FollowedBy
  <2>6. QED
    BY <1>1, <1>3, <1>5, <2>1, <2>2, <2>4, <2>5
<1>10. Mapped(ReadOf, Append(s, m)) = P \o R /\ Append(s, m) \in Seq(T!FlatMessages)
  BY <1>2, <1>3, <1>6, SaidMore
<1>11. ~AllInstruct(d) /\ (T!InstructionsInOrder(d) <=> T!InstructionsInOrder(c))
  <2>1. /\ AllInstruct(Append(z, x)) <=> AllInstruct(z) /\ ~T!Conversation(x)
        /\ T!InstructionsInOrder(Append(z, x)) <=> T!InstructionsInOrder(z) /\ (T!Conversation(x) \/ AllInstruct(z))
    BY OrderMore
  <2>2. /\ AllInstruct(Append(z, y)) <=> AllInstruct(z) /\ ~T!Conversation(y)
        /\ T!InstructionsInOrder(Append(z, y)) <=> T!InstructionsInOrder(z) /\ (T!Conversation(y) \/ AllInstruct(z))
    BY OrderMore
  <2>3. QED
    BY <1>1, <2>1, <2>2
<1>12. /\ T!InstructionsInOrder(c) => I \o K = P
       /\ ~T!InstructionsInOrder(c) => \E i, j \in DOMAIN s : i < j /\ ~Instructs(s[i]) /\ Instructs(s[j])
  BY <1>4, <1>5, <1>6 DEF Faithful
<1>13. I \o (K \o R) = (I \o K) \o R
  OBVIOUS
<1>14. T!InstructionsInOrder(d) => Mapped(Instructed, d) \o Mapped(Spoken, d) = P \o R
  BY <1>8, <1>9, <1>11, <1>12, <1>13
<1>15. PICK t : t = Append(s, m)
  OBVIOUS
<1>16. /\ \A i \in DOMAIN s : i \in DOMAIN t /\ t[i] = s[i] /\ i < Len(s) + 1
       /\ Len(s) + 1 \in DOMAIN t /\ t[Len(s) + 1] = m
  BY <1>2, <1>15, SaidMore
<1>17. \E i \in DOMAIN t : ~Instructs(t[i])
  BY <1>1, <1>16
<1>18. ~T!InstructionsInOrder(d) => \E i, j \in DOMAIN t : i < j /\ ~Instructs(t[i]) /\ Instructs(t[j])
  BY <1>11, <1>12, <1>16
<1>19. QED
  BY <1>7, <1>10, <1>11, <1>14, <1>15, <1>17, <1>18 DEF Faithful

\* So is any request.
LEMMA RequestsFaithful == \A s \in Seq(T!FlatMessages) : Faithful(s, T!ParseFlat(s))
<1> DEFINE D == { s \in Seq(T!FlatMessages) : Faithful(s, T!ParseFlat(s)) }
<1>1. <<>> \in D
  <2>1. <<>> \in Seq(T!FlatMessages) /\ <<>> \in Seq(CanonM)
    BY EmptySeq
  <2>2. S!FlattenSeq(<<>>) = <<>>
    BY DEF S!FlattenSeq
  <2>3. Mapped(Instructed, <<>>) = <<>> /\ Mapped(Spoken, <<>>) = <<>> /\ Mapped(ReadOf, <<>>) = <<>>
    BY <2>2 DEF Mapped
  <2>4. AllInstruct(<<>>) /\ T!InstructionsInOrder(<<>>) /\ <<>> \o <<>> = <<>>
    BY DEF AllInstruct, T!InstructionsInOrder
  <2>5. Faithful(<<>>, <<>>)
    BY <2>1, <2>3, <2>4 DEF Faithful
  <2>6. T!ParseFlat(<<>>) = <<>>
    <3>1. \E m : m \in T!FlatMessages
      <4>1. [role |-> "system", content |-> <<>>, calls |-> <<>>, of |-> <<>>] \in T!FlatMessages
        BY DEF T!FlatMessages
      <4>2. QED
        BY <4>1
    <3>2. QED
      BY <2>1, <3>1, ParseMore
  <2>7. QED
    BY <2>1, <2>5, <2>6
<1>2. ASSUME NEW s \in Seq(T!FlatMessages), NEW m \in T!FlatMessages, s \in D PROVE Append(s, m) \in D
  <2>1. PICK c \in Seq(CanonM) : c = T!ParseFlat(s)
    BY ParseMore
  <2>2. T!ParseFlat(Append(s, m)) = T!Parsed(c, m)
    BY <2>1, ParseMore
  <2>3. Faithful(s, c)
    BY <1>2, <2>1
  <2>4. Faithful(Append(s, m), T!Parsed(c, m))
    BY <2>3, ParsedIs, AddedFaithful, ExtendedFaithful
  <2>5. Append(s, m) \in Seq(T!FlatMessages)
    OBVIOUS
  <2>6. QED
    BY <2>2, <2>4, <2>5
<1>3. QED
  <2>. HIDE DEF D
  <2>1. \A s \in Seq(T!FlatMessages) : s \in D
    BY <1>1, <1>2, Growing
  <2>2. QED
    BY <2>1 DEF D

\* What Anthropic is told of canonical messages: instructions apart, then the conversation.
LEMMA HeardIs ==
  ASSUME NEW c \in Seq(CanonM)
  PROVE  T!ReadsBlocks(T!BuildSystem(<<>>, c), T!Those(c, T!Conversation))
           = Mapped(Instructed, c) \o Mapped(Spoken, c)
<1> DEFINE gi == [m \in CanonM |-> IF T!Conversation(m) THEN <<>> ELSE m.content]
           gc == [m \in CanonM |-> IF T!Conversation(m) THEN <<m>> ELSE <<>>]
           hc == [m \in CanonM |-> T!FindsAll(m.role, m.content)]
<1>1. \A i \in DOMAIN c : c[i] \in CanonM
  OBVIOUS
<1>2. \A m \in CanonM : m.content \in Seq(Piece) /\ m.role \in Readers
  BY DEF CanonM, Readers
<1>3. PICK hi : hi = Found("instruction") /\ Makes(hi, Piece, Entry)
  <2>1. "instruction" \in Readers
    BY DEF Readers
  <2>2. QED
    BY <2>1, FoundMakes
<1>4. Makes(gi, CanonM, Piece)
  BY <1>2, EmptySeq DEF Makes
<1>5. Makes(gc, CanonM, CanonM)
  <2>1. \A m \in CanonM : <<m>> \in Seq(CanonM) /\ <<>> \in Seq(CanonM)
    BY EmptySeq
  <2>2. QED
    BY <2>1 DEF Makes
<1>6. Makes(hc, CanonM, Entry)
  <2>1. \A m \in CanonM : T!FindsAll(m.role, m.content) \in Seq(Entry)
    BY <1>2, FindsBoth
  <2>2. QED
    BY <2>1 DEF Makes
<1>7. T!BuildSystem(<<>>, c) = Mapped(gi, c)
  <2>1. \A i \in DOMAIN c : gi[c[i]] = IF T!Conversation(c[i]) THEN <<>> ELSE c[i].content
    BY <1>1
  <2>2. T!BuildSystem(<<>>, c) = <<>> \o Mapped(gi, c)
    <3>. HIDE DEF gi
    <3>1. QED
      BY <2>1, SameFlatten DEF T!BuildSystem, T!Each, Mapped
  <2>3. Mapped(gi, c) \in Seq(Piece)
    <3>. HIDE DEF gi
    <3>1. QED
      BY <1>4, MappedEach
  <2>4. QED
    <3>. HIDE DEF gi
    <3>1. QED
      BY <2>2, <2>3, ConcatEmptySeq
<1>8. T!Those(c, T!Conversation) = Mapped(gc, c)
  <2>1. \A i \in DOMAIN c : gc[c[i]] = IF T!Conversation(c[i]) THEN <<c[i]>> ELSE <<>>
    BY <1>1
  <2>2. QED
    <3>. HIDE DEF gc
    <3>1. QED
      BY <2>1, SameFlatten DEF T!Those, T!Each, Mapped
<1>9. T!FindsAll("instruction", Mapped(gi, c)) = Mapped(Instructed, c)
  <2>1. \A m \in CanonM : Instructed[m] = Mapped(hi, gi[m])
    <3>1. ASSUME NEW m \in CanonM PROVE Instructed[m] = Mapped(hi, gi[m])
      <4>1. CASE T!Conversation(m)
        <5>1. T!Picture \in Piece
          BY DEF Piece, OfUser, Inner, Parts
        <5>2. Mapped(hi, <<>>) = <<>>
          BY <1>3, <5>1, MappedOne
        <5>3. QED
          BY <4>1, <5>2 DEF Instructed
      <4>2. CASE ~T!Conversation(m)
        <5>1. T!FindsAll("instruction", m.content) = Mapped(hi, m.content)
          BY <1>2, <1>3, EachIs
        <5>2. QED
          BY <4>2, <5>1 DEF Instructed
      <4>3. QED
        BY <4>1, <4>2
    <3>2. QED
      BY <3>1
  <2>2. Makes(Instructed, CanonM, Entry)
    BY HeardMakes
  <2>. HIDE DEF gi
  <2>3. \A s \in Seq(CanonM) : Mapped(hi, Mapped(gi, s)) = Mapped(Instructed, s)
    BY <1>3, <1>4, <2>1, <2>2, MappedTwice
  <2>4. Mapped(gi, c) \in Seq(Piece)
    BY <1>4, MappedEach
  <2>5. QED
    BY <1>3, <2>3, <2>4, EachIs
<1>10. Mapped(hc, Mapped(gc, c)) = Mapped(Spoken, c)
  <2>1. \A m \in CanonM : Spoken[m] = Mapped(hc, gc[m])
    <3>1. ASSUME NEW m \in CanonM PROVE Spoken[m] = Mapped(hc, gc[m])
      <4>1. Mapped(hc, <<>>) = <<>> /\ Mapped(hc, <<m>>) = hc[m]
        <5>. HIDE DEF hc, gc
        <5>1. QED
          BY <1>6, MappedOne
      <4>2. hc[m] = T!FindsAll(m.role, m.content) /\ gc[m] = IF T!Conversation(m) THEN <<m>> ELSE <<>>
        OBVIOUS
      <4>3. QED
        <5>. HIDE DEF hc, gc
        <5>1. QED
          BY <4>1, <4>2 DEF Spoken
    <3>2. QED
      BY <3>1
  <2>2. Makes(Spoken, CanonM, Entry)
    BY HeardMakes
  <2>. HIDE DEF gc, hc
  <2>3. \A s \in Seq(CanonM) : Mapped(hc, Mapped(gc, s)) = Mapped(Spoken, s)
    BY <1>5, <1>6, <2>1, <2>2, MappedTwice
  <2>4. QED
    BY <2>3
<1>11. \A s \in Seq(CanonM) : T!Each(s, LAMBDA m : T!FindsAll(m.role, m.content)) = Mapped(hc, s)
  <2>1. ASSUME NEW s \in Seq(CanonM) PROVE T!Each(s, LAMBDA m : T!FindsAll(m.role, m.content)) = Mapped(hc, s)
    <3>1. \A i \in DOMAIN s : s[i] \in CanonM
      OBVIOUS
    <3>2. \A i \in DOMAIN s : hc[s[i]] = T!FindsAll(s[i].role, s[i].content)
      BY <3>1
    <3>3. QED
      <4>. HIDE DEF hc
      <4>1. QED
        BY <3>2, SameFlatten DEF T!Each, Mapped
  <2>2. QED
    BY <2>1
<1>12. PICK t \in Seq(CanonM) : t = Mapped(gc, c)
  <2>. HIDE DEF gc
  <2>1. Mapped(gc, c) \in Seq(CanonM)
    BY <1>5, MappedEach
  <2>2. QED
    BY <2>1
<1>13. T!Each(t, LAMBDA m : T!FindsAll(m.role, m.content)) = Mapped(Spoken, c)
  <2>1. T!Each(t, LAMBDA m : T!FindsAll(m.role, m.content)) = Mapped(hc, t)
    BY <1>11
  <2>2. QED
    <3>. HIDE DEF hc, gc
    <3>1. QED
      BY <1>10, <1>12, <2>1
<1>14. \A p : T!ReadsBlocks(p, t) = T!FindsAll("instruction", p) \o Mapped(Spoken, c)
  BY <1>13 DEF T!ReadsBlocks
<1>15. QED
  <2>. HIDE DEF gc, gi
  <2>1. QED
    BY <1>7, <1>8, <1>9, <1>12, <1>14
=============================================================================

---------------------------- MODULE RelayProofs -----------------------------
(***************************************************************************)
(* Proofs about a streamed answer (module Relay), for any prompt and any   *)
(* number of tokens: what it costs, and what its client is told of events  *)
(* that fit; then the decoders, which make such events of whatever a       *)
(* provider says.                                                          *)
(*                                                                         *)
(* The argument about the costs has four parts.  Usages: what the numbers  *)
(* of a provider add up to, whatever it reports and however often.  The    *)
(* loop: what an event does to them.  The decoders: that a record they are *)
(* given becomes contents and at most one event with numbers, at its end.  *)
(* The invariant: what holds of the loop between two records.              *)
(***************************************************************************)
EXTENDS Relay, FiniteSetTheorems, SequenceTheorems, TLAPS

\* What holds of 0 and of the next of any number holds of all.
LEMMA Counting ==
  ASSUME NEW D, NEW n \in Nat, 0 \in D, \A m \in 0 .. n - 1 : m \in D => m + 1 \in D
  PROVE  \A m \in 0 .. n : m \in D
<1> DEFINE Missed == { m \in 0 .. n : m \notin D }
           Bad    == { 0 .. m : m \in Missed }
<1>. SUFFICES ASSUME NEW x \in Missed PROVE FALSE
  OBVIOUS
<1>1. Bad \subseteq FiniteSubsetsOf(0 .. n)
  <2>. SUFFICES ASSUME NEW m \in 0 .. n PROVE 0 .. m \in FiniteSubsetsOf(0 .. n)
    OBVIOUS
  <2>1. IsFiniteSet(0 .. m) /\ 0 .. m \subseteq 0 .. n
    BY FS_Interval
  <2>2. QED
    BY <2>1 DEF FiniteSubsetsOf
<1>2. IsFiniteSet(0 .. n)
  BY FS_Interval
<1>3. Bad # {}
  OBVIOUS
<1>4. PICK s \in Bad : \A t \in Bad : <<t, s>> \notin StrictSubsetOrdering(0 .. n)
  <2>. HIDE DEF Bad
  <2>1. QED
    BY <1>1, <1>2, <1>3, FS_StrictSubsetOrderingWellFounded, WFMin
<1>5. PICK m \in Missed : s = 0 .. m
  BY <1>4
<1>6. m # 0 /\ m - 1 \in 0 .. n - 1 /\ (m - 1) + 1 = m /\ m - 1 \in 0 .. n
  BY <1>5
<1>7. m - 1 \in Missed
  BY <1>5, <1>6
<1>8. 0 .. m - 1 \in Bad
  BY <1>7
<1>9. 0 .. m - 1 \subseteq 0 .. m /\ m \in 0 .. m /\ m \notin 0 .. m - 1 /\ 0 .. m \subseteq 0 .. n
  BY <1>5
<1>10. QED
  BY <1>4, <1>5, <1>8, <1>9 DEF StrictSubsetOrdering

\* f starts with a and goes on by steps, which stay in V.
Steps(step, n, V)        == step \in [V \X (1 .. n) -> V]
Follows(f, a, step, n, V) == /\ f \in [0 .. n -> V] /\ f[0] = a
                             /\ \A k \in 1 .. n : f[k] = step[<<f[k - 1], k>>]

\* What is computed one step after another has a value after every step.
LEMMA Iterates ==
  ASSUME NEW n \in Nat, NEW V, NEW a \in V, NEW step, Steps(step, n, V)
  PROVE  \E f : Follows(f, a, step, n, V)
<1>. USE DEF Steps
<1> DEFINE Done(f, m) == /\ f \in [0 .. m -> V] /\ f[0] = a
                         /\ \A k \in 1 .. m : f[k] = step[<<f[k - 1], k>>]
           D == { m \in 0 .. n : \E f : Done(f, m) }
<1>1. 0 \in D
  <2>1. Done([k \in 0 .. 0 |-> a], 0)
    OBVIOUS
  <2>2. 0 \in 0 .. n
    OBVIOUS
  <2>3. QED
    BY <2>1, <2>2
<1>2. ASSUME NEW m \in 0 .. n - 1, m \in D PROVE m + 1 \in D
  <2>1. PICK f : Done(f, m)
    BY <1>2
  <2>2. m \in Nat /\ m + 1 \in 1 .. n /\ m + 1 \in 0 .. n /\ f[m] \in V
    BY <2>1
  <2> DEFINE next == step[<<f[m], m + 1>>]
             g    == [k \in 0 .. m + 1 |-> IF k = m + 1 THEN next ELSE f[k]]
  <2>3. next \in V
    BY <2>2
  <2>4. \A k \in 0 .. m : k \in 0 .. m + 1 /\ k # m + 1 /\ f[k] \in V
    BY <2>1, <2>2
  <2>5. \A k \in 0 .. m : g[k] = f[k]
    BY <2>4
  <2>6. g[m + 1] = next
    BY <2>2
  <2>7. g \in [0 .. m + 1 -> V]
    <3>. HIDE DEF next
    <3>1. \A k \in 0 .. m + 1 : k = m + 1 \/ k \in 0 .. m
      BY <2>2
    <3>2. QED
      BY <2>3, <2>4, <3>1
  <2>8. ASSUME NEW k \in 1 .. m + 1 PROVE g[k] = step[<<g[k - 1], k>>]
    <3>1. CASE k = m + 1
      <4>1. k - 1 = m /\ m \in 0 .. m
        BY <2>2, <3>1
      <4>2. QED
        BY <2>5, <2>6, <3>1, <4>1
    <3>2. CASE k # m + 1
      <4>1. k \in 1 .. m /\ k \in 0 .. m /\ k - 1 \in 0 .. m
        BY <2>2, <3>2
      <4>2. QED
        BY <2>1, <2>5, <4>1
    <3>3. QED
      BY <3>1, <3>2
  <2>9. g[0] = a
    BY <2>1, <2>2, <2>5
  <2>10. Done(g, m + 1)
    <3>. HIDE DEF g
    <3>1. QED
      BY <2>7, <2>8, <2>9
  <2>11. QED
    BY <2>2, <2>10
<1>3. n \in D
  <2>. HIDE DEF D
  <2>1. \A m \in 0 .. n : m \in D
    BY <1>1, <1>2, Counting
  <2>2. QED
    BY <2>1
<1>4. PICK f : Done(f, n)
  BY <1>3
<1>5. QED
  BY <1>4 DEF Follows

-----------------------------------------------------------------------------
(* Usage.                                                                  *)

\* The sum of a short list of parts.
LEMMA PartsAdded ==
  ASSUME NEW n \in Nat, NEW parts \in [1 .. n -> Int], parts \in Seq(Int), Len(parts) = n
  PROVE  \E total \in [0 .. n -> Int] :
           /\ total[0] = 0 /\ \A k \in 1 .. n : total[k] = total[k - 1] + parts[k]
           /\ CheckedSum(parts) = IF (\E i \in 1 .. n : parts[i] < 0) \/ total[n] > MaxInt THEN None ELSE total[n]
<1> DEFINE step == [x \in Int \X (1 .. n) |-> x[1] + parts[x[2]]]
           IsSum(f) == f = [k \in 0 .. n |-> IF k = 0 THEN 0 ELSE f[k - 1] + parts[k]]
<1>1. Steps(step, n, Int) /\ \A a \in Int, k \in 1 .. n : step[<<a, k>>] = a + parts[k]
  BY DEF Steps
<1>2. PICK f : Follows(f, 0, step, n, Int)
  <2>. HIDE DEF step
  <2>1. 0 \in Int
    OBVIOUS
  <2>2. QED
    BY <1>1, <2>1, Iterates
<1>3. \A k \in 1 .. n : f[k - 1] \in Int /\ f[k] = f[k - 1] + parts[k]
  <2>. HIDE DEF step
  <2>. SUFFICES ASSUME NEW k \in 1 .. n PROVE f[k - 1] \in Int /\ f[k] = f[k - 1] + parts[k]
    OBVIOUS
  <2>1. k - 1 \in 0 .. n
    OBVIOUS
  <2>2. QED
    BY <1>1, <1>2, <2>1 DEF Follows
<1>4. IsSum(f)
  <2>. HIDE DEF step
  <2>1. \A k \in 0 .. n : k = 0 \/ k \in 1 .. n
    OBVIOUS
  <2>2. QED
    BY <1>2, <1>3, <2>1 DEF Follows
<1> DEFINE g == CHOOSE h : IsSum(h)
<1>5. IsSum(g)
  BY <1>4
<1>6. g[0] = 0 /\ \A k \in 1 .. n : g[k] = g[k - 1] + parts[k]
  <2>1. g = [k \in 0 .. n |-> IF k = 0 THEN 0 ELSE g[k - 1] + parts[k]]
    BY <1>5
  <2>. HIDE DEF g
  <2>2. 0 \in 0 .. n /\ \A k \in 1 .. n : k \in 0 .. n /\ k # 0
    OBVIOUS
  <2>3. QED
    BY <2>1, <2>2
<1>7. g \in [0 .. n -> Int]
  <2> DEFINE D == { k \in 0 .. n : g[k] \in Int }
  <2>. HIDE DEF g
  <2>1. 0 \in D
    BY <1>6
  <2>2. ASSUME NEW m \in 0 .. n - 1, m \in D PROVE m + 1 \in D
    <3>1. m + 1 \in 1 .. n /\ (m + 1) - 1 = m
      OBVIOUS
    <3>2. QED
      BY <1>6, <2>2, <3>1
  <2>. HIDE DEF D
  <2>3. \A k \in 0 .. n : k \in D
    BY <2>1, <2>2, Counting
  <2>4. g = [k \in 0 .. n |-> IF k = 0 THEN 0 ELSE g[k - 1] + parts[k]]
    BY <1>5
  <2>5. QED
    BY <2>3, <2>4 DEF D
<1>8. CheckedSum(parts) = IF (\E i \in 1 .. n : parts[i] < 0) \/ g[n] > MaxInt THEN None ELSE g[n]
  BY DEF CheckedSum
<1>. HIDE DEF g
<1>9. QED
  BY <1>6, <1>7, <1>8

\* The sums that are formed: of three parts,
LEMMA ThreeAdded ==
  ASSUME NEW a \in Int, NEW b \in Int, NEW c \in Int
  PROVE  CheckedSum(<<a, b, c>>) =
           IF a < 0 \/ b < 0 \/ c < 0 \/ a + b + c > MaxInt THEN None ELSE a + b + c
<1> DEFINE parts == <<a, b, c>>
<1>1. parts \in [1 .. 3 -> Int] /\ parts \in Seq(Int) /\ Len(parts) = 3
  OBVIOUS
<1>2. parts[1] = a /\ parts[2] = b /\ parts[3] = c
  OBVIOUS
<1>. HIDE DEF parts
<1>3. PICK total \in [0 .. 3 -> Int] :
        /\ total[0] = 0 /\ \A k \in 1 .. 3 : total[k] = total[k - 1] + parts[k]
        /\ CheckedSum(parts) = IF (\E i \in 1 .. 3 : parts[i] < 0) \/ total[3] > MaxInt THEN None ELSE total[3]
  BY <1>1, PartsAdded
<1>4. total[1] = 0 + a /\ total[2] = total[1] + b /\ total[3] = total[2] + c
  <2>1. 1 \in 1 .. 3 /\ 2 \in 1 .. 3 /\ 3 \in 1 .. 3 /\ 1 - 1 = 0 /\ 2 - 1 = 1 /\ 3 - 1 = 2
    OBVIOUS
  <2>2. QED
    BY <1>2, <1>3, <2>1
<1>5. total[3] = a + b + c
  BY <1>4
<1>6. (\E i \in 1 .. 3 : parts[i] < 0) <=> a < 0 \/ b < 0 \/ c < 0
  BY <1>2
<1>7. QED
  BY <1>3, <1>5, <1>6 DEF parts

\* and of four.
LEMMA FourAdded ==
  ASSUME NEW a \in Int, NEW b \in Int, NEW c \in Int, NEW d \in Int
  PROVE  CheckedSum(<<a, b, c, d>>) =
           IF a < 0 \/ b < 0 \/ c < 0 \/ d < 0 \/ a + b + c + d > MaxInt THEN None ELSE a + b + c + d
<1> DEFINE parts == <<a, b, c, d>>
<1>1. parts \in [1 .. 4 -> Int] /\ parts \in Seq(Int) /\ Len(parts) = 4
  OBVIOUS
<1>2. parts[1] = a /\ parts[2] = b /\ parts[3] = c /\ parts[4] = d
  OBVIOUS
<1>. HIDE DEF parts
<1>3. PICK total \in [0 .. 4 -> Int] :
        /\ total[0] = 0 /\ \A k \in 1 .. 4 : total[k] = total[k - 1] + parts[k]
        /\ CheckedSum(parts) = IF (\E i \in 1 .. 4 : parts[i] < 0) \/ total[4] > MaxInt THEN None ELSE total[4]
  BY <1>1, PartsAdded
<1>4. total[1] = 0 + a /\ total[2] = total[1] + b /\ total[3] = total[2] + c /\ total[4] = total[3] + d
  <2>1. /\ 1 \in 1 .. 4 /\ 2 \in 1 .. 4 /\ 3 \in 1 .. 4 /\ 4 \in 1 .. 4
        /\ 1 - 1 = 0 /\ 2 - 1 = 1 /\ 3 - 1 = 2 /\ 4 - 1 = 3
    OBVIOUS
  <2>2. QED
    BY <1>2, <1>3, <2>1
<1>5. total[4] = a + b + c + d
  BY <1>4
<1>6. (\E i \in 1 .. 4 : parts[i] < 0) <=> a < 0 \/ b < 0 \/ c < 0 \/ d < 0
  BY <1>2
<1>7. QED
  BY <1>3, <1>5, <1>6 DEF parts

\* The cached tokens the provider of this channel tells of.
CachedTold == IF channel = "openai" /\ details = {FALSE} THEN 0 ELSE Cached

\* Numbers of a usage, the locals of the loop, what was made, and the decoder's state, as they can be.
UsageType == [input : Counts, output : Counts, total : Counts, creation : Int, read : Int]
LoopType  == [usage : UsageType, finalUsage : UsageType, finalUsageSeen : BOOLEAN,
              finalUsageInvalidated : BOOLEAN, protocolCompleted : BOOLEAN, committed : BOOLEAN]
MadeType  == [started : BOOLEAN, tokens : 0 .. MaxTokens, deltas : Nat, open : Kinds \cup {None},
              next : Nat, flawless : BOOLEAN, finished : BOOLEAN, told : BOOLEAN]
DecOK(d)  == /\ d \in [started : BOOLEAN, next : Nat, textOpen : BOOLEAN, textBlock : Nat, tools : {d.tools}]
             /\ DOMAIN d.tools \subseteq {0, 1} /\ d.tools \in [DOMAIN d.tools -> Nat]

\* Numbers that the provider of a flawless stream may give: nothing but the truth, the cache with the
\* rest of the input, if its reports are consistent; and numbers from which nothing can be settled any
\* more.
Honest(u)  == Consistent =>
                /\ u.creation = 0 /\ u.input \in {None, Prompt - CachedTold} /\ u.read \in {0, CachedTold}
                /\ u.input # None \/ u.total # None => u.read = CachedTold
Spoiled(u) == u.creation = -1 \/ u.read = -1 \/ (u.creation = MaxInt /\ u.input # None /\ u.input >= 1)

\* What has been accumulated is true or beyond settlement, and a final report is part of it.
Sound(u) == /\ u \in UsageType
            /\ u.creation \in {-1, 0, MaxInt} /\ u.read >= -1
            /\ u.input # None => u.input >= 0 /\ (u.read = -1 \/ u.input + u.read >= 1)
            /\ Honest(u) \/ Spoiled(u)

Within(f, u) == /\ f \in UsageType
                /\ f.input # None => u.input # None /\ f.input >= 0 /\ (u.read = -1 \/ f.input + u.read >= 1)
                /\ f.output # None => f.output >= 0
                /\ f.total # None => u.total # None
                /\ Consistent /\ Honest(u) => f.input \in {None, Prompt - CachedTold}

\* A final report that tells the truth after n tokens.
TrueAt(f, n) == f.output \in {None, n} /\ f.total \in {None, Prompt + n}

\* An OpenAI stream has nothing open, so that its end says nothing but the end.
Closed(d) == channel = "openai" => d.started /\ ~d.textOpen /\ DOMAIN d.tools = {}

\* The numbers of the loop: what is final and not in doubt is true of all that was generated.
NumbersInv(l, m) ==
  /\ Sound(l.usage) /\ Within(l.finalUsage, l.usage)
  /\ ~l.finalUsageSeen => l.finalUsage = NoUsage /\ ~l.finalUsageInvalidated
  /\ l.finalUsageSeen /\ ~l.finalUsageInvalidated => Spoiled(l.usage) \/ TrueAt(l.finalUsage, m.tokens)
  /\ l.finalUsageSeen <=> m.told

\* A flawless stream of consistent reports has told its numbers when it tells of the end, and nobody
\* doubts them.
FlawlessInv(l, m) ==
  m.flawless /\ Consistent =>
    /\ Honest(l.usage)
    /\ m.told => /\ m.finished /\ ~l.finalUsageInvalidated
                 /\ l.finalUsage.input = Prompt - CachedTold /\ l.finalUsage.output = m.tokens

\* What holds of a stream on its way, and of its outcome.
Kept(l, o, m, d) ==
  /\ l \in LoopType /\ m \in MadeType
  /\ channel = "openai" => DecOK(d)
  /\ m.flawless /\ m.finished => Closed(d)
  /\ o \in [kind : {"success", "channel_error", "neutral"}, exact : BOOLEAN] \cup {None}
  /\ o = None => ~l.protocolCompleted /\ NumbersInv(l, m) /\ FlawlessInv(l, m)
  /\ o # None /\ o.exact /\ Consistent => /\ ChargedInput(l.usage) + l.usage.creation + l.usage.read = Prompt
                                          /\ ChargedOutput(l.usage) = m.tokens
  /\ o # None => o.exact = (o.kind = "success")
  /\ o # None /\ m.flawless /\ Consistent => o.kind # "channel_error"

\* The inductive invariant of Relay.
RelayInv == channel \in Formats /\ Kept(loop, outcome, made, dec)

\* A count, or nothing.
Known(n) == IF n = None THEN 0 ELSE n

\* How two sequences of numbers lie in a third.
Lays(w, s, t, n, m) == /\ Len(s) = n /\ Len(t) = m /\ Len(w) = n + m
                       /\ \A i \in 1 .. n : w[i] = s[i]
                       /\ \A i \in 1 .. m : w[n + i] = t[i]

\* Then they are its beginning and its end.
LEMMA Laid ==
  ASSUME NEW s \in Seq(Int), NEW t \in Seq(Int), NEW w \in Seq(Int), NEW n \in Nat, NEW m \in Nat,
         Lays(w, s, t, n, m)
  PROVE  s \o t = w
<1>. USE DEF Lays
<1>1. s \o t \in Seq(Int) /\ Len(s \o t) = n + m
      /\ \A i \in 1 .. n + m : (s \o t)[i] = IF i <= n THEN s[i] ELSE t[i - n]
  BY ConcatProperties
<1>2. ASSUME NEW i \in 1 .. n + m PROVE (s \o t)[i] = w[i]
  <2>1. CASE i <= n
    BY <1>1, <2>1
  <2>2. CASE i > n
    <3>1. PICK j \in 1 .. m : i = n + j /\ j = i - n
      <4>1. i - n \in 1 .. m /\ i = n + (i - n)
        BY <2>2
      <4>2. QED
        BY <4>1
    <3>2. (s \o t)[i] = t[i - n]
      BY <1>1, <2>2
    <3>3. w[n + j] = t[j]
      OBVIOUS
    <3>4. QED
      BY <3>1, <3>2, <3>3
  <2>3. QED
    BY <2>1, <2>2
<1>3. QED
  BY <1>1, <1>2, SeqEqual

\* Lists of numbers put together: one and one,
LEMMA OneAndOne ==
  ASSUME NEW a \in Int, NEW b \in Int
  PROVE  <<a>> \o <<b>> = <<a, b>>
<1> DEFINE s == <<a>>
           t == <<b>>
           w == <<a, b>>
<1>1. s \in Seq(Int) /\ t \in Seq(Int) /\ w \in Seq(Int)
  OBVIOUS
<1>2. Len(s) = 1 /\ Len(t) = 1 /\ Len(w) = 1 + 1
  OBVIOUS
<1>3. (\A i \in 1 .. 1 : w[i] = s[i]) /\ (\A i \in 1 .. 1 : w[1 + i] = t[i])
  OBVIOUS
<1>. HIDE DEF s, t, w
<1>4. Lays(w, s, t, 1, 1)
  BY <1>2, <1>3 DEF Lays
<1>5. s \o t = w
  BY <1>1, <1>4, Laid
<1>6. QED
  BY <1>5 DEF s, t, w

\* one and two,
LEMMA OneAndTwo ==
  ASSUME NEW a \in Int, NEW c \in Int, NEW d \in Int
  PROVE  <<a>> \o <<c, d>> = <<a, c, d>>
<1> DEFINE s == <<a>>
           t == <<c, d>>
           w == <<a, c, d>>
<1>1. s \in Seq(Int) /\ t \in Seq(Int) /\ w \in Seq(Int)
  OBVIOUS
<1>2. Len(s) = 1 /\ Len(t) = 2 /\ Len(w) = 1 + 2
  OBVIOUS
<1>3. (\A i \in 1 .. 1 : w[i] = s[i]) /\ (\A i \in 1 .. 2 : w[1 + i] = t[i])
  OBVIOUS
<1>. HIDE DEF s, t, w
<1>4. Lays(w, s, t, 1, 2)
  BY <1>2, <1>3 DEF Lays
<1>5. s \o t = w
  BY <1>1, <1>4, Laid
<1>6. QED
  BY <1>5 DEF s, t, w

\* two and two.
LEMMA TwoAndTwo ==
  ASSUME NEW a \in Int, NEW b \in Int, NEW c \in Int, NEW d \in Int
  PROVE  <<a, b>> \o <<c, d>> = <<a, b, c, d>>
<1> DEFINE s == <<a, b>>
           t == <<c, d>>
           w == <<a, b, c, d>>
<1>1. s \in Seq(Int) /\ t \in Seq(Int) /\ w \in Seq(Int)
  OBVIOUS
<1>2. Len(s) = 2 /\ Len(t) = 2 /\ Len(w) = 2 + 2
  OBVIOUS
<1>3. (\A i \in 1 .. 2 : w[i] = s[i]) /\ (\A i \in 1 .. 2 : w[2 + i] = t[i])
  OBVIOUS
<1>. HIDE DEF s, t, w
<1>4. Lays(w, s, t, 2, 2)
  BY <1>2, <1>3 DEF Lays
<1>5. s \o t = w
  BY <1>1, <1>4, Laid
<1>6. QED
  BY <1>5 DEF s, t, w

\* The parts of a usage of which both sides are known, and their sum.
LEMMA PartsOf ==
  ASSUME NEW u, u.input \in Int, u.output \in Int, u.creation \in Int, u.read \in Int, u.input # None, u.output # None
  PROVE  /\ IfKnown(u.input) \o IfKnown(u.output) = <<u.input, u.output>>
         /\ (IfKnown(u.input) \o IfKnown(u.output)) \o <<u.creation, u.read>>
              = <<u.input, u.output, u.creation, u.read>>
         /\ CheckedSum(<<u.input, u.output, u.creation, u.read>>) =
               IF u.input < 0 \/ u.output < 0 \/ u.creation < 0 \/ u.read < 0
                  \/ u.input + u.output + u.creation + u.read > MaxInt
               THEN None ELSE u.input + u.output + u.creation + u.read
<1>1. PICK a \in Int, b \in Int, c \in Int, d \in Int :
        a = u.input /\ b = u.output /\ c = u.creation /\ d = u.read
  OBVIOUS
<1>2. a # None /\ b # None
  BY <1>1
<1>3. /\ IfKnown(a) \o IfKnown(b) = <<a, b>>
      /\ (IfKnown(a) \o IfKnown(b)) \o <<c, d>> = <<a, b, c, d>>
  <2>1. IfKnown(a) = <<a>> /\ IfKnown(b) = <<b>>
    BY <1>2 DEF IfKnown
  <2>2. <<a>> \o <<b>> = <<a, b>>
    BY OneAndOne
  <2>3. <<a, b>> \o <<c, d>> = <<a, b, c, d>>
    BY TwoAndTwo
  <2>4. QED
    BY <2>1, <2>2, <2>3, Zenon
<1>4. CheckedSum(<<a, b, c, d>>) =
        IF a < 0 \/ b < 0 \/ c < 0 \/ d < 0 \/ a + b + c + d > MaxInt THEN None ELSE a + b + c + d
  BY FourAdded
<1>5. QED
  BY <1>1, <1>3, <1>4

\* When the numbers of a usage are enough for an exact settlement.
LEMMA ReadyIs ==
  ASSUME NEW u \in UsageType, usageReadyForExactSettlement(u)
  PROVE  /\ u.input # None \/ u.output # None
         /\ u.creation >= 0 /\ u.read >= 0 /\ Known(u.input) >= 0 /\ Known(u.output) >= 0
         /\ Known(u.input) + Known(u.output) + u.creation + u.read <= MaxInt
         /\ u.total = None => u.input # None /\ u.output # None
         /\ u.total # None /\ u.input # None /\ u.output # None =>
              u.input + u.output + u.creation + u.read = u.total
<1> DEFINE cache == <<u.creation, u.read>>
           known == IfKnown(u.input) \o IfKnown(u.output)
<1>1. /\ u.input \in Counts /\ u.output \in Counts /\ u.total \in Counts
      /\ u.creation \in Int /\ u.read \in Int /\ None \notin Int
  BY RelayAssumption DEF UsageType
<1>2. CASE u.input # None /\ u.output # None
  <2>1. u.input \in Int /\ u.output \in Int
    BY <1>1, <1>2 DEF Counts
  <2>2. known = <<u.input, u.output>> /\ known \o cache = <<u.input, u.output, u.creation, u.read>>
    BY <1>1, <1>2, <2>1, PartsOf
  <2>3. Len(known) = 2
    BY <2>2
  <2>4. CheckedSum(<<u.input, u.output, u.creation, u.read>>) =
          IF u.input < 0 \/ u.output < 0 \/ u.creation < 0 \/ u.read < 0
             \/ u.input + u.output + u.creation + u.read > MaxInt
          THEN None ELSE u.input + u.output + u.creation + u.read
    BY <1>1, <1>2, <2>1, PartsOf
  <2>5. /\ CheckedSum(<<u.input, u.output, u.creation, u.read>>) # None
        /\ u.total # None => CheckedSum(<<u.input, u.output, u.creation, u.read>>) = u.total
    <3>. HIDE DEF cache, known
    <3>1. QED
      BY <2>2, <2>3 DEF usageReadyForExactSettlement, cache, known
  <2>6. QED
    BY <1>1, <1>2, <2>1, <2>4, <2>5, RelayAssumption DEF Known
<1>3. CASE u.input # None /\ u.output = None
  <2>1. u.input \in Int
    BY <1>1, <1>3 DEF Counts
  <2>2. known = <<u.input>> /\ known \o cache = <<u.input, u.creation, u.read>>
    BY <1>1, <1>3, <2>1, ConcatEmptySeq, OneAndTwo DEF IfKnown
  <2>3. Len(known) = 1
    BY <2>2
  <2>4. CheckedSum(<<u.input, u.creation, u.read>>) =
          IF u.input < 0 \/ u.creation < 0 \/ u.read < 0 \/ u.input + u.creation + u.read > MaxInt
          THEN None ELSE u.input + u.creation + u.read
    BY <1>1, <2>1, ThreeAdded
  <2>5. CheckedSum(<<u.input, u.creation, u.read>>) # None /\ u.total # None
    <3>1. CheckedSum(known \o cache) # None /\ (u.total # None \/ Len(known) = 2)
      BY DEF usageReadyForExactSettlement
    <3>. HIDE DEF cache, known
    <3>2. u.total # None
      BY <2>3, <3>1
    <3>3. QED
      BY <2>2, <3>1, <3>2, Zenon
  <2>6. QED
    BY <1>1, <1>3, <2>1, <2>4, <2>5, RelayAssumption DEF Known
<1>4. CASE u.input = None /\ u.output # None
  <2>1. u.output \in Int
    BY <1>1, <1>4 DEF Counts
  <2>2. known = <<u.output>> /\ known \o cache = <<u.output, u.creation, u.read>>
    BY <1>1, <1>4, <2>1, ConcatEmptySeq, OneAndTwo DEF IfKnown
  <2>3. Len(known) = 1
    BY <2>2
  <2>4. CheckedSum(<<u.output, u.creation, u.read>>) =
          IF u.output < 0 \/ u.creation < 0 \/ u.read < 0 \/ u.output + u.creation + u.read > MaxInt
          THEN None ELSE u.output + u.creation + u.read
    BY <1>1, <2>1, ThreeAdded
  <2>5. CheckedSum(<<u.output, u.creation, u.read>>) # None /\ u.total # None
    <3>1. CheckedSum(known \o cache) # None /\ (u.total # None \/ Len(known) = 2)
      BY DEF usageReadyForExactSettlement
    <3>. HIDE DEF cache, known
    <3>2. u.total # None
      BY <2>3, <3>1
    <3>3. QED
      BY <2>2, <3>1, <3>2, Zenon
  <2>6. QED
    BY <1>1, <1>4, <2>1, <2>4, <2>5, RelayAssumption DEF Known
<1>5. CASE u.input = None /\ u.output = None
  <2>1. known = <<>>
    BY <1>5 DEF IfKnown
  <2>2. QED
    BY <2>1 DEF usageReadyForExactSettlement, known
<1>6. QED
  BY <1>2, <1>3, <1>4, <1>5

\* Two known sides, without a total or with one that agrees, are enough.
LEMMA ReadyIf ==
  ASSUME NEW u \in UsageType, u.input # None, u.output # None, u.input >= 0, u.output >= 0,
         u.creation >= 0, u.read >= 0, u.input + u.output + u.creation + u.read <= MaxInt,
         u.total \in {None, u.input + u.output + u.creation + u.read}
  PROVE  usageReadyForExactSettlement(u)
<1> DEFINE cache == <<u.creation, u.read>>
           known == IfKnown(u.input) \o IfKnown(u.output)
<1>1. /\ u.input \in Int /\ u.output \in Int
      /\ u.creation \in Int /\ u.read \in Int /\ None \notin Int
  BY RelayAssumption DEF UsageType, Counts
<1>2. known = <<u.input, u.output>> /\ known \o cache = <<u.input, u.output, u.creation, u.read>>
  BY <1>1, PartsOf
<1>3. Len(known) = 2 /\ known # <<>>
  BY <1>2
<1>4. CheckedSum(<<u.input, u.output, u.creation, u.read>>) = u.input + u.output + u.creation + u.read
  <2>1. CheckedSum(<<u.input, u.output, u.creation, u.read>>) =
          IF u.input < 0 \/ u.output < 0 \/ u.creation < 0 \/ u.read < 0
             \/ u.input + u.output + u.creation + u.read > MaxInt
          THEN None ELSE u.input + u.output + u.creation + u.read
    BY <1>1, PartsOf
  <2>2. QED
    BY <1>1, <2>1, RelayAssumption
<1>5. u.input + u.output + u.creation + u.read # None
  BY <1>1
<1> HIDE DEF cache, known
<1>6. QED
  BY <1>2, <1>3, <1>4, <1>5 DEF usageReadyForExactSettlement, cache, known

-----------------------------------------------------------------------------
(* What reports do to the numbers.                                         *)

\* A usage with a report taken in.
Accumulated(a, u) == [input    |-> LargestKnown(a.input, u.input),
                      output   |-> LargestKnown(a.output, u.output),
                      total    |-> LargestKnown(a.total, u.total),
                      creation |-> LargestValid(a.creation, u.creation),
                      read     |-> LargestValid(a.read, u.read)]

\* accumulateUsage takes the larger of every number of an event that has any.
LEMMA Accumulates ==
  ASSUME NEW a \in UsageType, NEW ev, ev.usage \in UsageType
  PROVE  accumulateUsage(a, ev) = Accumulated(a, ev.usage) /\ Accumulated(a, ev.usage) \in UsageType
<1>1. None \notin UsageType
  BY RelayAssumption DEF UsageType
<1>2. accumulateUsage(a, ev) = Accumulated(a, ev.usage)
  BY <1>1 DEF accumulateUsage, Accumulated, UsageType
<1>3. \A x, y \in Counts : LargestKnown(x, y) \in Counts
  BY DEF LargestKnown, Counts
<1>4. \A x, y \in Int : LargestValid(x, y) \in Int
  BY DEF LargestValid
<1>5. QED
  BY <1>2, <1>3, <1>4 DEF Accumulated, UsageType

\* The larger of two counts.
LEMMA LargestIs ==
  ASSUME NEW x \in Counts, NEW y \in Counts
  PROVE  /\ LargestKnown(x, y) \in {x, y}
         /\ LargestKnown(x, y) = None <=> x = None /\ y = None
         /\ x # None => LargestKnown(x, y) >= x
         /\ y # None => LargestKnown(x, y) >= y
         /\ LargestKnown(x, y) \in Counts
BY RelayAssumption DEF LargestKnown, Counts

\* The larger of two cache counts, of which -1 says that one could not be.
LEMMA ValidIs ==
  ASSUME NEW x \in Int, NEW y \in Int, x >= -1, y >= -1
  PROVE  /\ LargestValid(x, y) \in {x, y}
         /\ x = -1 \/ y = -1 <=> LargestValid(x, y) = -1
         /\ LargestValid(x, y) # -1 => LargestValid(x, y) >= x /\ LargestValid(x, y) >= y
BY DEF LargestValid

\* The true counts are numbers, the cached tokens among those of the request.
LEMMA CachedIs == /\ CachedTold \in Nat /\ CachedTold <= Prompt /\ Prompt \in Nat \ {0} /\ MaxInt \in Nat \ {0}
                  /\ Prompt - CachedTold \in Nat /\ None \notin Int
<1>1. CachedTold \in {0, Cached}
  BY DEF CachedTold
<1>2. QED
  BY <1>1, RelayAssumption

\* Numbers that can be added up stay so, what is spoiled stays spoiled, and truth joined to truth is
\* true.
LEMMA MergeSound ==
  ASSUME NEW a, NEW u, Sound(a), Sound(u)
  PROVE  /\ Sound(Accumulated(a, u))
         /\ Spoiled(a) \/ Spoiled(u) => Spoiled(Accumulated(a, u))
         /\ Honest(a) /\ Honest(u) => Honest(Accumulated(a, u))
<1> DEFINE b == Accumulated(a, u)
<1>1. /\ a \in UsageType /\ u \in UsageType
  BY DEF Sound
<1>2. /\ a.input \in Counts /\ u.input \in Counts /\ a.total \in Counts /\ u.total \in Counts
      /\ a.output \in Counts /\ u.output \in Counts
      /\ a.creation \in Int /\ u.creation \in Int /\ a.read \in Int /\ u.read \in Int
      /\ a.creation >= -1 /\ u.creation >= -1 /\ a.read >= -1 /\ u.read >= -1
  BY <1>1, CachedIs DEF Sound, UsageType
<1>3. /\ b.input = LargestKnown(a.input, u.input) /\ b.total = LargestKnown(a.total, u.total)
      /\ b.output = LargestKnown(a.output, u.output)
      /\ b.creation = LargestValid(a.creation, u.creation) /\ b.read = LargestValid(a.read, u.read)
  BY DEF Accumulated
<1>4. b \in UsageType
  <2>1. \A x, y \in Int : LargestValid(x, y) \in Int
    BY DEF LargestValid
  <2>2. QED
    BY <1>2, <2>1, LargestIs DEF Accumulated, UsageType
<1>5. /\ b.input \in {a.input, u.input} /\ (b.input = None <=> a.input = None /\ u.input = None)
      /\ a.input # None => b.input >= a.input
      /\ u.input # None => b.input >= u.input
  BY <1>2, <1>3, LargestIs
<1>6. b.total = None <=> a.total = None /\ u.total = None
  BY <1>2, <1>3, LargestIs
<1>7. /\ b.creation \in {a.creation, u.creation} /\ (a.creation = -1 \/ u.creation = -1 <=> b.creation = -1)
      /\ b.creation # -1 => b.creation >= a.creation /\ b.creation >= u.creation
  BY <1>2, <1>3, ValidIs
<1>8. /\ b.read \in {a.read, u.read} /\ (a.read = -1 \/ u.read = -1 <=> b.read = -1)
      /\ b.read # -1 => b.read >= a.read /\ b.read >= u.read
  BY <1>2, <1>3, ValidIs
<1> HIDE DEF b
<1>9. Spoiled(a) \/ Spoiled(u) => Spoiled(b)
  <2>1. a.creation \in {-1, 0, MaxInt} /\ u.creation \in {-1, 0, MaxInt} /\ MaxInt \in Nat
    BY CachedIs DEF Sound
  <2>2. ASSUME Spoiled(a) PROVE Spoiled(b)
    BY <1>2, <1>5, <1>7, <1>8, <2>1, <2>2 DEF Spoiled, Counts
  <2>3. ASSUME Spoiled(u) PROVE Spoiled(b)
    BY <1>2, <1>5, <1>7, <1>8, <2>1, <2>3 DEF Spoiled, Counts
  <2>4. QED
    BY <2>2, <2>3
<1>10. Honest(a) /\ Honest(u) => Honest(b)
  BY <1>2, <1>5, <1>6, <1>7, <1>8, CachedIs DEF Honest
<1>11. b.input # None => b.input >= 0 /\ (b.read = -1 \/ b.input + b.read >= 1)
  BY <1>2, <1>5, <1>8, CachedIs DEF Sound, Counts
<1>12. b.creation \in {-1, 0, MaxInt} /\ b.read >= -1
  BY <1>2, <1>7, <1>8 DEF Sound
<1>13. Sound(b)
  BY <1>4, <1>9, <1>10, <1>11, <1>12 DEF Sound
<1>14. QED
  BY <1>9, <1>10, <1>13 DEF b

\* A final report is part of both what is known and what is final.
LEMMA MergeWithin ==
  ASSUME NEW f, NEW a, NEW u, Sound(a), Sound(u), Within(f, a), u.output # None => u.output >= 0
  PROVE  Within(Accumulated(f, u), Accumulated(a, u)) /\ Within(f, Accumulated(a, u))
<1> DEFINE b == Accumulated(a, u)
           g == Accumulated(f, u)
<1>1. /\ a \in UsageType /\ u \in UsageType /\ f \in UsageType
  BY DEF Sound, Within
<1>2. /\ a.input \in Counts /\ u.input \in Counts /\ a.total \in Counts /\ u.total \in Counts
      /\ a.output \in Counts /\ u.output \in Counts
      /\ f.input \in Counts /\ f.output \in Counts /\ f.total \in Counts /\ f.creation \in Int /\ f.read \in Int
      /\ a.creation \in Int /\ u.creation \in Int /\ a.read \in Int /\ u.read \in Int
      /\ a.creation >= -1 /\ u.creation >= -1 /\ a.read >= -1 /\ u.read >= -1
  BY <1>1, CachedIs DEF Sound, UsageType
<1>3. /\ b.input = LargestKnown(a.input, u.input) /\ b.total = LargestKnown(a.total, u.total)
      /\ b.creation = LargestValid(a.creation, u.creation) /\ b.read = LargestValid(a.read, u.read)
      /\ g.input = LargestKnown(f.input, u.input) /\ g.total = LargestKnown(f.total, u.total)
      /\ g.output = LargestKnown(f.output, u.output)
  BY DEF Accumulated
<1>4. g \in UsageType
  <2>1. \A x, y \in Int : LargestValid(x, y) \in Int
    BY DEF LargestValid
  <2>2. QED
    BY <1>2, <2>1, LargestIs DEF Accumulated, UsageType
<1>5. b.input = None <=> a.input = None /\ u.input = None
  BY <1>2, <1>3, LargestIs
<1>6. /\ g.input \in {f.input, u.input} /\ (g.input = None <=> f.input = None /\ u.input = None)
  BY <1>2, <1>3, LargestIs
<1>7. /\ b.total = None <=> a.total = None /\ u.total = None
      /\ g.total = None <=> f.total = None /\ u.total = None
      /\ g.output \in {f.output, u.output}
  BY <1>2, <1>3, LargestIs
<1>8. /\ (a.read = -1 \/ u.read = -1 <=> b.read = -1)
      /\ b.read # -1 => b.read >= a.read /\ b.read >= u.read
      /\ b.read \in Int
  BY <1>2, <1>3, ValidIs
<1>9. Consistent /\ Honest(b) => Honest(a) /\ Honest(u)
  <2>1. ASSUME Consistent, Honest(b) PROVE Honest(a) /\ Honest(u)
    <3>1. ~Spoiled(b)
      BY <2>1, CachedIs DEF Honest, Spoiled
    <3>2. ~Spoiled(a) /\ ~Spoiled(u)
      BY <3>1, MergeSound
    <3>3. QED
      BY <3>2 DEF Sound
  <2>2. QED
    BY <2>1
<1> HIDE DEF b, g
<1>10. Within(g, b)
  <2>1. g.input # None => b.input # None /\ g.input >= 0 /\ (b.read = -1 \/ g.input + b.read >= 1)
    BY <1>2, <1>5, <1>6, <1>8 DEF Sound, Within, Counts
  <2>2. g.output # None => g.output >= 0
    BY <1>7 DEF Within
  <2>3. g.total # None => b.total # None
    BY <1>7 DEF Within
  <2>4. Consistent /\ Honest(b) => g.input \in {None, Prompt - CachedTold}
    BY <1>6, <1>9 DEF Within, Honest
  <2>5. QED
    BY <1>4, <2>1, <2>2, <2>3, <2>4 DEF Within
<1>11. Within(f, b)
  <2>1. f.input # None => b.input # None /\ f.input >= 0 /\ (b.read = -1 \/ f.input + b.read >= 1)
    BY <1>2, <1>5, <1>8 DEF Within, Counts
  <2>2. f.total # None => b.total # None
    BY <1>7 DEF Within
  <2>3. QED
    BY <1>1, <1>9, <2>1, <2>2 DEF Within
<1>12. QED
  BY <1>10, <1>11 DEF b, g

\* Events that carry content: none of them may come after a final usage, none has numbers.
Contents == [type : {"message_start", "block_start", "block_delta", "block_stop"},
             block : Counts, kind : Kinds \cup {None}, delta : Kinds \cup {"empty", None},
             stop : {FALSE}, usage : {None}, final : {FALSE}]

\* The locals after content.
Doubted(l) == [l EXCEPT !.finalUsageInvalidated = @ \/ l.finalUsageSeen]

\* Content after a final usage puts it in doubt, and does nothing else to the numbers.
LEMMA TrackContent ==
  ASSUME NEW l \in LoopType, NEW e \in Contents
  PROVE  Track(l, e) = Doubted(l) /\ Doubted(l) \in LoopType /\ Doubted(Doubted(l)) = Doubted(l)
<1>1. accumulateUsage(l.usage, e) = l.usage
  BY DEF accumulateUsage, Contents
<1>2. ~allowedAfterFinalUsage(e) /\ ~e.final /\ e.type # "message_stop"
  BY DEF allowedAfterFinalUsage, Contents
<1>3. Track(l, e) = Doubted(l)
  BY <1>1, <1>2 DEF Track, Doubted, LoopType
<1>4. Doubted(l) \in LoopType /\ Doubted(Doubted(l)) = Doubted(l)
  BY DEF Doubted, LoopType
<1>5. QED
  BY <1>3, <1>4

\* The locals of the loop before the first event, and after each.
Before(events) == [loop EXCEPT !.finalUsageInvalidated = @ \/ (loop.finalUsageSeen /\ events = <<>>)]

Goes(h, events) == /\ h = [k \in 0 .. Len(events) |-> h[k]]
                   /\ h[0] = Before(events)
                   /\ \A k \in 1 .. Len(events) : h[k] = Track(h[k - 1], events[k])

\* TrackAll is where such a sequence of locals arrives.
LEMMA Tracked ==
  ASSUME NEW events, Len(events) \in Nat, NEW h, Goes(h, events)
  PROVE  TrackAll(events) = h[Len(events)]
<1> DEFINE n == Len(events)
           After(f) == f = [k \in 0 .. n |-> IF k = 0 THEN Before(events) ELSE Track(f[k - 1], events[k])]
           g == CHOOSE f : After(f)
<1>1. After(h)
  <2>1. \A k \in 0 .. n : h[k] = IF k = 0 THEN Before(events) ELSE Track(h[k - 1], events[k])
    <3>1. \A k \in 0 .. n : k = 0 \/ k \in 1 .. n
      OBVIOUS
    <3>2. QED
      BY <3>1 DEF Goes
  <2>2. h = [k \in 0 .. n |-> h[k]]
    BY DEF Goes
  <2>3. QED
    BY <2>1, <2>2
<1>2. After(g)
  BY <1>1
<1>3. TrackAll(events) = g[n]
  BY DEF TrackAll, Before
<1>. HIDE DEF g
<1>4. /\ g[0] = Before(events)
      /\ \A k \in 1 .. n : g[k] = Track(g[k - 1], events[k])
  <2>1. \A k \in 1 .. n : k \in 0 .. n /\ k # 0
    OBVIOUS
  <2>2. 0 \in 0 .. n
    OBVIOUS
  <2>3. QED
    BY <1>2, <2>1, <2>2
<1>5. n \in { k \in 0 .. n : g[k] = h[k] }
  <2> DEFINE D == { k \in 0 .. n : g[k] = h[k] }
  <2>1. 0 \in D
    BY <1>4 DEF Goes
  <2>2. ASSUME NEW m \in 0 .. n - 1, m \in D PROVE m + 1 \in D
    <3>1. m + 1 \in 1 .. n /\ (m + 1) - 1 = m /\ m + 1 \in 0 .. n
      OBVIOUS
    <3>2. g[m + 1] = Track(g[m], events[m + 1]) /\ h[m + 1] = Track(h[m], events[m + 1])
      BY <1>4, <3>1 DEF Goes
    <3>3. QED
      BY <2>2, <3>1, <3>2
  <2>. HIDE DEF D
  <2>3. \A k \in 0 .. n : k \in D
    BY <2>1, <2>2, Counting
  <2>4. QED
    BY <2>3 DEF D
<1>6. QED
  BY <1>3, <1>5

\* A record of contents only puts a final usage in doubt, an empty record too.
LEMMA TrackContents ==
  ASSUME loop \in LoopType, NEW q \in Seq(Contents)
  PROVE  TrackAll(q) = Doubted(loop)
<1> DEFINE n == Len(q)
           h == [k \in 0 .. n |-> IF k = 0 THEN Before(q) ELSE Doubted(loop)]
<1>1. n \in Nat /\ \A k \in 1 .. n : q[k] \in Contents
  OBVIOUS
<1>2. q = <<>> => Before(q) = Doubted(loop)
  BY DEF Before, Doubted, LoopType
<1>3. q # <<>> => Before(q) = loop
  BY DEF Before, LoopType
<1>4. ASSUME NEW k \in 1 .. n PROVE h[k] = Track(h[k - 1], q[k])
  <2>1. h[k] = Doubted(loop) /\ k - 1 \in 0 .. n /\ q # <<>> /\ q[k] \in Contents
    BY <1>1
  <2>2. h[k - 1] \in {loop, Doubted(loop)}
    <3>1. h[k - 1] = IF k - 1 = 0 THEN Before(q) ELSE Doubted(loop)
      BY <2>1
    <3>. HIDE DEF h
    <3>2. QED
      BY <1>3, <2>1, <3>1
  <2>. HIDE DEF h
  <2>3. QED
    BY <2>1, <2>2, TrackContent
<1>5. Goes(h, q)
  <2>1. h = [k \in 0 .. n |-> h[k]] /\ h[0] = Before(q)
    BY <1>1
  <2>. HIDE DEF h
  <2>2. QED
    BY <1>4, <2>1 DEF Goes
<1>6. TrackAll(q) = h[n]
  <2>. HIDE DEF h
  <2>1. QED
    BY <1>1, <1>5, Tracked
<1>7. h[n] = IF n = 0 THEN Before(q) ELSE Doubted(loop)
  BY <1>1
<1>8. n = 0 => q = <<>>
  OBVIOUS
<1>. HIDE DEF h
<1>9. QED
  BY <1>2, <1>6, <1>7, <1>8

\* Contents do so before the last event of a record; alone, the last event has its say.
LEMMA TrackLast ==
  ASSUME loop \in LoopType, NEW q \in Seq(Contents), NEW e
  PROVE  TrackAll(q \o <<e>>) = Track(IF q = <<>> THEN loop ELSE Doubted(loop), e)
<1> DEFINE n == Len(q)
           events == q \o <<e>>
           l == IF q = <<>> THEN loop ELSE Doubted(loop)
           h == [k \in 0 .. n + 1 |-> IF k = n + 1 THEN Track(l, e) ELSE IF k = 0 THEN loop ELSE Doubted(loop)]
<1>1. n \in Nat /\ \A k \in 1 .. n : q[k] \in Contents
  OBVIOUS
<1>2. /\ events # <<>> /\ Len(events) = n + 1
      /\ events[n + 1] = e /\ \A k \in 1 .. n : events[k] = q[k]
  <2>1. q \in Seq(Contents \cup {e}) /\ <<e>> \in Seq(Contents \cup {e}) /\ Len(<<e>>) = 1 /\ <<e>>[1] = e
    OBVIOUS
  <2>2. Len(events) = n + 1 /\ \A k \in 1 .. n + 1 : events[k] = IF k <= n THEN q[k] ELSE <<e>>[k - n]
    BY <2>1, ConcatProperties
  <2>3. n + 1 \in 1 .. n + 1 /\ ~(n + 1 <= n) /\ (n + 1) - n = 1 /\ \A k \in 1 .. n : k \in 1 .. n + 1 /\ k <= n
    BY <1>1
  <2>. HIDE DEF events
  <2>4. events[n + 1] = e
    BY <2>1, <2>2, <2>3
  <2>5. \A k \in 1 .. n : events[k] = q[k]
    BY <2>2, <2>3
  <2>6. events # <<>>
    BY <1>1, <2>2
  <2>7. QED
    BY <2>2, <2>4, <2>5, <2>6
<1>. HIDE DEF events
<1>3. Before(events) = loop
  BY <1>2 DEF Before, LoopType
<1>4. h[0] = loop /\ h[n + 1] = Track(l, e) /\ \A k \in 1 .. n : h[k] = Doubted(loop)
  BY <1>1
<1>5. h[n] = l
  <2>1. n = 0 <=> q = <<>>
    OBVIOUS
  <2>2. n # 0 => n \in 1 .. n
    BY <1>1
  <2>. HIDE DEF h
  <2>3. QED
    BY <1>4, <2>1, <2>2
<1>6. h = [k \in 0 .. n + 1 |-> h[k]]
  OBVIOUS
<1>. HIDE DEF h
<1>7. ASSUME NEW k \in 1 .. n + 1 PROVE h[k] = Track(h[k - 1], events[k])
  <2>1. CASE k = n + 1
    <3>1. k - 1 = n
      BY <1>1, <2>1
    <3>2. QED
      BY <1>2, <1>4, <1>5, <2>1, <3>1
  <2>2. CASE k # n + 1
    <3>1. k \in 1 .. n /\ (k - 1 = 0 \/ k - 1 \in 1 .. n)
      BY <1>1, <2>2
    <3>2. h[k - 1] \in {loop, Doubted(loop)} /\ h[k] = Doubted(loop) /\ events[k] \in Contents
      BY <1>1, <1>2, <1>4, <3>1
    <3>3. QED
      BY <3>2, TrackContent
  <2>3. QED
    BY <2>1, <2>2
<1>8. Goes(h, events)
  BY <1>2, <1>3, <1>4, <1>6, <1>7 DEF Goes
<1>9. TrackAll(events) = h[n + 1]
  <2>1. Len(events) \in Nat
    BY <1>1, <1>2
  <2>2. QED
    BY <1>2, <1>8, <2>1, Tracked
<1>10. QED
  BY <1>4, <1>9 DEF events

Grows(s) == s.made.tokens > made.tokens

\* What is said leaves the judgement to Judged, and takes no token back.
SaidOK(s) == /\ s.made \in MadeType /\ s.made.tokens >= made.tokens
             /\ s.made.flawless = made.flawless /\ s.made.finished = made.finished /\ s.made.told = made.told

\* A record of consistent reports, without one that cannot be, or a final one that is not complete.
Plausible(s) == /\ Consistent
                /\ ~(channel = "anthropic" /\ s.record.usage \in AnthropicImpossible)
                /\ s.final # None => Complete(s.final)

\* Heartbeats, and the end of a stream.
Heartbeats == {"comment", "ping"}
Ends == {"done", "message_stop"}

\* The last event of a record, after the contents q.
EndsWith(s, q, e) ==
  /\ e.final = (s.final # None)
  /\ e.usage # None => /\ Sound(e.usage) /\ (e.usage.output # None => e.usage.output >= 0)
                       /\ Plausible(s) => Honest(e.usage)
  /\ e.final => /\ e.type = "message_delta" /\ e.usage # None
                /\ Spoiled(e.usage) \/ TrueAt(e.usage, s.made.tokens)
                /\ Plausible(s) => e.usage.input = Prompt - CachedTold /\ e.usage.output = s.made.tokens
  /\ e.type = "error" => s.record.type = "error"
  /\ e.type = "message_stop" <=> s.record.type \in Ends
  /\ s.record.type \in Heartbeats => e.type = "ping"
  /\ Grows(s) => q # <<>>
  /\ Closed(dec) /\ ~Grows(s) => q = <<>>

OnlyContents(s, events) ==
  events \in Seq(Contents) /\ s.final = None /\ s.record.type \notin Heartbeats \cup Ends

ContentsThen(s, events) ==
  \E q \in Seq(Contents) : \E e : events = q \o <<e>> /\ EndsWith(s, q, e)

\* What is kept of the provider's history after a record.
LEMMA JudgedIs ==
  ASSUME NEW s, SaidOK(s)
  PROVE  LET m == Judged(s) IN
         /\ m \in MadeType /\ m.tokens = s.made.tokens
         /\ m.told = (made.told \/ s.final # None)
         /\ made.finished => m.finished
         /\ m.flawless =>
              /\ made.flawless /\ (Consistent => Plausible(s)) /\ s.record.type \notin {"garbage", "error"}
              /\ made.finished => ~Grows(s)
              /\ made.told => s.record.type \in Heartbeats \cup Ends \/ s.final # None
              /\ s.final # None => m.finished
              /\ s.record.type \in Ends => made.told
BY DEF Judged, SaidOK, MadeType, Plausible, Grows, Heartbeats, Ends

\* What one event does to the locals, one by one.
LEMMA TrackFields ==
  ASSUME NEW l \in LoopType, NEW e
  PROVE  LET t == Track(l, e) IN
         /\ t.usage = accumulateUsage(l.usage, e)
         /\ t.finalUsage = IF e.final THEN accumulateUsage(l.finalUsage, e) ELSE l.finalUsage
         /\ t.finalUsageSeen = (l.finalUsageSeen \/ e.final)
         /\ t.finalUsageInvalidated = (l.finalUsageInvalidated \/ (l.finalUsageSeen /\ ~allowedAfterFinalUsage(e)))
         /\ t.protocolCompleted = (l.protocolCompleted \/ e.type = "message_stop")
         /\ t.committed = l.committed
         /\ t = [usage |-> t.usage, finalUsage |-> t.finalUsage, finalUsageSeen |-> t.finalUsageSeen,
                 finalUsageInvalidated |-> t.finalUsageInvalidated, protocolCompleted |-> t.protocolCompleted,
                 committed |-> t.committed]
<1> DEFINE t == Track(l, e)
           U == accumulateUsage(l.usage, e)
           F == IF e.final THEN accumulateUsage(l.finalUsage, e) ELSE l.finalUsage
           seen == l.finalUsageSeen \/ e.final
           inv  == l.finalUsageInvalidated \/ (l.finalUsageSeen /\ ~allowedAfterFinalUsage(e))
           done == l.protocolCompleted \/ e.type = "message_stop"
<1>1. t = [l EXCEPT !.finalUsageInvalidated = inv, !.usage = U, !.finalUsageSeen = seen, !.finalUsage = F,
                    !.protocolCompleted = done]
  BY DEF Track, LoopType
<1>. HIDE DEF U, F, seen, inv, done, t
<1>2. t = [usage |-> U, finalUsage |-> F, finalUsageSeen |-> seen, finalUsageInvalidated |-> inv,
           protocolCompleted |-> done, committed |-> l.committed]
  BY <1>1 DEF LoopType
<1>3. /\ t.usage = U /\ t.finalUsage = F /\ t.finalUsageSeen = seen /\ t.finalUsageInvalidated = inv
      /\ t.protocolCompleted = done /\ t.committed = l.committed
  BY <1>2
<1>4. QED
  BY <1>2, <1>3 DEF U, F, seen, inv, done, t

\* Doubt changes nothing else.
LEMMA DoubtedFields ==
  ASSUME NEW l \in LoopType
  PROVE  LET t == Doubted(l) IN
         /\ t \in LoopType
         /\ t.usage = l.usage /\ t.finalUsage = l.finalUsage /\ t.finalUsageSeen = l.finalUsageSeen
         /\ t.finalUsageInvalidated = (l.finalUsageInvalidated \/ l.finalUsageSeen)
         /\ t.protocolCompleted = l.protocolCompleted /\ t.committed = l.committed
BY DEF Doubted, LoopType

\* A record of nothing but contents.
LEMMA ContentsKeep ==
  ASSUME NEW s, SaidOK(s), loop \in LoopType, made \in MadeType, ~loop.protocolCompleted,
         NumbersInv(loop, made), FlawlessInv(loop, made),
         NEW events, OnlyContents(s, events)
  PROVE  LET l == TrackAll(events) IN
         /\ l \in LoopType /\ ~l.protocolCompleted
         /\ NumbersInv(l, Judged(s)) /\ FlawlessInv(l, Judged(s))
<1> DEFINE l == TrackAll(events)
           m == Judged(s)
<1>1. l = Doubted(loop)
  BY TrackContents DEF OnlyContents
<1>. HIDE DEF l, m
<1>2. /\ l \in LoopType
      /\ l.usage = loop.usage /\ l.finalUsage = loop.finalUsage /\ l.finalUsageSeen = loop.finalUsageSeen
      /\ l.finalUsageInvalidated = (loop.finalUsageInvalidated \/ loop.finalUsageSeen)
      /\ l.protocolCompleted = loop.protocolCompleted
  BY <1>1, DoubtedFields
<1>3. /\ m.told = made.told
      /\ m.flawless => made.flawless /\ ~made.told
  BY JudgedIs DEF m, OnlyContents, SaidOK, MadeType
<1>4. NumbersInv(l, m)
  BY <1>2, <1>3 DEF NumbersInv, LoopType
<1>5. FlawlessInv(l, m)
  BY <1>2, <1>3 DEF FlawlessInv
<1>6. QED
  BY <1>2, <1>4, <1>5 DEF l, m

\* A record that ends with an event that may have numbers.
LEMMA LastKeeps ==
  ASSUME NEW s, SaidOK(s), loop \in LoopType, made \in MadeType, ~loop.protocolCompleted,
         NumbersInv(loop, made), FlawlessInv(loop, made), made.flawless /\ made.finished => Closed(dec),
         NEW q \in Seq(Contents), NEW e, EndsWith(s, q, e)
  PROVE  LET l == TrackAll(q \o <<e>>) IN
         /\ l \in LoopType /\ (l.protocolCompleted <=> e.type = "message_stop")
         /\ NumbersInv(l, Judged(s)) /\ FlawlessInv(l, Judged(s))
<1> DEFINE b == IF q = <<>> THEN loop ELSE Doubted(loop)
           l == TrackAll(q \o <<e>>)
           m == Judged(s)
           n == s.made.tokens
           V == loop.usage
           G == loop.finalUsage
           U == IF e.usage = None THEN V ELSE Accumulated(V, e.usage)
           F == IF e.final THEN Accumulated(G, e.usage) ELSE G
<1>0. None \notin UsageType
  BY RelayAssumption DEF UsageType
<1>1. l = Track(b, e)
  BY TrackLast
<1>2. /\ b \in LoopType /\ b.usage = V /\ b.finalUsage = G /\ b.finalUsageSeen = loop.finalUsageSeen
      /\ b.finalUsageInvalidated = (loop.finalUsageInvalidated \/ (loop.finalUsageSeen /\ q # <<>>))
      /\ ~b.protocolCompleted /\ b.committed = loop.committed
  BY DoubtedFields DEF LoopType
<1>3. /\ e.final \in BOOLEAN /\ (e.final => e.usage # None)
      /\ e.usage # None => e.usage \in UsageType
      /\ V \in UsageType /\ G \in UsageType
  BY DEF EndsWith, Sound, LoopType
<1>4. accumulateUsage(V, e) = U /\ U \in UsageType
  <2>1. CASE e.usage = None
    BY <1>3, <2>1 DEF accumulateUsage
  <2>2. CASE e.usage # None
    BY <1>3, <2>2, Accumulates
  <2>3. QED
    BY <2>1, <2>2
<1>5. (e.final => accumulateUsage(G, e) = F) /\ F \in UsageType
  BY <1>3, Accumulates
<1>. HIDE DEF b, l, m
<1>6. /\ l.usage = U /\ l.finalUsage = F /\ l.finalUsageSeen = (loop.finalUsageSeen \/ e.final)
      /\ l.finalUsageInvalidated = (b.finalUsageInvalidated
                                    \/ (loop.finalUsageSeen /\ ~allowedAfterFinalUsage(e)))
      /\ l.protocolCompleted = (e.type = "message_stop")
      /\ l \in LoopType
  <2>1. /\ l.usage = U /\ l.finalUsage = F /\ l.finalUsageSeen = (loop.finalUsageSeen \/ e.final)
        /\ l.finalUsageInvalidated = (b.finalUsageInvalidated
                                      \/ (loop.finalUsageSeen /\ ~allowedAfterFinalUsage(e)))
        /\ l.protocolCompleted = (b.protocolCompleted \/ e.type = "message_stop")
        /\ l.committed = b.committed
        /\ l = [usage |-> l.usage, finalUsage |-> l.finalUsage, finalUsageSeen |-> l.finalUsageSeen,
                finalUsageInvalidated |-> l.finalUsageInvalidated, protocolCompleted |-> l.protocolCompleted,
                committed |-> l.committed]
    <3>. HIDE DEF U, F
    <3>1. /\ l.usage = accumulateUsage(b.usage, e)
          /\ l.finalUsage = IF e.final THEN accumulateUsage(b.finalUsage, e) ELSE b.finalUsage
          /\ l.finalUsageSeen = (b.finalUsageSeen \/ e.final)
          /\ l.finalUsageInvalidated = (b.finalUsageInvalidated \/ (b.finalUsageSeen /\ ~allowedAfterFinalUsage(e)))
          /\ l.protocolCompleted = (b.protocolCompleted \/ e.type = "message_stop")
          /\ l.committed = b.committed
          /\ l = [usage |-> l.usage, finalUsage |-> l.finalUsage, finalUsageSeen |-> l.finalUsageSeen,
                  finalUsageInvalidated |-> l.finalUsageInvalidated, protocolCompleted |-> l.protocolCompleted,
                  committed |-> l.committed]
      BY <1>1, <1>2, TrackFields
    <3>2. ~e.final => F = G
      BY DEF F
    <3>3. QED
      BY <1>2, <1>4, <1>5, <3>1, <3>2
  <2>. HIDE DEF U, F
  <2>2. l \in LoopType
    BY <1>2, <1>3, <1>4, <1>5, <2>1 DEF LoopType
  <2>3. QED
    BY <1>2, <2>1, <2>2
<1>7. /\ m \in MadeType /\ m.tokens = n
      /\ m.told = (made.told \/ e.final)
      /\ made.finished => m.finished
      /\ m.flawless =>
           /\ made.flawless /\ (Consistent => Plausible(s))
           /\ made.finished => ~Grows(s)
           /\ made.told => s.record.type \in Heartbeats \cup Ends \/ e.final
           /\ e.final => m.finished
  BY JudgedIs DEF m, EndsWith
<1>8. /\ Sound(V) /\ Within(G, V) /\ (loop.finalUsageSeen <=> made.told)
      /\ ~loop.finalUsageSeen => G = NoUsage /\ ~loop.finalUsageInvalidated
      /\ loop.finalUsageSeen /\ ~loop.finalUsageInvalidated => Spoiled(V) \/ TrueAt(G, made.tokens)
  BY DEF NumbersInv
<1>9. /\ Sound(U) /\ Within(F, U)
      /\ Spoiled(V) => Spoiled(U)
      /\ e.usage # None /\ Spoiled(e.usage) => Spoiled(U)
      /\ Honest(V) /\ (e.usage # None => Honest(e.usage)) => Honest(U)
  <2>1. CASE e.usage = None
    BY <1>3, <1>8, <2>1
  <2>2. CASE e.usage # None
    <3>1. Sound(e.usage) /\ (e.usage.output # None => e.usage.output >= 0)
      BY <2>2 DEF EndsWith
    <3>2. /\ Sound(Accumulated(V, e.usage))
          /\ Spoiled(V) \/ Spoiled(e.usage) => Spoiled(Accumulated(V, e.usage))
          /\ Honest(V) /\ Honest(e.usage) => Honest(Accumulated(V, e.usage))
      BY <1>8, <3>1, MergeSound
    <3>3. Within(Accumulated(G, e.usage), Accumulated(V, e.usage)) /\ Within(G, Accumulated(V, e.usage))
      BY <1>8, <3>1, MergeWithin
    <3>4. QED
      BY <2>2, <3>2, <3>3
  <2>3. QED
    BY <2>1, <2>2
<1>10. e.final => allowedAfterFinalUsage(e)
  BY DEF EndsWith, allowedAfterFinalUsage
<1>11. ASSUME l.finalUsageSeen, ~l.finalUsageInvalidated, ~Spoiled(U)
       PROVE  TrueAt(F, n)
  <2>1. loop.finalUsageSeen => TrueAt(G, n)
    <3>1. ASSUME loop.finalUsageSeen PROVE n = made.tokens
      <4>1. q = <<>>
        BY <1>2, <1>6, <1>11, <3>1
      <4>2. ~Grows(s)
        BY <4>1 DEF EndsWith
      <4>3. QED
        BY <4>2 DEF Grows, SaidOK, MadeType
    <3>2. QED
      BY <1>2, <1>6, <1>8, <1>9, <1>11, <3>1
  <2>2. TrueAt(G, n)
    BY <1>8, <2>1 DEF TrueAt, NoUsage
  <2>3. CASE e.final
    <3>1. TrueAt(e.usage, n)
      BY <1>3, <1>9, <1>11, <2>3 DEF EndsWith
    <3>2. LargestKnown(G.output, e.usage.output) \in {G.output, e.usage.output}
          /\ LargestKnown(G.total, e.usage.total) \in {G.total, e.usage.total}
      BY DEF LargestKnown
    <3>3. F.output = LargestKnown(G.output, e.usage.output) /\ F.total = LargestKnown(G.total, e.usage.total)
      BY <2>3 DEF Accumulated
    <3>. HIDE DEF F
    <3>4. QED
      BY <2>2, <3>1, <3>2, <3>3 DEF TrueAt
  <2>4. QED
    BY <2>2, <2>3
<1>12. NumbersInv(l, m)
  <2>1. ~l.finalUsageSeen => F = G /\ ~l.finalUsageInvalidated
    BY <1>2, <1>6, <1>8
  <2>2. l.finalUsageSeen <=> m.told
    BY <1>6, <1>7, <1>8
  <2>. HIDE DEF U, F, n
  <2>3. QED
    BY <1>6, <1>7, <1>8, <1>9, <1>11, <2>1, <2>2 DEF NumbersInv
<1>13. FlawlessInv(l, m)
  <2>. SUFFICES ASSUME m.flawless, Consistent
                PROVE  /\ Honest(U)
                       /\ m.told => /\ m.finished /\ ~l.finalUsageInvalidated
                                    /\ F.input = Prompt - CachedTold /\ F.output = n
    <3>. HIDE DEF U, F, n
    <3>1. QED
      BY <1>6, <1>7 DEF FlawlessInv
  <2>1. made.flawless /\ Plausible(s)
    BY <1>7
  <2>2. Honest(U)
    <3>1. Honest(V)
      BY <2>1 DEF FlawlessInv
    <3>2. e.usage # None => Honest(e.usage)
      BY <2>1 DEF EndsWith
    <3>3. QED
      BY <1>9, <3>1, <3>2
  <2>3. e.final => e.usage.input = Prompt - CachedTold /\ e.usage.output = n
    BY <2>1 DEF EndsWith
  <2>4. CASE made.told
    <3>1. /\ made.finished /\ ~loop.finalUsageInvalidated
          /\ G.input = Prompt - CachedTold /\ G.output = made.tokens
      BY <2>1, <2>4 DEF FlawlessInv
    <3>2. ~Grows(s) /\ Closed(dec)
      BY <1>7, <2>1, <3>1
    <3>3. q = <<>> /\ n = made.tokens
      BY <3>2 DEF EndsWith, Grows, SaidOK, MadeType
    <3>4. allowedAfterFinalUsage(e)
      BY <1>7, <1>10, <2>4 DEF EndsWith, allowedAfterFinalUsage
    <3>5. ~l.finalUsageInvalidated /\ m.finished
      BY <1>2, <1>6, <1>7, <3>1, <3>3, <3>4
    <3>6. F.input = Prompt - CachedTold /\ F.output = n
      <4>1. CASE e.final
        <5>1. F.input = LargestKnown(G.input, e.usage.input) /\ F.output = LargestKnown(G.output, e.usage.output)
          BY <4>1 DEF Accumulated
        <5>2. \A x : LargestKnown(x, x) = x
          BY DEF LargestKnown
        <5>. HIDE DEF F
        <5>3. QED
          BY <2>3, <3>1, <3>3, <4>1, <5>1, <5>2
      <4>2. CASE ~e.final
        BY <3>1, <3>3, <4>2
      <4>3. QED
        BY <4>1, <4>2, <1>3
    <3>7. QED
      BY <2>2, <3>5, <3>6
  <2>5. CASE ~made.told
    <3>1. G = NoUsage /\ ~loop.finalUsageSeen /\ ~loop.finalUsageInvalidated
      BY <1>8, <2>5
    <3>2. ~l.finalUsageInvalidated
      BY <1>2, <1>6, <3>1
    <3>3. ASSUME m.told PROVE e.final /\ m.finished /\ F.input = Prompt - CachedTold /\ F.output = n
      <4>1. e.final /\ m.finished
        BY <1>7, <2>5, <3>3
      <4>2. F.input = LargestKnown(None, e.usage.input) /\ F.output = LargestKnown(None, e.usage.output)
        BY <3>1, <4>1 DEF Accumulated, NoUsage
      <4>3. \A x : LargestKnown(None, x) = x
        BY DEF LargestKnown
      <4>. HIDE DEF F
      <4>4. QED
        BY <2>3, <4>1, <4>2, <4>3
    <3>4. QED
      BY <2>2, <3>2, <3>3
  <2>6. QED
    BY <2>4, <2>5
<1>14. QED
  BY <1>6, <1>12, <1>13 DEF l, m

-----------------------------------------------------------------------------
(* The end.                                                                *)

\* Whatever is settled exactly of consistent reports is settled at the true counts (usageReadyForExactSettlement,
\* usageWithFinalAuthority).
LEMMA ExactSettlement ==
  ASSUME NEW l \in LoopType, NEW m \in MadeType, NumbersInv(l, m), Consistent,
         l.finalUsageSeen, ~l.finalUsageInvalidated,
         usageReadyForExactSettlement(usageWithFinalAuthority(l.usage, l.finalUsage))
  PROVE  LET u == usageWithFinalAuthority(l.usage, l.finalUsage) IN
         /\ ChargedInput(u) + u.creation + u.read = Prompt
         /\ ChargedOutput(u) = m.tokens
<1> DEFINE U == l.usage
           F == l.finalUsage
           u == usageWithFinalAuthority(U, F)
<1>1. /\ U \in UsageType /\ F \in UsageType /\ Sound(U) /\ Within(F, U) /\ m.tokens \in Nat
      /\ Spoiled(U) \/ TrueAt(F, m.tokens)
  BY RelayAssumption DEF NumbersInv, Sound, Within, MadeType
<1>2. /\ u \in UsageType
      /\ u.input = IF F.input = None THEN U.input ELSE F.input
      /\ u.output = F.output /\ u.total = F.total /\ u.creation = U.creation /\ u.read = U.read
  BY <1>1 DEF usageWithFinalAuthority, UsageType
<1>. HIDE DEF u
<1>3. /\ u.input # None \/ u.output # None
      /\ u.creation >= 0 /\ u.read >= 0 /\ Known(u.input) >= 0 /\ Known(u.output) >= 0
      /\ Known(u.input) + Known(u.output) + u.creation + u.read <= MaxInt
      /\ u.total = None => u.input # None /\ u.output # None
      /\ u.total # None /\ u.input # None /\ u.output # None =>
           u.input + u.output + u.creation + u.read = u.total
  BY <1>2, ReadyIs DEF u
<1>4. /\ U.input \in Counts /\ U.creation \in Int /\ U.read \in Int
      /\ F.input \in Counts /\ F.output \in Counts /\ F.total \in Counts
  BY <1>1 DEF UsageType
<1>5. ~Spoiled(U)
  <2>1. SUFFICES ASSUME U.creation = MaxInt, U.input # None, U.input >= 1 PROVE FALSE
    BY <1>2, <1>3, <1>4 DEF Spoiled
  <2>2. u.input # None /\ u.input \in Int /\ u.input + u.read >= 1 /\ Known(u.input) = u.input
    BY <1>1, <1>2, <1>3, <1>4, <2>1 DEF Within, Known, Counts
  <2>3. Known(u.output) \in Int
    BY <1>2, <1>4 DEF Known, Counts
  <2>4. QED
    BY <1>2, <1>3, <1>4, <2>1, <2>2, <2>3, CachedIs
<1>6. Honest(U) /\ TrueAt(F, m.tokens)
  BY <1>1, <1>5 DEF Sound
<1>7. /\ u.creation = 0 /\ u.read \in Int /\ u.input \in {None, Prompt - CachedTold}
      /\ u.output \in {None, m.tokens} /\ u.total \in {None, Prompt + m.tokens}
      /\ u.input # None => u.read = CachedTold
  BY <1>1, <1>2, <1>4, <1>6 DEF Honest, TrueAt, Within
<1>8. ChargedInput(u) + u.creation + u.read = Prompt
  <2>1. CASE u.input # None
    BY <1>7, <2>1, CachedIs DEF ChargedInput
  <2>2. CASE u.input = None
    BY <1>1, <1>3, <1>7, <2>2, CachedIs DEF ChargedInput
  <2>3. QED
    BY <2>1, <2>2
<1>9. ChargedOutput(u) = m.tokens
  <2>1. CASE u.output # None
    BY <1>7, <2>1 DEF ChargedOutput
  <2>2. CASE u.output = None
    BY <1>1, <1>3, <1>7, <2>2, CachedIs DEF ChargedOutput
  <2>3. QED
    BY <2>1, <2>2
<1>10. QED
  BY <1>8, <1>9 DEF u

\* A flawless stream of consistent reports that has told its numbers is settled.
LEMMA FlawlessSettles ==
  ASSUME NEW l \in LoopType, NEW m \in MadeType, NumbersInv(l, m), FlawlessInv(l, m), m.flawless, m.told, Consistent
  PROVE  /\ l.finalUsageSeen /\ ~l.finalUsageInvalidated
         /\ usageReadyForExactSettlement(usageWithFinalAuthority(l.usage, l.finalUsage))
<1> DEFINE U == l.usage
           F == l.finalUsage
           u == usageWithFinalAuthority(U, F)
<1>1. /\ U \in UsageType /\ F \in UsageType /\ Within(F, U)
      /\ Spoiled(U) \/ TrueAt(F, m.tokens)
      /\ l.finalUsageSeen /\ ~l.finalUsageInvalidated
      /\ Honest(U) /\ F.input = Prompt - CachedTold /\ F.output = m.tokens
  BY DEF NumbersInv, FlawlessInv, Sound, Within
<1>2. m.tokens \in 0 .. MaxTokens /\ MaxTokens \in Nat /\ Prompt + MaxTokens <= MaxInt /\ MaxInt \in Nat
  BY RelayAssumption DEF MadeType
<1>3. /\ u \in UsageType
      /\ u.input = IF F.input = None THEN U.input ELSE F.input
      /\ u.output = F.output /\ u.total = F.total /\ u.creation = U.creation /\ u.read = U.read
  BY <1>1 DEF usageWithFinalAuthority, UsageType
<1>. HIDE DEF u
<1>4. ~Spoiled(U)
  BY <1>1, CachedIs DEF Honest, Spoiled
<1>5. Prompt - CachedTold # None /\ m.tokens # None
  BY <1>2, CachedIs
<1>6. /\ u.input = Prompt - CachedTold /\ u.output = m.tokens /\ u.creation = 0 /\ u.read = CachedTold
      /\ u.total \in {None, Prompt + m.tokens}
  BY <1>1, <1>3, <1>4, <1>5 DEF Honest, TrueAt, Within
<1>7. u.input + u.output + u.creation + u.read = Prompt + m.tokens /\ Prompt + m.tokens <= MaxInt
  BY <1>2, <1>6, CachedIs
<1>8. usageReadyForExactSettlement(u)
  BY <1>2, <1>3, <1>5, <1>6, <1>7, CachedIs, ReadyIf
<1>9. QED
  BY <1>1, <1>8 DEF u

\* What the decoder is about: its state, and the events it has decoded of a record.
StateOK(s) == s \in [dec : {s.dec}, events : Seq(Contents), failed : {FALSE}] /\ DecOK(s.dec)

ToolsOK(f) == DOMAIN f \subseteq {0, 1} /\ f \in [DOMAIN f -> Nat]

\* The decoder's state, part by part,
LEMMA DecFields ==
  ASSUME NEW d, DecOK(d)
  PROVE  /\ d \in [started : BOOLEAN, next : Nat, textOpen : BOOLEAN, textBlock : Nat, tools : {d.tools}]
         /\ d.started \in BOOLEAN /\ d.next \in Nat /\ d.textOpen \in BOOLEAN /\ d.textBlock \in Nat
         /\ ToolsOK(d.tools)
BY DEF DecOK, ToolsOK

\* and put together.
LEMMA DecMade ==
  ASSUME NEW a \in BOOLEAN, NEW n \in Nat, NEW t \in BOOLEAN, NEW b \in Nat, NEW f, ToolsOK(f)
  PROVE  DecOK([started |-> a, next |-> n, textOpen |-> t, textBlock |-> b, tools |-> f])
BY DEF DecOK, ToolsOK

\* The events of content that the decoder makes are contents.
LEMMA ContentsMade ==
  ASSUME NEW b \in Int, NEW k \in Kinds
  PROVE  /\ OpenAI!BlockStop(b) \in Contents /\ OpenAI!BlockStart(b, k) \in Contents
         /\ OpenAI!BlockDelta(b, k) \in Contents /\ OpenAI!Event("message_start") \in Contents
BY DEF Contents, Counts, Kinds, OpenAI!BlockStop, OpenAI!BlockStart, OpenAI!BlockDelta, OpenAI!Event

\* A step of the decoder: its new state, and its events behind the others.
LEMMA ThenIs ==
  ASSUME NEW s, StateOK(s), NEW d, DecOK(d), NEW evs \in Seq(Contents)
  PROVE  LET t == OpenAI!Then([s EXCEPT !.dec = d], evs) IN
         /\ StateOK(t) /\ t.dec = d /\ t.events = s.events \o evs
         /\ t.events = <<>> => s.events = <<>> /\ evs = <<>>
         /\ evs = <<>> => t.events = s.events
<1> DEFINE t == OpenAI!Then([s EXCEPT !.dec = d], evs)
<1>1. s.events \in Seq(Contents) /\ s \in [dec : {s.dec}, events : Seq(Contents), failed : {FALSE}]
  BY DEF StateOK
<1>2. s.events \o evs \in Seq(Contents)
  BY <1>1, ConcatProperties
<1>3. t = [dec |-> d, events |-> s.events \o evs, failed |-> FALSE]
  <2>1. PICK u : u = [s EXCEPT !.dec = d]
    OBVIOUS
  <2>2. u = [dec |-> d, events |-> s.events, failed |-> FALSE]
    BY <1>1, <2>1
  <2>3. t = [u EXCEPT !.events = @ \o evs]
    BY <2>1 DEF OpenAI!Then
  <2>. HIDE DEF t
  <2>4. t = [dec |-> d, events |-> u.events \o evs, failed |-> FALSE]
    BY <2>2, <2>3
  <2>5. QED
    BY <2>2, <2>4
<1>. HIDE DEF t
<1>4. t.dec = d /\ t.events = s.events \o evs /\ t \in [dec : {t.dec}, events : Seq(Contents), failed : {FALSE}]
  BY <1>2, <1>3
<1>5. StateOK(t)
  BY <1>2, <1>4 DEF StateOK
<1>6. (s.events \o evs = <<>> => s.events = <<>> /\ evs = <<>>) /\ (evs = <<>> => s.events \o evs = s.events)
  BY <1>1, ConcatEmptySeq, ConcatEqualIffEmpty
<1>7. QED
  BY <1>4, <1>5, <1>6 DEF t

\* The message is started once,
LEMMA messageStartIs ==
  ASSUME NEW s, StateOK(s)
  PROVE  LET t == OpenAI!messageStart(s) IN
         /\ StateOK(t) /\ t.dec.started
         /\ s.dec.started => t = s
<1> DEFINE d == [s.dec EXCEPT !.started = TRUE]
           evs == <<OpenAI!Event("message_start")>>
           t == OpenAI!messageStart(s)
<1>1. CASE s.dec.started
  BY <1>1 DEF OpenAI!messageStart
<1>2. CASE ~s.dec.started
  <2>0. DecOK(s.dec)
    BY DEF StateOK
  <2>1. DecOK(d) /\ d.started
    <3>0. d = [s.dec EXCEPT !.started = TRUE]
      OBVIOUS
    <3>. HIDE DEF d
    <3>1. d = [started |-> TRUE, next |-> s.dec.next, textOpen |-> s.dec.textOpen, textBlock |-> s.dec.textBlock,
               tools |-> s.dec.tools]
      BY <2>0, <3>0, DecFields
    <3>2. QED
      BY <2>0, <3>1, DecFields, DecMade
  <2>2. evs \in Seq(Contents)
    <3>1. OpenAI!Event("message_start") \in Contents
      <4>1. 0 \in Int /\ "text" \in Kinds
        BY DEF Kinds
      <4>2. QED
        BY <4>1, ContentsMade
    <3>2. QED
      BY <3>1
  <2>3. t = OpenAI!Then([s EXCEPT !.dec = d], evs)
    BY <1>2 DEF OpenAI!messageStart, StateOK
  <2>. HIDE DEF t, d, evs
  <2>4. StateOK(t) /\ t.dec = d
    BY <2>1, <2>2, <2>3, ThenIs
  <2>5. QED
    BY <1>2, <2>1, <2>4 DEF t
<1>3. QED
  BY <1>1, <1>2

\* the text block is closed if it is open,
LEMMA closeTextBlockIs ==
  ASSUME NEW s, StateOK(s)
  PROVE  LET t == OpenAI!closeTextBlock(s) IN
         /\ StateOK(t) /\ ~t.dec.textOpen /\ t.dec.started = s.dec.started /\ t.dec.tools = s.dec.tools
         /\ ~s.dec.textOpen => t.events = s.events
         /\ t.events = <<>> => s.events = <<>>
<1> DEFINE d == [s.dec EXCEPT !.textOpen = FALSE]
           evs == <<OpenAI!BlockStop(s.dec.textBlock)>>
           t == OpenAI!closeTextBlock(s)
<1>1. CASE ~s.dec.textOpen
  BY <1>1 DEF OpenAI!closeTextBlock
<1>2. CASE s.dec.textOpen
  <2>0. DecOK(s.dec)
    BY DEF StateOK
  <2>1. DecOK(d) /\ ~d.textOpen /\ d.started = s.dec.started /\ d.tools = s.dec.tools
    <3>0. d = [s.dec EXCEPT !.textOpen = FALSE]
      OBVIOUS
    <3>. HIDE DEF d
    <3>1. d = [started |-> s.dec.started, next |-> s.dec.next, textOpen |-> FALSE,
               textBlock |-> s.dec.textBlock, tools |-> s.dec.tools]
      BY <2>0, <3>0, DecFields
    <3>2. QED
      BY <2>0, <3>1, DecFields, DecMade
  <2>2. evs \in Seq(Contents)
    <3>1. s.dec.textBlock \in Int /\ "text" \in Kinds
      BY <2>0, DecFields DEF Kinds
    <3>2. OpenAI!BlockStop(s.dec.textBlock) \in Contents
      BY <3>1, ContentsMade
    <3>3. QED
      BY <3>2
  <2>3. t = OpenAI!Then([s EXCEPT !.dec = d], evs)
    BY <1>2 DEF OpenAI!closeTextBlock, StateOK
  <2>. HIDE DEF t, d, evs
  <2>4. StateOK(t) /\ t.dec = d /\ (t.events = <<>> => s.events = <<>>)
    BY <2>1, <2>2, <2>3, ThenIs
  <2>5. QED
    BY <1>2, <2>1, <2>4 DEF t
<1>3. QED
  BY <1>1, <1>2

\* a text delta opens it if it is not,
LEMMA textDeltaIs ==
  ASSUME NEW s, StateOK(s)
  PROVE  LET t == OpenAI!textDelta(s) IN
         StateOK(t) /\ t.dec.started = s.dec.started /\ t.events # <<>>
<1> DEFINE d == [s.dec EXCEPT !.textOpen = TRUE, !.textBlock = s.dec.next, !.next = @ + 1]
           evs == <<OpenAI!BlockStart(s.dec.next, "text")>>
           u == IF s.dec.textOpen THEN s ELSE OpenAI!Then([s EXCEPT !.dec = d], evs)
           last == <<OpenAI!BlockDelta(u.dec.textBlock, "text")>>
           t == OpenAI!textDelta(s)
<1>0. DecOK(s.dec) /\ "text" \in Kinds
  BY DEF StateOK, Kinds
<1>1. DecOK(d) /\ d.started = s.dec.started
  <2>1. s.dec.next \in Nat /\ s.dec.next + 1 \in Nat
    BY <1>0, DecFields
  <2>0. d = [s.dec EXCEPT !.textOpen = TRUE, !.textBlock = s.dec.next, !.next = s.dec.next + 1]
    OBVIOUS
  <2>. HIDE DEF d
  <2>2. d = [started |-> s.dec.started, next |-> s.dec.next + 1, textOpen |-> TRUE, textBlock |-> s.dec.next,
             tools |-> s.dec.tools]
    <3>1. s.dec \in [started : BOOLEAN, next : Nat, textOpen : BOOLEAN, textBlock : Nat, tools : {s.dec.tools}]
      BY <1>0, DecFields
    <3>2. PICK n : n = s.dec.next + 1
      OBVIOUS
    <3>3. d = [s.dec EXCEPT !.textOpen = TRUE, !.textBlock = s.dec.next, !.next = n]
      BY <2>0, <3>2
    <3>4. d = [started |-> s.dec.started, next |-> n, textOpen |-> TRUE, textBlock |-> s.dec.next,
               tools |-> s.dec.tools]
      BY <3>1, <3>3
    <3>5. QED
      BY <3>2, <3>4
  <2>3. QED
    BY <1>0, <2>1, <2>2, DecFields, DecMade
<1>2. evs \in Seq(Contents)
  <2>1. s.dec.next \in Int
    BY <1>0, DecFields
  <2>2. OpenAI!BlockStart(s.dec.next, "text") \in Contents
    BY <1>0, <2>1, ContentsMade
  <2>3. QED
    BY <2>2
<1>3. t = OpenAI!Then(u, last)
  BY DEF OpenAI!textDelta, StateOK
<1>. HIDE DEF d, evs, t
<1>4. StateOK(u) /\ u.dec.started = s.dec.started
  BY <1>1, <1>2, ThenIs
<1>. HIDE DEF u
<1>5. last \in Seq(Contents) /\ last # <<>>
  <2>1. u.dec.textBlock \in Int
    BY <1>4, DecFields DEF StateOK
  <2>2. OpenAI!BlockDelta(u.dec.textBlock, "text") \in Contents
    BY <1>0, <2>1, ContentsMade
  <2>3. QED
    BY <2>2
<1>6. t = OpenAI!Then([u EXCEPT !.dec = u.dec], last)
  <2>1. [u EXCEPT !.dec = u.dec] = u
    BY <1>4 DEF StateOK
  <2>2. QED
    BY <1>3, <2>1
<1>. HIDE DEF last
<1>7. StateOK(t) /\ t.dec = u.dec /\ t.events # <<>>
  <2>1. DecOK(u.dec)
    BY <1>4 DEF StateOK
  <2>2. QED
    BY <1>4, <1>5, <1>6, <2>1, ThenIs
<1>8. QED
  BY <1>4, <1>7 DEF t

\* and a call has its block before its arguments.
LEMMA openToolIs ==
  ASSUME NEW s, StateOK(s), NEW index \in {0, 1}
  PROVE  LET t == OpenAI!openTool(s, index) IN
         /\ StateOK(t) /\ t.dec.started = s.dec.started /\ index \in DOMAIN t.dec.tools
<1> DEFINE c == OpenAI!closeTextBlock(s)
           f == [i \in DOMAIN c.dec.tools \cup {index} |-> IF i = index THEN c.dec.next ELSE c.dec.tools[i]]
           d == [c.dec EXCEPT !.next = @ + 1, !.tools = f]
           evs == <<OpenAI!BlockStart(c.dec.next, "tool_use")>>
           t == OpenAI!openTool(s, index)
<1>1. t = OpenAI!Then([c EXCEPT !.dec = d], evs)
  <2>1. StateOK(c)
    BY closeTextBlockIs
  <2>. HIDE DEF c
  <2>2. [c EXCEPT !.dec = d] = [c EXCEPT !.dec.next = @ + 1, !.dec.tools =
            [i \in DOMAIN @ \cup {index} |-> IF i = index THEN c.dec.next ELSE @[i]]]
    BY <2>1, DecFields DEF StateOK
  <2>3. QED
    BY <2>2 DEF OpenAI!openTool, c
<1>2. StateOK(c) /\ c.dec.started = s.dec.started
  BY closeTextBlockIs
<1>. HIDE DEF c
<1>3. c.dec.next \in Nat /\ c.dec.next + 1 \in Nat /\ ToolsOK(c.dec.tools) /\ DecOK(c.dec)
  BY <1>2, DecFields DEF StateOK
<1>4. ToolsOK(f) /\ index \in DOMAIN f
  BY <1>3 DEF ToolsOK
<1>. HIDE DEF f
<1>5. DecOK(d) /\ d.started = c.dec.started /\ d.tools = f
  <2>0. d = [c.dec EXCEPT !.next = c.dec.next + 1, !.tools = f]
    OBVIOUS
  <2>. HIDE DEF d
  <2>1. d = [started |-> c.dec.started, next |-> c.dec.next + 1, textOpen |-> c.dec.textOpen,
             textBlock |-> c.dec.textBlock, tools |-> f]
    <3>1. c.dec \in [started : BOOLEAN, next : Nat, textOpen : BOOLEAN, textBlock : Nat, tools : {c.dec.tools}]
      BY <1>3, DecFields
    <3>2. PICK n : n = c.dec.next + 1
      OBVIOUS
    <3>3. d = [c.dec EXCEPT !.next = n, !.tools = f]
      BY <2>0, <3>2
    <3>4. d = [started |-> c.dec.started, next |-> n, textOpen |-> c.dec.textOpen,
               textBlock |-> c.dec.textBlock, tools |-> f]
      BY <3>1, <3>3
    <3>5. QED
      BY <3>2, <3>4
  <2>2. QED
    BY <1>3, <1>4, <2>1, DecFields, DecMade
<1>6. evs \in Seq(Contents)
  <2>1. OpenAI!BlockStart(c.dec.next, "tool_use") \in Contents
    BY <1>3, ContentsMade DEF Kinds
  <2>2. QED
    BY <2>1
<1>. HIDE DEF d, evs, t
<1>7. StateOK(t) /\ t.dec = d
  BY <1>1, <1>2, <1>5, <1>6, ThenIs
<1>8. QED
  BY <1>2, <1>4, <1>5, <1>7 DEF t

\* A call of a chunk is known from then on.
LEMMA handleToolCallDeltaIs ==
  ASSUME NEW s, StateOK(s), NEW tc, tc.index \in {0, 1}
  PROVE  LET t == OpenAI!handleToolCallDelta(s, tc) IN
         /\ StateOK(t) /\ t.dec.started = s.dec.started /\ DOMAIN t.dec.tools # {}
<1> DEFINE u == IF tc.index \in DOMAIN s.dec.tools THEN s ELSE OpenAI!openTool(s, tc.index)
           last == <<OpenAI!BlockDelta(u.dec.tools[tc.index], "tool_use")>>
           t == OpenAI!handleToolCallDelta(s, tc)
<1>1. t = IF tc.args THEN OpenAI!Then(u, last) ELSE u
  BY DEF OpenAI!handleToolCallDelta
<1>. HIDE DEF t
<1>2. StateOK(u) /\ u.dec.started = s.dec.started /\ tc.index \in DOMAIN u.dec.tools
  BY openToolIs
<1>. HIDE DEF u
<1>3. CASE tc.args
  <2>1. DecOK(u.dec) /\ u.dec.tools[tc.index] \in Int
    BY <1>2, DecFields DEF StateOK, ToolsOK
  <2>2. last \in Seq(Contents)
    <3>1. OpenAI!BlockDelta(u.dec.tools[tc.index], "tool_use") \in Contents
      BY <2>1, ContentsMade DEF Kinds
    <3>2. QED
      BY <3>1
  <2>3. [u EXCEPT !.dec = u.dec] = u
    BY <1>2 DEF StateOK
  <2>. HIDE DEF last
  <2>4. t = OpenAI!Then([u EXCEPT !.dec = u.dec], last)
    BY <1>1, <1>3, <2>3
  <2>5. StateOK(t) /\ t.dec = u.dec
    BY <1>2, <2>1, <2>2, <2>4, ThenIs
  <2>6. QED
    BY <1>2, <2>5 DEF t
<1>4. CASE ~tc.args
  BY <1>1, <1>2, <1>4 DEF t
<1>5. QED
  BY <1>3, <1>4

Handles(h, s, calls) ==
  /\ h = [k \in 0 .. Len(calls) |-> h[k]] /\ h[0] = s
  /\ \A k \in 1 .. Len(calls) : h[k] = OpenAI!handleToolCallDelta(h[k - 1], calls[k])

\* handleToolCalls is where such a sequence of states arrives.
LEMMA Handled ==
  ASSUME NEW s, NEW calls, Len(calls) \in Nat, NEW h, Handles(h, s, calls)
  PROVE  OpenAI!handleToolCalls(s, calls) = h[Len(calls)]
<1> DEFINE n == Len(calls)
           step(x, k) == OpenAI!handleToolCallDelta(x, calls[k])
           After(f) == f = [k \in 0 .. n |-> IF k = 0 THEN s ELSE step(f[k - 1], k)]
           g == CHOOSE f : After(f)
<1>1. After(h)
  <2>1. \A k \in 0 .. n : h[k] = IF k = 0 THEN s ELSE step(h[k - 1], k)
    <3>1. \A k \in 0 .. n : k = 0 \/ k \in 1 .. n
      OBVIOUS
    <3>2. QED
      BY <3>1 DEF Handles
  <2>2. h = [k \in 0 .. n |-> h[k]]
    BY DEF Handles
  <2>3. QED
    BY <2>1, <2>2
<1>2. After(g)
  BY <1>1
<1>3. OpenAI!handleToolCalls(s, calls) = g[n]
  BY DEF OpenAI!handleToolCalls
<1>. HIDE DEF g
<1>4. /\ g[0] = s
      /\ \A k \in 1 .. n : g[k] = step(g[k - 1], k)
  <2>1. \A k \in 1 .. n : k \in 0 .. n /\ k # 0
    OBVIOUS
  <2>2. 0 \in 0 .. n
    OBVIOUS
  <2>3. QED
    BY <1>2, <2>1, <2>2
<1>5. n \in { k \in 0 .. n : g[k] = h[k] }
  <2> DEFINE D == { k \in 0 .. n : g[k] = h[k] }
  <2>1. 0 \in D
    BY <1>4 DEF Handles
  <2>2. ASSUME NEW m \in 0 .. n - 1, m \in D PROVE m + 1 \in D
    <3>1. m + 1 \in 1 .. n /\ (m + 1) - 1 = m /\ m + 1 \in 0 .. n
      OBVIOUS
    <3>2. g[m + 1] = step(g[m], m + 1) /\ h[m + 1] = step(h[m], m + 1)
      BY <1>4, <3>1 DEF Handles
    <3>3. QED
      BY <2>2, <3>1, <3>2
  <2>. HIDE DEF D
  <2>3. \A k \in 0 .. n : k \in D
    BY <2>1, <2>2, Counting
  <2>4. QED
    BY <2>3 DEF D
<1>6. QED
  BY <1>3, <1>5

\* The calls a chunk may have: none, one,
LEMMA handleToolCallsIs ==
  ASSUME NEW s, NEW a
  PROVE  /\ OpenAI!handleToolCalls(s, <<>>) = s
         /\ OpenAI!handleToolCalls(s, <<a>>) = OpenAI!handleToolCallDelta(s, a)
<1> DEFINE x == OpenAI!handleToolCallDelta(s, a)
           h0 == [k \in 0 .. 0 |-> s]
           h1 == [k \in 0 .. 1 |-> IF k = 0 THEN s ELSE x]
<1>1. Handles(h0, s, <<>>) /\ h0[0] = s
  BY DEF Handles
<1>2. OpenAI!handleToolCalls(s, <<>>) = s
  <2>. HIDE DEF h0
  <2>1. Len(<<>>) = 0 /\ Len(<<>>) \in Nat
    OBVIOUS
  <2>2. QED
    BY <1>1, <2>1, Handled
<1>3. Handles(h1, s, <<a>>) /\ h1[1] = x
  <2>1. h1 = [k \in 0 .. 1 |-> h1[k]] /\ h1[0] = s /\ h1[1] = x
    OBVIOUS
  <2>2. Len(<<a>>) = 1 /\ <<a>>[1] = a /\ \A k \in 1 .. 1 : k = 1 /\ k - 1 = 0
    OBVIOUS
  <2>. HIDE DEF h1
  <2>3. QED
    BY <2>1, <2>2 DEF Handles
<1>4. OpenAI!handleToolCalls(s, <<a>>) = x
  <2>. HIDE DEF h1, x
  <2>1. Len(<<a>>) = 1 /\ Len(<<a>>) \in Nat
    OBVIOUS
  <2>2. QED
    BY <1>3, <2>1, Handled
<1>5. QED
  BY <1>2, <1>4

\* or two.
LEMMA TwoCallsHandled ==
  ASSUME NEW s, NEW a, NEW b, NEW x, x = OpenAI!handleToolCallDelta(s, a), NEW calls, calls = <<a, b>>
  PROVE  OpenAI!handleToolCalls(s, calls) = OpenAI!handleToolCallDelta(x, b)
<1> DEFINE y == OpenAI!handleToolCallDelta(x, b)
           h2 == [k \in 0 .. 2 |-> IF k = 0 THEN s ELSE IF k = 1 THEN x ELSE y]
<1>1. Handles(h2, s, <<a, b>>) /\ h2[2] = y
  <2>1. h2 = [k \in 0 .. 2 |-> h2[k]] /\ h2[0] = s /\ h2[1] = x /\ h2[2] = y
    OBVIOUS
  <2>2. Len(<<a, b>>) = 2 /\ <<a, b>>[1] = a /\ <<a, b>>[2] = b
        /\ \A k \in 1 .. 2 : (k = 1 /\ k - 1 = 0) \/ (k = 2 /\ k - 1 = 1)
    OBVIOUS
  <2>3. y = OpenAI!handleToolCallDelta(x, b) /\ x = OpenAI!handleToolCallDelta(s, a)
    OBVIOUS
  <2>. HIDE DEF h2, y
  <2>4. \A k \in 1 .. 2 : h2[k] = OpenAI!handleToolCallDelta(h2[k - 1], <<a, b>>[k])
    BY <2>1, <2>2, <2>3
  <2>5. QED
    BY <2>1, <2>2, <2>4 DEF Handles
<1>2. OpenAI!handleToolCalls(s, <<a, b>>) = y
  <2>. HIDE DEF h2, y
  <2>1. Len(<<a, b>>) = 2 /\ Len(<<a, b>>) \in Nat
    OBVIOUS
  <2>2. QED
    BY <1>1, <2>1, Handled
<1>3. QED
  BY <1>2

\* The blocks of the calls are stopped in any order, every one of them.
LEMMA OrdersAre ==
  ASSUME NEW f, ToolsOK(f), NEW order \in OpenAI!SetToSeqs(OpenAI!Range(f))
  PROVE  LET stops == [i \in DOMAIN order |-> OpenAI!BlockStop(order[i])] IN
         stops \in Seq(Contents) /\ (stops = <<>> <=> DOMAIN f = {})
<1> DEFINE values == OpenAI!Range(f)
           n == OpenAI!Cardinality(values)
           stops == [i \in DOMAIN order |-> OpenAI!BlockStop(order[i])]
<1>1. values \subseteq Nat /\ values \subseteq {f[0], f[1]} /\ (values = {} <=> DOMAIN f = {})
  BY DEF OpenAI!Range, ToolsOK
<1>2. IsFiniteSet(values)
  <2>1. IsFiniteSet({f[0], f[1]})
    <3>1. IsFiniteSet({f[0]})
      BY FS_Singleton
    <3>2. IsFiniteSet({f[0]} \cup {f[1]})
      BY <3>1, FS_AddElement
    <3>3. {f[0]} \cup {f[1]} = {f[0], f[1]}
      OBVIOUS
    <3>4. QED
      BY <3>2, <3>3
  <2>. HIDE DEF values
  <2>2. QED
    BY <1>1, <2>1, FS_Subset
<1>3. n \in Nat /\ (n = 0 <=> values = {})
  <2>1. OpenAI!Cardinality(values) = Cardinality(values)
    BY DEF OpenAI!Cardinality, Cardinality
  <2>. HIDE DEF values
  <2>2. QED
    BY <1>2, <2>1, FS_CardinalityType, FS_EmptySet
<1>4. order \in [1 .. n -> values]
  BY DEF OpenAI!SetToSeqs
<1>. HIDE DEF n, values
<1>5. stops \in [1 .. n -> Contents]
  <2>1. ASSUME NEW i \in 1 .. n PROVE OpenAI!BlockStop(order[i]) \in Contents
    <3>1. order[i] \in Int /\ "text" \in Kinds
      <4>1. order[i] \in values
        BY <1>4
      <4>2. values \subseteq Nat
        BY <1>1
      <4>3. order[i] \in Nat
        BY <4>1, <4>2
      <4>4. QED
        BY <4>3 DEF Kinds
    <3>2. QED
      BY <3>1, ContentsMade
  <2>2. DOMAIN order = 1 .. n
    BY <1>4
  <2>3. QED
    BY <2>1, <2>2
<1>. HIDE DEF stops
<1>6. stops \in Seq(Contents) /\ Len(stops) = n
  BY <1>3, <1>5
<1>7. stops = <<>> <=> n = 0
  BY <1>6
<1>8. QED
  BY <1>1, <1>3, <1>6, <1>7 DEF stops

\* After closeOpenBlocks nothing is open, and where nothing was, nothing is said.
LEMMA closeOpenBlocksIs ==
  ASSUME NEW s, StateOK(s), NEW c \in OpenAI!closeOpenBlocks(s)
  PROVE  /\ StateOK(c) /\ ~c.dec.textOpen /\ DOMAIN c.dec.tools = {} /\ c.dec.started = s.dec.started
         /\ ~s.dec.textOpen /\ DOMAIN s.dec.tools = {} => c.events = s.events
         /\ c.events = <<>> => s.events = <<>> /\ DOMAIN s.dec.tools = {}
<1> DEFINE t == OpenAI!closeTextBlock(s)
<1>1. /\ StateOK(t) /\ ~t.dec.textOpen /\ t.dec.started = s.dec.started /\ t.dec.tools = s.dec.tools
      /\ ~s.dec.textOpen => t.events = s.events
      /\ t.events = <<>> => s.events = <<>>
  BY closeTextBlockIs
<1>2. PICK order \in OpenAI!SetToSeqs(OpenAI!Range(t.dec.tools)) :
        c = OpenAI!Then([t EXCEPT !.dec.tools = <<>>], [i \in DOMAIN order |-> OpenAI!BlockStop(order[i])])
  BY DEF OpenAI!closeOpenBlocks
<1>. HIDE DEF t
<1> DEFINE d == [t.dec EXCEPT !.tools = <<>>]
           stops == [i \in DOMAIN order |-> OpenAI!BlockStop(order[i])]
<1>3. [t EXCEPT !.dec.tools = <<>>] = [t EXCEPT !.dec = d]
  BY <1>1 DEF StateOK
<1>4. DecOK(t.dec) /\ ToolsOK(t.dec.tools)
  BY <1>1, DecFields DEF StateOK
<1>5. DecOK(d) /\ ~d.textOpen /\ DOMAIN d.tools = {} /\ d.started = s.dec.started
  <2>1. ToolsOK(<<>>) /\ DOMAIN <<>> = {}
    BY DEF ToolsOK
  <2>2. d = [t.dec EXCEPT !.tools = <<>>]
    OBVIOUS
  <2>. HIDE DEF d
  <2>3. t.dec \in [started : BOOLEAN, next : Nat, textOpen : BOOLEAN, textBlock : Nat, tools : {t.dec.tools}]
    BY <1>4, DecFields
  <2>4. d = [started |-> t.dec.started, next |-> t.dec.next, textOpen |-> t.dec.textOpen,
             textBlock |-> t.dec.textBlock, tools |-> <<>>]
    BY <2>2, <2>3
  <2>5. QED
    BY <1>1, <1>4, <2>1, <2>4, DecFields, DecMade
<1>6. stops \in Seq(Contents) /\ (stops = <<>> <=> DOMAIN t.dec.tools = {})
  BY <1>4, OrdersAre
<1>7. c = OpenAI!Then([t EXCEPT !.dec = d], stops)
  BY <1>2, <1>3
<1>. HIDE DEF d, stops
<1>8. StateOK(c) /\ c.dec = d /\ (c.events = <<>> => t.events = <<>> /\ stops = <<>>)
      /\ (stops = <<>> => c.events = t.events)
  BY <1>1, <1>5, <1>6, <1>7, ThenIs
<1>9. QED
  BY <1>1, <1>5, <1>6, <1>8

\* What a report of an OpenAI provider after n tokens is decoded to.
LEMMA OpenAIReport ==
  ASSUME channel = "openai", NEW n \in Nat, NEW w \in OpenAIUsages(n)
  PROVE  LET u == OpenAI!canonicalUsageFromWire(w) IN
         /\ w # None /\ u # None /\ Sound(u) /\ (u.output # None => u.output >= 0)
         /\ Spoiled(u) \/ TrueAt(u, n)
         /\ Complete(w) => Honest(u) /\ (Consistent => u.input = Prompt - CachedTold) /\ u.output = n
<1> DEFINE u == OpenAI!canonicalUsageFromWire(w)
           input == IF w.prompt = None \/ w.cached = None \/ w.cached \notin 0 .. w.prompt
                    THEN w.prompt ELSE w.prompt - w.cached
           read  == IF w.cached = None THEN 0
                    ELSE IF w.prompt # None /\ w.cached \notin 0 .. w.prompt THEN -1 ELSE w.cached
<1>1. PICK x : x = u
  OBVIOUS
<1>2. x = [input |-> input, output |-> w.completion, total |-> w.total, creation |-> 0, read |-> read]
  BY <1>1 DEF OpenAI!canonicalUsageFromWire, OpenAI!NoUsage
<1>. HIDE DEF u, input, read
<1>3. /\ x.input = input /\ x.output = w.completion /\ x.total = w.total /\ x.creation = 0 /\ x.read = read
  BY <1>2
<1>4. None \notin Int /\ Prompt \in Nat \ {0} /\ Cached \in 0 .. Prompt
  BY RelayAssumption
<1>5. CASE w = [prompt |-> 0, cached |-> 1, completion |-> n, total |-> None]
  <2>1. w.prompt = 0 /\ w.cached = 1 /\ w.completion = n /\ w.total = None
    BY <1>5
  <2>2. input = 0 /\ read = -1
    <3>1. 1 # None /\ 0 # None /\ 1 \notin 0 .. 0
      BY <1>4
    <3>2. QED
      BY <2>1, <3>1 DEF input, read
  <2>3. x \in UsageType
    BY <1>2, <2>1, <2>2 DEF UsageType, Counts
  <2>4. Sound(x) /\ Spoiled(x)
    BY <1>3, <2>1, <2>2, <2>3 DEF Sound, Spoiled
  <2>5. ~Complete(w)
    BY <1>4, <2>1 DEF Complete
  <2>6. w # None
    BY <1>4, <1>5, RelayAssumption DEF Counts
  <2>7. QED
    BY <1>1, <1>3, <2>1, <2>3, <2>4, <2>5, <2>6, RelayAssumption DEF u, UsageType
<1>6. CASE w # [prompt |-> 0, cached |-> 1, completion |-> n, total |-> None]
  <2>1. PICK p \in {None, Prompt}, c \in { IF d THEN Cached ELSE None : d \in details },
             o \in {None, n}, t \in {None, Prompt + n} :
               w = [prompt |-> p, cached |-> c, completion |-> o, total |-> t]
    BY <1>6 DEF OpenAIUsages, OrNone
  <2>2. w.prompt = p /\ w.cached = c /\ w.completion = o /\ w.total = t
    BY <2>1
  <2>3. c \in {Cached, None}
    BY <2>1
  <2>4. read = (IF c = None THEN 0 ELSE Cached) /\ input = IF p = None THEN None ELSE Prompt - read
    <3>1. CASE c = None
      <4>1. p # None => p = Prompt /\ Prompt - 0 = Prompt
        BY <1>4, <2>1
      <4>2. QED
        BY <2>1, <2>2, <3>1, <4>1 DEF read, input
    <3>2. CASE c # None
      <4>1. c = Cached /\ (p # None => p = Prompt /\ c \in 0 .. p)
        BY <1>4, <2>1, <2>3, <3>2
      <4>2. QED
        BY <2>1, <2>2, <3>2, <4>1 DEF read, input
    <3>3. QED
      BY <3>1, <3>2
  <2>5. Consistent => read = CachedTold
    <3>1. CASE details = {TRUE}
      <4>1. c = Cached /\ Cached # None
        BY <1>4, <2>1, <3>1
      <4>2. CachedTold = Cached
        <5>1. details # {FALSE}
          BY <3>1
        <5>2. QED
          BY <5>1 DEF CachedTold
      <4>3. QED
        BY <2>4, <4>1, <4>2
    <3>2. CASE details = {FALSE}
      <4>1. c = None /\ CachedTold = 0
        BY <2>1, <3>2 DEF CachedTold
      <4>2. QED
        BY <2>4, <4>1
    <3>3. QED
      BY <3>1, <3>2 DEF Consistent
  <2>6. p \in Counts /\ c \in Counts /\ o \in Counts /\ t \in Counts
    BY <1>4, <2>3 DEF Counts
  <2>7. x \in UsageType /\ read \in 0 .. Prompt
    <3>1. read \in 0 .. Prompt
      BY <1>4, <2>4
    <3>2. QED
      BY <1>2, <1>4, <2>2, <2>4, <2>6, <3>1 DEF UsageType, Counts
  <2>8. Honest(x)
    BY <1>3, <1>4, <2>4, <2>5, <2>7, CachedIs DEF Honest
  <2>9. Sound(x)
    <3>1. x.input # None => x.input >= 0 /\ x.input + x.read >= 1
      BY <1>3, <1>4, <2>4, <2>7
    <3>2. QED
      BY <1>3, <2>7, <2>8, <3>1 DEF Sound
  <2>10. TrueAt(x, n)
    BY <1>3, <2>2 DEF TrueAt
  <2>11. Complete(w) => (Consistent => x.input = Prompt - CachedTold) /\ x.output = n
    BY <1>3, <1>4, <2>2, <2>4, <2>5 DEF Complete
  <2>12. w # None
    BY <2>1, <2>6, RelayAssumption
  <2>13. x.output # None => x.output >= 0
    BY <1>3, <2>2
  <2>14. QED
    BY <1>1, <2>7, <2>8, <2>9, <2>10, <2>11, <2>12, <2>13, RelayAssumption DEF u, UsageType
<1>7. QED
  BY <1>5, <1>6

-----------------------------------------------------------------------------
(* What an OpenAI provider says.                                           *)

Plain(t) == t \in {"comment", "blank", "garbage", "error", "done"}

\* The calls of a chunk, and how many tokens they are.
CallsOK(calls) ==
  \/ calls = <<>>
  \/ \E a : a.index \in {0, 1} /\ calls = <<a>>
  \/ \E a, b : a.index \in {0, 1} /\ b.index \in {0, 1} /\ calls = <<a, b>>

SaysPlain(s) == Plain(s.record.type) /\ s.made = made /\ s.final = None

SaysChoice(s) ==
  /\ s.record.type = "chunk" /\ s.record.choice /\ s.record.finish \in BOOLEAN /\ s.record.text \in BOOLEAN
  /\ CallsOK(s.record.tools) /\ s.record.usage = s.final
  /\ s.final # None => s.record.finish /\ s.final \in OpenAIUsages(s.made.tokens)
  /\ SaidOK(s)
  /\ s.record.finish /\ ~s.record.text /\ s.record.tools = <<>> => ~Grows(s)
  /\ s.record.text \/ s.record.tools # <<>> => Grows(s)

SaysTail(s) ==
  /\ s.record.type = "chunk" /\ ~s.record.choice /\ ~s.record.finish /\ s.record.usage = s.final
  /\ s.final \in OpenAIUsages(s.made.tokens)
  /\ SaidOK(s) /\ ~Grows(s)

\* A chunk of content, field by field.
LEMMA ChunkIs ==
  ASSUME NEW r, NEW text, NEW tools, NEW finish, r = OpenAIChunk(text, tools, finish)
  PROVE  r = [type |-> "chunk", role |-> FALSE, choice |-> TRUE, text |-> text, tools |-> tools,
              finish |-> finish, usage |-> None]
<1>1. PICK chunk : chunk = OpenAI!Chunk
  OBVIOUS
<1>2. chunk \in [type : {"chunk"}, role : {FALSE}, choice : {TRUE}, text : {FALSE}, tools : {<<>>},
                 finish : {FALSE}, usage : {None}]
  BY <1>1 DEF OpenAI!Chunk
<1>3. r = [chunk EXCEPT !.text = text, !.tools = tools, !.finish = finish]
  BY <1>1 DEF OpenAIChunk
<1>4. QED
  BY <1>2, <1>3

\* What the provider generates for a chunk: nothing for one that only gives the reason to stop,
\* something for every other.
LEMMA ChunkCounts ==
  ASSUME NEW r \in OpenAIChunks
  PROVE  /\ ChunkTokens(r) \in Nat /\ ChunkDeltas(r) \in Nat
         /\ r.finish /\ ~r.text /\ r.tools = <<>> => ChunkTokens(r) = 0
         /\ r.text \/ r.tools # <<>> => ChunkTokens(r) > 0
         /\ r.type = "chunk" /\ r.choice /\ r.usage = None /\ r.finish \in BOOLEAN /\ r.text \in BOOLEAN
         /\ CallsOK(r.tools)
<1> DEFINE a == OpenAI!ToolCall(0, TRUE, FALSE)
           b == OpenAI!ToolCall(0, FALSE, TRUE)
           c == OpenAI!ToolCall(1, TRUE, TRUE)
<1>1. PICK text \in BOOLEAN, finish \in BOOLEAN, tools \in OpenAICalls : r = OpenAIChunk(text, tools, finish)
  BY DEF OpenAIChunks
<1>12. OpenAICalls = {<<>>, <<a>>, <<b>>, <<b, c>>}
  BY DEF OpenAICalls
<1>2. a.index = 0 /\ b.index = 0 /\ c.index = 1
  BY DEF OpenAI!ToolCall
<1>. HIDE DEF a, b, c
<1>3. r = [type |-> "chunk", role |-> FALSE, choice |-> TRUE, text |-> text, tools |-> tools,
           finish |-> finish, usage |-> None]
  BY <1>1, ChunkIs
<1>4. /\ r.type = "chunk" /\ r.choice /\ r.usage = None /\ r.finish = finish /\ r.text = text /\ r.tools = tools
  BY <1>3
<1>5. CallsOK(tools)
  BY <1>1, <1>2, <1>12 DEF CallsOK
<1>6. Len(tools) \in Nat /\ DOMAIN tools = 1 .. Len(tools) /\ (tools = <<>> => Len(tools) = 0)
  BY <1>1, <1>12
<1>7. finish => r # OpenAI!Chunk
  <2>1. ~OpenAI!Chunk.finish
    BY DEF OpenAI!Chunk
  <2>2. QED
    BY <1>4, <2>1
<1>8. /\ ChunkTokens(r) \in Nat /\ (finish /\ ~text /\ tools = <<>> => ChunkTokens(r) = 0)
      /\ text \/ tools # <<>> => ChunkTokens(r) > 0
  <2>1. PICK x \in {0, 1} : x = IF r.text THEN 1 ELSE 0
    BY <1>4
  <2>2. PICK y \in {0, 1} : y = IF r = OpenAI!Chunk THEN 1 ELSE 0
    OBVIOUS
  <2>3. PICK n \in Nat : n = Len(r.tools)
    BY <1>4, <1>6
  <2>4. ChunkTokens(r) = x + n + y
    BY <2>1, <2>2, <2>3 DEF ChunkTokens
  <2>5. finish /\ ~text /\ tools = <<>> => x = 0 /\ n = 0 /\ y = 0
    BY <1>4, <1>6, <1>7, <2>1, <2>2, <2>3
  <2>6. (text => x = 1) /\ (tools # <<>> => n > 0)
    BY <1>1, <1>4, <1>12, <2>1, <2>3
  <2>7. QED
    BY <2>4, <2>5, <2>6
<1>10. ChunkDeltas(r) \in Nat
  <2>1. IsFiniteSet(1 .. Len(tools))
    BY <1>6, FS_Interval
  <2>2. { i \in DOMAIN r.tools : r.tools[i].args } \subseteq 1 .. Len(tools)
    BY <1>4, <1>6
  <2>3. Cardinality({ i \in DOMAIN r.tools : r.tools[i].args }) \in Nat
    BY <2>1, <2>2, FS_Subset, FS_CardinalityType
  <2>4. PICK m \in Nat : m = Cardinality({ i \in DOMAIN r.tools : r.tools[i].args })
    BY <2>3
  <2>5. ChunkDeltas(r) = (IF r.text THEN 1 ELSE 0) + m
    BY <2>4 DEF ChunkDeltas
  <2>6. QED
    BY <2>5
<1>11. QED
  BY <1>4, <1>5, <1>8, <1>10

\* A stream that has begun is otherwise as it was.
LEMMA BegunIs ==
  ASSUME made \in MadeType, NEW x, x = [made EXCEPT !.started = TRUE]
  PROVE  /\ x \in MadeType /\ x.tokens = made.tokens /\ x.deltas = made.deltas /\ x.flawless = made.flawless
         /\ x.finished = made.finished /\ x.told = made.told
<1>1. x = [started |-> TRUE, tokens |-> made.tokens, deltas |-> made.deltas, open |-> made.open,
           next |-> made.next, flawless |-> made.flawless, finished |-> made.finished, told |-> made.told]
  BY DEF MadeType
<1>2. QED
  BY <1>1 DEF MadeType

Generated(x, n, d, y) == y = [x EXCEPT !.tokens = @ + n, !.deltas = @ + d]

\* More tokens change nothing else of what was made.
LEMMA GeneratedIs ==
  ASSUME NEW x \in MadeType, NEW n \in Nat, NEW d \in Nat, NEW y, Generated(x, n, d, y), y.tokens <= MaxTokens
  PROVE  /\ y \in MadeType /\ y.tokens = x.tokens + n /\ y.flawless = x.flawless
         /\ y.finished = x.finished /\ y.told = x.told
<1>0. x.tokens \in Nat /\ x.deltas \in Nat /\ MaxTokens \in Nat
  BY RelayAssumption DEF MadeType
<1>1. PICK tokens \in Nat, deltas \in Nat : tokens = x.tokens + n /\ deltas = x.deltas + d
  BY <1>0
<1>2. y = [x EXCEPT !.tokens = tokens, !.deltas = deltas]
  BY <1>1 DEF Generated
<1>3. y = [started |-> x.started, tokens |-> tokens, deltas |-> deltas, open |-> x.open,
           next |-> x.next, flawless |-> x.flawless, finished |-> x.finished, told |-> x.told]
  BY <1>2 DEF MadeType
<1>5. y.tokens = tokens /\ y.flawless = x.flawless /\ y.finished = x.finished /\ y.told = x.told
  BY <1>3
<1>4. tokens \in 0 .. MaxTokens
  BY <1>0, <1>5
<1>6. y \in MadeType
  BY <1>3, <1>4 DEF MadeType
<1>7. QED
  BY <1>1, <1>5, <1>6

\* The four forms of what an OpenAI provider says.
OpenAIForms(s) ==
  \/ \E t \in {"comment", "blank", "garbage", "error", "done"} : s = Says([type |-> t], made, None)
  \/ \E r \in OpenAIChunks : s = Says(r, AfterChunk(r), None)
  \/ \E r \in OpenAIChunks : r.finish /\ \E u \in OpenAIUsages(AfterChunk(r).tokens) :
       s = Says([r EXCEPT !.usage = u], AfterChunk(r), u)
  \/ \E u \in OpenAIUsages(made.tokens) : s = Says([OpenAI!Chunk EXCEPT !.choice = FALSE, !.usage = u], Begun, u)

\* Everything has one of them.
LEMMA OpenAISaysForms ==
  ASSUME NEW s \in OpenAISays
  PROVE  OpenAIForms(s)
<1> DEFINE A == { Says([type |-> t], made, None) : t \in {"comment", "blank", "garbage", "error", "done"} }
           ChunksSaid == UNION { SaysChunk(r) : r \in OpenAIChunks }
           C == { Says([OpenAI!Chunk EXCEPT !.choice = FALSE, !.usage = u], Begun, u) : u \in OpenAIUsages(made.tokens) }
<1>1. OpenAISays = A \cup ChunksSaid \cup C
  BY DEF OpenAISays
<1>2. s \in A => \E t \in {"comment", "blank", "garbage", "error", "done"} : s = Says([type |-> t], made, None)
  OBVIOUS
<1>3. ASSUME NEW r \in OpenAIChunks, s \in SaysChunk(r)
      PROVE  \/ s = Says(r, AfterChunk(r), None)
             \/ r.finish /\ \E u \in OpenAIUsages(AfterChunk(r).tokens) :
                              s = Says([r EXCEPT !.usage = u], AfterChunk(r), u)
  BY <1>3 DEF SaysChunk
<1>4. s \in C => \E u \in OpenAIUsages(made.tokens) :
                   s = Says([OpenAI!Chunk EXCEPT !.choice = FALSE, !.usage = u], Begun, u)
  OBVIOUS
<1>5. s \in ChunksSaid => \E r \in OpenAIChunks : s \in SaysChunk(r)
  OBVIOUS
<1>. HIDE DEF A, ChunksSaid, C
<1>6. s \in A \/ s \in ChunksSaid \/ s \in C
  BY <1>1
<1>7. QED
  BY <1>2, <1>3, <1>4, <1>5, <1>6 DEF OpenAIForms

\* Whatever an OpenAI provider says is one of three things.
LEMMA OpenAISaid ==
  ASSUME channel = "openai", made \in MadeType, NEW s \in Sayings
  PROVE  SaysPlain(s) \/ SaysChoice(s) \/ SaysTail(s)
<1>1. s \in OpenAISays /\ s.made.tokens <= MaxTokens
  BY DEF Sayings
<1>2. /\ Begun \in MadeType /\ Begun.tokens = made.tokens /\ Begun.flawless = made.flawless
      /\ Begun.finished = made.finished /\ Begun.told = made.told /\ made.tokens \in Nat
  <2>1. Begun = [made EXCEPT !.started = TRUE]
    BY DEF Begun
  <2>2. QED
    BY <2>1, BegunIs, RelayAssumption DEF MadeType
<1>3. ASSUME NEW t \in {"comment", "blank", "garbage", "error", "done"}, s = Says([type |-> t], made, None)
      PROVE  SaysPlain(s)
  BY <1>3 DEF Says, SaysPlain, Plain
<1>4. ASSUME NEW r \in OpenAIChunks, s.made = AfterChunk(r)
      PROVE  /\ SaidOK(s) /\ s.made.tokens = AfterChunk(r).tokens
             /\ r.finish /\ ~r.text /\ r.tools = <<>> => ~Grows(s)
             /\ r.text \/ r.tools # <<>> => Grows(s)
  <2>1. PICK n \in Nat, d \in Nat : n = ChunkTokens(r) /\ d = ChunkDeltas(r)
    BY ChunkCounts
  <2>2. s.made = [Begun EXCEPT !.tokens = @ + n, !.deltas = @ + d]
    BY <1>4, <2>1 DEF AfterChunk
  <2>3. PICK m : m = s.made
    OBVIOUS
  <2>4. Generated(Begun, n, d, m) /\ m.tokens <= MaxTokens
    BY <1>1, <2>2, <2>3 DEF Generated
  <2>5. /\ m \in MadeType /\ m.tokens = Begun.tokens + n /\ m.flawless = Begun.flawless
        /\ m.finished = Begun.finished /\ m.told = Begun.told
    BY <1>2, <2>4, GeneratedIs
  <2>6. SaidOK(s) /\ (n = 0 => ~Grows(s)) /\ (n > 0 => Grows(s))
    BY <1>2, <2>3, <2>5 DEF SaidOK, Grows
  <2>7. QED
    BY <1>4, <2>1, <2>6, ChunkCounts
<1>5. ASSUME NEW r \in OpenAIChunks, s = Says(r, AfterChunk(r), None) PROVE SaysChoice(s)
  <2>1. s.record = r /\ s.made = AfterChunk(r) /\ s.final = None
    BY <1>5 DEF Says
  <2>3. QED
    BY <2>1, <1>4, ChunkCounts DEF SaysChoice
<1>6. ASSUME NEW r \in OpenAIChunks, r.finish, NEW u \in OpenAIUsages(AfterChunk(r).tokens),
             s = Says([r EXCEPT !.usage = u], AfterChunk(r), u)
      PROVE  SaysChoice(s)
  <2>1. s.record = [r EXCEPT !.usage = u] /\ s.made = AfterChunk(r) /\ s.final = u
    BY <1>6 DEF Says
  <2>2. PICK z : z = s.record
    OBVIOUS
  <2>3. /\ z.usage = u /\ z.type = r.type /\ z.choice = r.choice /\ z.finish = r.finish
        /\ z.text = r.text /\ z.tools = r.tools
    <3>1. PICK text, finish, tools : r = OpenAIChunk(text, tools, finish)
      BY DEF OpenAIChunks
    <3>2. r \in [type : {"chunk"}, role : {FALSE}, choice : {TRUE}, text : {text}, tools : {tools},
                 finish : {finish}, usage : {None}]
      <4>1. r = [type |-> "chunk", role |-> FALSE, choice |-> TRUE, text |-> text, tools |-> tools,
                 finish |-> finish, usage |-> None]
        BY <3>1, ChunkIs
      <4>2. QED
        BY <4>1
    <3>5. z = [r EXCEPT !.usage = u]
      BY <2>1, <2>2
    <3>6. QED
      BY <3>2, <3>5
  <2>4. /\ r.type = "chunk" /\ r.choice /\ r.finish \in BOOLEAN /\ r.text \in BOOLEAN
        /\ CallsOK(r.tools)
    BY ChunkCounts
  <2>5. /\ SaidOK(s)
        /\ r.finish /\ ~r.text /\ r.tools = <<>> => ~Grows(s)
        /\ r.text \/ r.tools # <<>> => Grows(s)
    BY <1>4, <2>1
  <2>6. s.record = z /\ s.final \in OpenAIUsages(s.made.tokens) /\ z.usage = s.final /\ z.finish
    BY <1>6, <2>1, <2>2, <2>3
  <2>7. QED
    BY <2>3, <2>4, <2>5, <2>6 DEF SaysChoice
<1>7. ASSUME NEW u \in OpenAIUsages(made.tokens),
             s = Says([OpenAI!Chunk EXCEPT !.choice = FALSE, !.usage = u], Begun, u)
      PROVE  SaysTail(s)
  <2>1. s.record = [OpenAI!Chunk EXCEPT !.choice = FALSE, !.usage = u] /\ s.made = Begun /\ s.final = u
    BY <1>7 DEF Says
  <2>2. s.record.type = "chunk" /\ ~s.record.choice /\ ~s.record.finish /\ s.record.usage = u
    BY <2>1 DEF OpenAI!Chunk
  <2>3. SaidOK(s) /\ ~Grows(s)
    BY <1>1, <1>2, <2>1 DEF SaidOK, Grows
  <2>4. QED
    BY <1>2, <2>1, <2>2, <2>3 DEF SaysTail
<1>8. OpenAIForms(s)
  BY <1>1, OpenAISaysForms
<1>9. QED
  BY <1>3, <1>5, <1>6, <1>7, <1>8 DEF OpenAIForms

\* What the loop gets from the decoder for what the provider said.
DecodedOK(s, d) ==
  /\ d.failed \in BOOLEAN /\ (d.failed => s.record.type = "garbage")
  /\ channel = "openai" => DecOK(d.dec)
  /\ ~d.failed => OnlyContents(s, d.events) \/ ContentsThen(s, d.events)
  /\ (s.record.type = "chunk" /\ s.record.finish) \/ (Closed(dec) /\ ~Grows(s)) => Closed(d.dec)

\* The last event of a record comes behind the others.
LEMMA LastIs ==
  ASSUME NEW c, StateOK(c), NEW e, NEW t, t = OpenAI!Then(c, <<e>>)
  PROVE  t.dec = c.dec /\ t.events = c.events \o <<e>> /\ t.failed = FALSE /\ c.events \in Seq(Contents) /\ DecOK(c.dec)
<1>1. c \in [dec : {c.dec}, events : Seq(Contents), failed : {FALSE}] /\ c.events \in Seq(Contents) /\ DecOK(c.dec)
  BY DEF StateOK
<1>2. PICK q : q = c.events \o <<e>>
  OBVIOUS
<1>3. t = [c EXCEPT !.events = q]
  BY <1>2 DEF OpenAI!Then
<1>4. t = [dec |-> c.dec, events |-> q, failed |-> FALSE]
  BY <1>1, <1>3
<1>5. QED
  BY <1>1, <1>2, <1>4

\* An event of a given type has no numbers yet.
LEMMA EventFields ==
  ASSUME NEW type
  PROVE  OpenAI!Event(type).type = type /\ OpenAI!Event(type).usage = None /\ OpenAI!Event(type).final = FALSE
BY DEF OpenAI!Event

\* The decoder before a record.
LEMMA FreshState ==
  ASSUME DecOK(dec)
  PROVE  /\ StateOK(OpenAI!Decoded(dec, <<>>)) /\ OpenAI!Decoded(dec, <<>>).dec = dec
         /\ OpenAI!Decoded(dec, <<>>).events = <<>> /\ OpenAI!Decoded(dec, <<>>).failed = FALSE
BY DEF StateOK, OpenAI!Decoded

\* The decoder gives the loop what was said: of heartbeats, garbage, errors and the end,
LEMMA PlainDecoded ==
  ASSUME channel = "openai", made \in MadeType, DecOK(dec),
         NEW s, SaysPlain(s), NEW d \in OpenAI!Decode(dec, s.record)
  PROVE  SaidOK(s) /\ DecodedOK(s, d)
<1> DEFINE f == OpenAI!Decoded(dec, <<>>)
<1>1. StateOK(f) /\ f.dec = dec /\ f.events = <<>> /\ f.failed = FALSE
  BY FreshState
<1>2. SaidOK(s) /\ ~Grows(s) /\ s.final = None /\ Plain(s.record.type)
  BY DEF SaysPlain, SaidOK, Grows, MadeType
<1>3. <<>> \in Seq(Contents)
  OBVIOUS
<1>4. CASE s.record.type = "blank"
  <2>1. d = f
    BY <1>4 DEF OpenAI!Decode
  <2>2. QED
    BY <1>1, <1>2, <1>3, <1>4, <2>1 DEF DecodedOK, OnlyContents, Heartbeats, Ends
<1>5. CASE s.record.type = "garbage"
  <2>1. d = [f EXCEPT !.failed = TRUE]
    BY <1>5 DEF OpenAI!Decode
  <2>2. f \in [dec : {f.dec}, events : {f.events}, failed : {FALSE}]
    BY DEF OpenAI!Decoded
  <2>. HIDE DEF f
  <2>3. d = [dec |-> f.dec, events |-> f.events, failed |-> TRUE]
    BY <2>1, <2>2
  <2>4. d.dec = dec /\ d.failed = TRUE
    BY <1>1, <2>3
  <2>5. QED
    BY <1>2, <1>5, <2>4 DEF DecodedOK
<1>6. ASSUME NEW c, StateOK(c), NEW e, d = OpenAI!Then(c, <<e>>),
             s.record.type # "chunk", Closed(dec) => c.events = <<>> /\ Closed(c.dec),
             e.final = FALSE, e.usage = None, e.type = "error" => s.record.type = "error",
             e.type = "message_stop" <=> s.record.type \in Ends, s.record.type \in Heartbeats => e.type = "ping"
      PROVE  DecodedOK(s, d)
  <2>1. d.dec = c.dec /\ d.events = c.events \o <<e>> /\ d.failed = FALSE /\ c.events \in Seq(Contents) /\ DecOK(c.dec)
    BY <1>6, LastIs
  <2>2. EndsWith(s, c.events, e)
    BY <1>2, <1>6 DEF EndsWith
  <2>3. ContentsThen(s, d.events)
    BY <2>1, <2>2 DEF ContentsThen
  <2>4. QED
    BY <1>2, <1>6, <2>1, <2>3 DEF DecodedOK
<1>7. CASE s.record.type = "comment"
  <2>1. d = OpenAI!Then(f, <<OpenAI!Event("ping")>>)
    BY <1>7 DEF OpenAI!Decode
  <2>2. PICK e : e = OpenAI!Event("ping")
    OBVIOUS
  <2>3. e.final = FALSE /\ e.usage = None /\ e.type = "ping"
    BY <2>2, EventFields
  <2>4. d = OpenAI!Then(f, <<e>>)
    BY <2>1, <2>2
  <2>. HIDE DEF f
  <2>5. DecodedOK(s, d)
    BY <1>1, <1>6, <1>7, <2>3, <2>4 DEF Heartbeats, Ends
  <2>6. QED
    BY <1>2, <2>5
<1>8. CASE s.record.type = "error"
  <2>1. d = OpenAI!Then(f, <<OpenAI!Event("error")>>)
    BY <1>8 DEF OpenAI!Decode
  <2>2. PICK e : e = OpenAI!Event("error")
    OBVIOUS
  <2>3. e.final = FALSE /\ e.usage = None /\ e.type = "error"
    BY <2>2, EventFields
  <2>4. d = OpenAI!Then(f, <<e>>)
    BY <2>1, <2>2
  <2>. HIDE DEF f
  <2>5. DecodedOK(s, d)
    BY <1>1, <1>6, <1>8, <2>3, <2>4 DEF Heartbeats, Ends
  <2>6. QED
    BY <1>2, <2>5
<1>9. CASE s.record.type = "done"
  <2>1. PICK c \in OpenAI!closeOpenBlocks(f) : d = OpenAI!Then(c, <<OpenAI!Event("message_stop")>>)
    BY <1>9 DEF OpenAI!Decode
  <2>. HIDE DEF f
  <2>2. /\ StateOK(c) /\ ~c.dec.textOpen /\ DOMAIN c.dec.tools = {} /\ c.dec.started = dec.started
        /\ ~dec.textOpen /\ DOMAIN dec.tools = {} => c.events = <<>>
    BY <1>1, <2>1, closeOpenBlocksIs
  <2>3. Closed(dec) => c.events = <<>> /\ Closed(c.dec)
    BY <2>2 DEF Closed
  <2>4. PICK e : e = OpenAI!Event("message_stop")
    OBVIOUS
  <2>5. e.final = FALSE /\ e.usage = None /\ e.type = "message_stop"
    BY <2>4, EventFields
  <2>6. d = OpenAI!Then(c, <<e>>)
    BY <2>1, <2>4
  <2>7. DecodedOK(s, d)
    BY <1>6, <1>9, <2>2, <2>3, <2>5, <2>6 DEF Heartbeats, Ends
  <2>8. QED
    BY <1>2, <2>7
<1>10. QED
  BY <1>2, <1>4, <1>5, <1>7, <1>8, <1>9 DEF Plain

\* The calls of a chunk, handled.
LEMMA CallsHandled ==
  ASSUME NEW u, StateOK(u), NEW calls, CallsOK(calls), NEW t, t = OpenAI!handleToolCalls(u, calls)
  PROVE  /\ StateOK(t) /\ t.dec.started = u.dec.started
         /\ calls = <<>> => t = u
         /\ calls # <<>> => DOMAIN t.dec.tools # {}
<1>1. CASE calls = <<>>
  BY <1>1, handleToolCallsIs
<1> DEFINE One(x, a) == OpenAI!handleToolCallDelta(x, a)
<1>2. \A x, a : StateOK(x) /\ a.index \in {0, 1} =>
         StateOK(One(x, a)) /\ One(x, a).dec.started = x.dec.started /\ DOMAIN One(x, a).dec.tools # {}
  BY handleToolCallDeltaIs
<1>3. CASE \E a : a.index \in {0, 1} /\ calls = <<a>>
  <2>1. PICK a : a.index \in {0, 1} /\ calls = <<a>>
    BY <1>3
  <2>2. OpenAI!handleToolCalls(u, <<a>>) = OpenAI!handleToolCallDelta(u, a)
    BY handleToolCallsIs
  <2>3. t = OpenAI!handleToolCallDelta(u, a)
    BY <2>1, <2>2
  <2>4. a.index \in {0, 1} /\ calls # <<>>
    BY <2>1
  <2>5. StateOK(t) /\ t.dec.started = u.dec.started /\ DOMAIN t.dec.tools # {}
    BY <1>2, <2>3, <2>4
  <2>6. QED
    BY <2>4, <2>5
<1>4. CASE \E a, b : a.index \in {0, 1} /\ b.index \in {0, 1} /\ calls = <<a, b>>
  <2>1. PICK a, b : a.index \in {0, 1} /\ b.index \in {0, 1} /\ calls = <<a, b>>
    BY <1>4
  <2>2. PICK v : v = OpenAI!handleToolCallDelta(u, a)
    OBVIOUS
  <2>3. OpenAI!handleToolCalls(u, calls) = OpenAI!handleToolCallDelta(v, b)
    BY <2>1, <2>2, TwoCallsHandled
  <2>4. t = OpenAI!handleToolCallDelta(v, b)
    BY <2>3
  <2>5. a.index \in {0, 1} /\ b.index \in {0, 1} /\ calls # <<>>
    BY <2>1
  <2>6. StateOK(v) /\ v.dec.started = u.dec.started
    BY <1>2, <2>2, <2>5
  <2>7. StateOK(t) /\ t.dec.started = v.dec.started /\ DOMAIN t.dec.tools # {}
    BY <1>2, <2>4, <2>5, <2>6
  <2>8. QED
    BY <2>5, <2>6, <2>7
<1>5. QED
  BY <1>1, <1>3, <1>4 DEF CallsOK

\* A final report as the last event of a record.
LEMMA ReportEnds ==
  ASSUME channel = "openai", NEW s, SaidOK(s), s.record.type = "chunk", s.final # None,
         s.final \in OpenAIUsages(s.made.tokens),
         NEW q, Grows(s) => q # <<>>, Closed(dec) /\ ~Grows(s) => q = <<>>,
         NEW stop, NEW e, e = OpenAI!MessageDelta(stop, OpenAI!canonicalUsageFromWire(s.final), TRUE)
  PROVE  EndsWith(s, q, e)
<1>1. s.made.tokens \in Nat
  BY DEF SaidOK, MadeType
<1>2. PICK u : u = OpenAI!canonicalUsageFromWire(s.final)
  OBVIOUS
<1>3. /\ u # None /\ Sound(u) /\ (u.output # None => u.output >= 0)
      /\ Spoiled(u) \/ TrueAt(u, s.made.tokens)
      /\ Complete(s.final) => Honest(u) /\ (Consistent => u.input = Prompt - CachedTold) /\ u.output = s.made.tokens
  BY <1>1, <1>2, OpenAIReport
<1>4. e.type = "message_delta" /\ e.usage = u /\ e.final = TRUE
  BY <1>2 DEF OpenAI!MessageDelta, OpenAI!Event
<1>5. QED
  BY <1>3, <1>4 DEF EndsWith, Plausible, Heartbeats, Ends

\* of the tail that only reports,
LEMMA TailDecoded ==
  ASSUME channel = "openai", DecOK(dec), NEW s, SaysTail(s), NEW d \in OpenAI!Decode(dec, s.record)
  PROVE  SaidOK(s) /\ DecodedOK(s, d)
<1> DEFINE f == OpenAI!Decoded(dec, <<>>)
           c == OpenAI!messageStart(f)
<1>1. StateOK(f) /\ f.dec = dec /\ f.events = <<>> /\ f.failed = FALSE
  BY FreshState
<1>2. /\ SaidOK(s) /\ ~Grows(s) /\ s.record.type = "chunk" /\ ~s.record.choice /\ ~s.record.finish
      /\ s.record.usage = s.final /\ s.final \in OpenAIUsages(s.made.tokens) /\ s.made.tokens \in Nat
  BY DEF SaysTail, SaidOK, MadeType
<1>3. s.final # None
  BY <1>2, OpenAIReport
<1>4. PICK e : e = OpenAI!MessageDelta(FALSE, OpenAI!canonicalUsageFromWire(s.final), TRUE)
  OBVIOUS
<1>5. d = OpenAI!Then(c, <<e>>)
  BY <1>2, <1>3, <1>4 DEF OpenAI!Decode
<1>6. StateOK(c) /\ c.dec.started /\ (dec.started => c = f)
  <2>. HIDE DEF f
  <2>1. QED
    BY <1>1, messageStartIs
<1>. HIDE DEF f, c
<1>7. d.dec = c.dec /\ d.events = c.events \o <<e>> /\ d.failed = FALSE /\ c.events \in Seq(Contents) /\ DecOK(c.dec)
  BY <1>5, <1>6, LastIs
<1>8. Closed(dec) => c.events = <<>> /\ Closed(c.dec)
  BY <1>1, <1>6 DEF Closed
<1>9. EndsWith(s, c.events, e)
  BY <1>2, <1>3, <1>4, <1>8, ReportEnds
<1>10. ContentsThen(s, d.events)
  BY <1>7, <1>9 DEF ContentsThen
<1>11. QED
  BY <1>2, <1>7, <1>8, <1>10 DEF DecodedOK

\* of a chunk with its content, its finish and its report,
LEMMA ChoiceDecoded ==
  ASSUME channel = "openai", DecOK(dec), NEW s, SaysChoice(s), NEW d \in OpenAI!Decode(dec, s.record)
  PROVE  SaidOK(s) /\ DecodedOK(s, d)
<1> DEFINE f == OpenAI!Decoded(dec, <<>>)
           c == OpenAI!messageStart(f)
           x == IF s.record.text THEN OpenAI!textDelta(c) ELSE c
           t == OpenAI!handleToolCalls(x, s.record.tools)
           u == IF s.record.usage = None THEN None ELSE OpenAI!canonicalUsageFromWire(s.record.usage)
<1>1. StateOK(f) /\ f.dec = dec /\ f.events = <<>> /\ f.failed = FALSE
  BY FreshState
<1>2. /\ SaidOK(s) /\ s.record.type = "chunk" /\ s.record.choice /\ s.record.finish \in BOOLEAN
      /\ s.record.text \in BOOLEAN /\ CallsOK(s.record.tools) /\ s.record.usage = s.final
      /\ s.final # None => s.record.finish /\ s.final \in OpenAIUsages(s.made.tokens)
      /\ s.record.finish /\ ~s.record.text /\ s.record.tools = <<>> => ~Grows(s)
      /\ s.record.text \/ s.record.tools # <<>> => Grows(s)
  BY DEF SaysChoice
<1>3. d \in OpenAI!decodeChoice(c, s.record)
  BY <1>2 DEF OpenAI!Decode
<1>4. IF s.record.finish
      THEN d \in { OpenAI!Then(b, <<OpenAI!MessageDelta(TRUE, u, u # None)>>) : b \in OpenAI!closeOpenBlocks(t) }
      ELSE d = t
  BY <1>3 DEF OpenAI!decodeChoice
<1>5. StateOK(c) /\ c.dec.started /\ (dec.started => c = f)
  <2>. HIDE DEF f
  <2>1. QED
    BY <1>1, messageStartIs
<1>. HIDE DEF f, c
<1>6. StateOK(x) /\ x.dec.started /\ (s.record.text => x.events # <<>>) /\ (~s.record.text => x = c)
  <2>1. CASE s.record.text
    <3>1. x = OpenAI!textDelta(c)
      BY <2>1
    <3>. HIDE DEF x
    <3>2. QED
      BY <1>5, <2>1, <3>1, textDeltaIs
  <2>2. CASE ~s.record.text
    BY <1>5, <2>2
  <2>3. QED
    BY <1>2, <2>1, <2>2
<1>. HIDE DEF x
<1>7. /\ StateOK(t) /\ t.dec.started /\ (s.record.tools = <<>> => t = x)
      /\ s.record.tools # <<>> => DOMAIN t.dec.tools # {}
  <2>1. t = OpenAI!handleToolCalls(x, s.record.tools)
    OBVIOUS
  <2>. HIDE DEF t
  <2>2. QED
    BY <1>2, <1>6, <2>1, CallsHandled
<1>. HIDE DEF t
<1>8. Closed(dec) /\ ~Grows(s) => t = c /\ c = f
  BY <1>2, <1>5, <1>6, <1>7 DEF Closed
<1>9. CASE ~s.record.finish
  <2>1. d = t /\ DecOK(t.dec) /\ t.events \in Seq(Contents) /\ t.failed = FALSE
    BY <1>4, <1>7, <1>9 DEF StateOK
  <2>2. OnlyContents(s, d.events)
    BY <1>2, <1>9, <2>1 DEF OnlyContents, Heartbeats, Ends
  <2>3. Closed(dec) /\ ~Grows(s) => Closed(d.dec)
    BY <1>1, <1>8, <2>1
  <2>4. QED
    BY <1>2, <1>9, <2>1, <2>2, <2>3 DEF DecodedOK
<1>10. CASE s.record.finish
  <2>1. PICK e : e = OpenAI!MessageDelta(TRUE, u, u # None)
    OBVIOUS
  <2>2. PICK b \in OpenAI!closeOpenBlocks(t) : d = OpenAI!Then(b, <<e>>)
    BY <1>4, <1>10, <2>1
  <2>3. /\ StateOK(b) /\ ~b.dec.textOpen /\ DOMAIN b.dec.tools = {} /\ b.dec.started = t.dec.started
        /\ ~t.dec.textOpen /\ DOMAIN t.dec.tools = {} => b.events = t.events
        /\ b.events = <<>> => t.events = <<>> /\ DOMAIN t.dec.tools = {}
    BY <1>7, <2>2, closeOpenBlocksIs
  <2>4. d.dec = b.dec /\ d.events = b.events \o <<e>> /\ d.failed = FALSE /\ b.events \in Seq(Contents) /\ DecOK(b.dec)
    BY <2>2, <2>3, LastIs
  <2>5. Closed(d.dec)
    BY <1>7, <2>3, <2>4 DEF Closed
  <2>6. Grows(s) => b.events # <<>>
    BY <1>2, <1>6, <1>7, <1>10, <2>3
  <2>7. Closed(dec) /\ ~Grows(s) => b.events = <<>>
    BY <1>1, <1>8, <2>3 DEF Closed
  <2>8. EndsWith(s, b.events, e)
    <3>1. CASE s.final # None
      <4>1. u = OpenAI!canonicalUsageFromWire(s.final)
        BY <1>2, <3>1
      <4>2. u # None
        BY <1>2, <3>1, <4>1, OpenAIReport DEF SaidOK, MadeType
      <4>3. e = OpenAI!MessageDelta(TRUE, OpenAI!canonicalUsageFromWire(s.final), TRUE)
        BY <2>1, <4>1, <4>2
      <4>4. QED
        BY <1>2, <2>6, <2>7, <3>1, <4>3, ReportEnds
    <3>2. CASE s.final = None
      <4>1. u = None
        BY <1>2, <3>2
      <4>2. e.type = "message_delta" /\ e.usage = None /\ e.final = FALSE
        BY <2>1, <4>1 DEF OpenAI!MessageDelta, OpenAI!Event
      <4>3. QED
        BY <1>2, <2>6, <2>7, <3>2, <4>2 DEF EndsWith, Heartbeats, Ends
    <3>3. QED
      BY <3>1, <3>2
  <2>9. ContentsThen(s, d.events)
    BY <2>4, <2>8 DEF ContentsThen
  <2>10. QED
    BY <1>2, <2>4, <2>5, <2>9 DEF DecodedOK
<1>11. QED
  BY <1>2, <1>9, <1>10

\* and so of everything an OpenAI provider says.
LEMMA OpenAIDecoded ==
  ASSUME channel = "openai", made \in MadeType, DecOK(dec), NEW s \in Sayings, NEW d \in OpenAI!Decode(dec, s.record)
  PROVE  SaidOK(s) /\ DecodedOK(s, d)
BY OpenAISaid, PlainDecoded, ChoiceDecoded, TailDecoded

\* What a report of an Anthropic provider is decoded to.
LEMMA AnthropicReport ==
  ASSUME channel = "anthropic", NEW outputs, outputs \subseteq Nat \cup {None}, NEW w \in AnthropicUsages(outputs)
  PROVE  LET u == Anthropic!canonicalUsageFromWire(w) IN
         /\ w # None /\ u # None /\ Sound(u) /\ (u.output # None => u.output >= 0)
         /\ w \notin AnthropicImpossible => /\ Honest(u)
                                            /\ u.output \in outputs /\ u.total = None
                                            /\ Complete(w) => u.input = Prompt - CachedTold /\ u.output # None
         /\ w \in AnthropicImpossible => Spoiled(u)
<1>1. PICK x : x = Anthropic!canonicalUsageFromWire(w)
  OBVIOUS
<1>0. /\ None \notin Int /\ Prompt \in Nat \ {0} /\ Cached \in 0 .. Prompt /\ MaxInt \in Nat \ {0} /\ CachedTold = Cached
      /\ Prompt - CachedTold \in Nat
  BY RelayAssumption, CachedIs DEF CachedTold
<1>2. \E i \in {None, 1, Prompt - Cached}, o \in outputs \cup {0}, c \in {-1, 0, MaxInt}, r \in {0, Cached} :
        /\ w = [input |-> i, output |-> o, creation |-> c, read |-> r]
        /\ \/ i \in {None, Prompt - Cached} /\ o \in outputs /\ c = 0 /\ r = IF i = None THEN 0 ELSE Cached
           \/ i = 1 /\ o = 0 /\ c \in {-1, MaxInt} /\ r = 0 /\ w \in AnthropicImpossible
  <2>1. CASE w \in AnthropicImpossible
    BY <2>1 DEF AnthropicImpossible
  <2>2. CASE w \notin AnthropicImpossible
    <3>1. PICK i \in {None, Prompt - Cached}, o \in outputs :
            w = [input |-> i, output |-> o, creation |-> 0, read |-> IF i = None THEN 0 ELSE Cached]
      BY <2>2 DEF AnthropicUsages, OrNone
    <3>2. QED
      BY <3>1
  <2>3. QED
    BY <2>1, <2>2
<1>3. PICK i \in {None, 1, Prompt - Cached}, o \in outputs \cup {0}, c \in {-1, 0, MaxInt}, r \in {0, Cached} :
        /\ w = [input |-> i, output |-> o, creation |-> c, read |-> r]
        /\ \/ i \in {None, Prompt - Cached} /\ o \in outputs /\ c = 0 /\ r = IF i = None THEN 0 ELSE Cached
           \/ i = 1 /\ o = 0 /\ c \in {-1, MaxInt} /\ r = 0 /\ w \in AnthropicImpossible
  BY <1>2
<1>4. w.input = i /\ w.output = o /\ w.creation = c /\ w.read = r
  BY <1>3
<1>5. i \in Counts /\ o \in Counts /\ c \in Int /\ r \in Int
  BY <1>0, <1>3 DEF Counts
<1>6. w # None
  <2>1. w \in [input : Counts, output : Counts, creation : Int, read : Int]
    BY <1>3, <1>5
  <2>2. QED
    BY <2>1, RelayAssumption
<1>7. x = [input |-> i, output |-> o, total |-> None, creation |-> c, read |-> r]
  <2>1. PICK n : n = Anthropic!NoUsage
    OBVIOUS
  <2>2. n \in [input : {None}, output : {None}, total : {None}, creation : {0}, read : {0}]
    BY <2>1 DEF Anthropic!NoUsage
  <2>3. x = [n EXCEPT !.input = i, !.output = o, !.creation = c, !.read = r]
    BY <1>1, <1>4, <1>6, <2>1 DEF Anthropic!canonicalUsageFromWire
  <2>4. QED
    BY <2>2, <2>3
<1>8. x.input = i /\ x.output = o /\ x.total = None /\ x.creation = c /\ x.read = r
  BY <1>7
<1>9. x \in UsageType /\ x # None
  <2>1. x \in UsageType
    BY <1>5, <1>7 DEF UsageType, Counts
  <2>2. QED
    BY <2>1, RelayAssumption DEF UsageType
<1>10. w \notin AnthropicImpossible => i \in {None, Prompt - Cached} /\ o \in outputs /\ c = 0 /\ r = IF i = None THEN 0 ELSE Cached
  BY <1>3
<1>11. w \in AnthropicImpossible => i = 1 /\ c \in {-1, MaxInt} /\ r = 0
  <2>1. ASSUME w \in AnthropicImpossible PROVE i = 1 /\ c \in {-1, MaxInt} /\ r = 0
    <3>1. PICK g \in {-1, MaxInt} : w = [input |-> 1, output |-> 0, creation |-> g, read |-> 0]
      BY <2>1 DEF AnthropicImpossible
    <3>2. QED
      BY <1>4, <3>1
  <2>2. QED
    BY <2>1
<1>12. w \notin AnthropicImpossible => Honest(x)
  BY <1>0, <1>8, <1>10 DEF Honest
<1>13. w \in AnthropicImpossible => Spoiled(x)
  BY <1>0, <1>8, <1>11 DEF Spoiled
<1>14. Sound(x)
  <2>1. CASE w \in AnthropicImpossible
    BY <1>0, <1>8, <1>9, <1>11, <1>13, <2>1 DEF Sound
  <2>2. CASE w \notin AnthropicImpossible
    <3>1. i # None => i \in Nat /\ i + r = Prompt /\ r \in Nat
      BY <1>0, <1>10, <2>2
    <3>2. r >= -1 /\ c = 0
      BY <1>0, <1>10, <2>2
    <3>3. QED
      BY <1>0, <1>8, <1>9, <1>12, <2>2, <3>1, <3>2 DEF Sound
  <2>3. QED
    BY <2>1, <2>2
<1>15. o # None => o \in Nat
  BY <1>3
<1>16. w \notin AnthropicImpossible /\ Complete(w) => i = Prompt - CachedTold /\ o # None
  BY <1>0, <1>4, <1>10 DEF Complete
<1>17. QED
  BY <1>1, <1>6, <1>8, <1>9, <1>10, <1>12, <1>13, <1>14, <1>15, <1>16

-----------------------------------------------------------------------------
(* What the loop gets from the Anthropic decoder.                          *)

\* Most records of an Anthropic provider are one event,
LEMMA OneEvent ==
  ASSUME channel = "anthropic", NEW s, NEW x, NEW e, EndsWith(s, <<>>, e), NEW d, d = Anthropic!Decoded(x, <<e>>)
  PROVE  DecodedOK(s, d)
<1>1. d.failed = FALSE /\ d.events = <<e>>
  BY DEF Anthropic!Decoded
<1>2. <<>> \in Seq(Contents) /\ <<e>> = <<>> \o <<e>>
  <2>1. <<e>> \in Seq({e})
    OBVIOUS
  <2>2. QED
    BY <2>1, ConcatEmptySeq
<1>3. ContentsThen(s, d.events)
  BY <1>1, <1>2 DEF ContentsThen
<1>4. QED
  BY <1>1, <1>3 DEF DecodedOK, Closed

\* or contents only.
LEMMA OneContent ==
  ASSUME channel = "anthropic", NEW s, s.final = None, s.record.type \notin Heartbeats \cup Ends,
         NEW x, NEW events \in Seq(Contents), NEW d, d = Anthropic!Decoded(x, events)
  PROVE  DecodedOK(s, d)
<1>1. d.failed = FALSE /\ d.events = events
  BY DEF Anthropic!Decoded
<1>2. QED
  BY <1>1 DEF DecodedOK, OnlyContents, Closed

\* Its events, field by field,
LEMMA AnthropicEvent ==
  ASSUME NEW type, NEW u
  PROVE  /\ Anthropic!Event(type).type = type /\ Anthropic!Event(type).usage = None /\ Anthropic!Event(type).final = FALSE
         /\ LET e == [Anthropic!Event(type) EXCEPT !.usage = u] IN e.type = type /\ e.usage = u /\ e.final = FALSE
BY DEF Anthropic!Event

\* those that are contents,
LEMMA AnthropicContents ==
  ASSUME NEW b \in Int, NEW k \in Kinds, NEW c \in Kinds \cup {"empty"}
  PROVE  /\ Anthropic!BlockStop(b) \in Contents /\ Anthropic!BlockStart(b, k) \in Contents
         /\ Anthropic!BlockDelta(b, c) \in Contents
BY DEF Contents, Counts, Kinds, Anthropic!BlockStop, Anthropic!BlockStart, Anthropic!BlockDelta, Anthropic!Event

\* and its records.
LEMMA RecordFields ==
  ASSUME NEW type
  PROVE  /\ Anthropic!Record(type).type = type /\ Anthropic!Record(type).usage = None
         /\ Anthropic!Record(type) \in [type : {type}, index : {None}, kind : {None}, stop : {FALSE}, usage : {None}]
BY DEF Anthropic!Record

\* The set of the ways a record is decoded, and what is asked of each.
AllDecoded(s) == SaidOK(s) /\ \A d \in Anthropic!Decode(dec, s.record) : DecodedOK(s, d)

\* One token more, and nothing else.
LEMMA MoreIs ==
  ASSUME made \in MadeType
  PROVE  /\ More \in [started : BOOLEAN, tokens : {made.tokens + 1}, deltas : Nat, open : Kinds \cup {None},
                      next : Nat, flawless : BOOLEAN, finished : BOOLEAN, told : BOOLEAN]
         /\ made.tokens + 1 \in Nat /\ More.tokens = made.tokens + 1 /\ More.flawless = made.flawless
         /\ More.finished = made.finished /\ More.told = made.told
<1>1. PICK n \in Nat : n = made.tokens + 1
  BY DEF MadeType
<1>2. PICK m : m = More
  OBVIOUS
<1>3. m = [made EXCEPT !.tokens = n]
  BY <1>1, <1>2 DEF More
<1>4. m = [started |-> made.started, tokens |-> n, deltas |-> made.deltas, open |-> made.open,
           next |-> made.next, flawless |-> made.flawless, finished |-> made.finished, told |-> made.told]
  BY <1>3 DEF MadeType
<1>5. QED
  BY <1>1, <1>2, <1>4 DEF MadeType

\* Content of a record: what is made grows by it, as far as the bound,
LEMMA SaysMore ==
  ASSUME made \in MadeType, NEW s, s.made.tokens <= MaxTokens,
         NEW open \in Kinds \cup {None}, NEW next \in Nat, NEW deltas \in Nat,
         s.made = [More EXCEPT !.open = open, !.next = next, !.deltas = deltas]
  PROVE  SaidOK(s)
<1>1. PICK m : m = s.made
  OBVIOUS
<1>2. PICK x : x = More
  OBVIOUS
<1>3. PICK n \in Nat : n = made.tokens + 1
  BY MoreIs
<1>4. /\ x \in [started : BOOLEAN, tokens : {n}, deltas : Nat, open : Kinds \cup {None},
                next : Nat, flawless : BOOLEAN, finished : BOOLEAN, told : BOOLEAN]
      /\ x.flawless = made.flawless /\ x.finished = made.finished /\ x.told = made.told
  BY <1>2, <1>3, MoreIs
<1>5. m = [x EXCEPT !.open = open, !.next = next, !.deltas = deltas]
  BY <1>1, <1>2
<1>6. m = [started |-> x.started, tokens |-> n, deltas |-> deltas, open |-> open,
           next |-> next, flawless |-> x.flawless, finished |-> x.finished, told |-> x.told]
  BY <1>4, <1>5
<1>7. m.tokens = n /\ m.flawless = made.flawless /\ m.finished = made.finished /\ m.told = made.told
  BY <1>4, <1>6
<1>8. n \in 0 .. MaxTokens /\ n >= made.tokens
  BY <1>1, <1>3, <1>7, RelayAssumption DEF MadeType
<1>9. m \in MadeType
  BY <1>4, <1>6, <1>8 DEF MadeType
<1>10. QED
  BY <1>1, <1>3, <1>7, <1>8, <1>9 DEF SaidOK

\* and a record without content makes nothing.
LEMMA SaysNoMore ==
  ASSUME made \in MadeType, NEW s, NEW started \in BOOLEAN, NEW open \in Kinds \cup {None},
         s.made = [made EXCEPT !.started = started, !.open = open]
  PROVE  SaidOK(s) /\ ~Grows(s) /\ s.made.tokens = made.tokens
<1>1. PICK m : m = s.made
  OBVIOUS
<1>2. m = [made EXCEPT !.started = started, !.open = open]
  BY <1>1
<1>3. m = [started |-> started, tokens |-> made.tokens, deltas |-> made.deltas, open |-> open,
           next |-> made.next, flawless |-> made.flawless, finished |-> made.finished, told |-> made.told]
  BY <1>2 DEF MadeType
<1>4. m.tokens = made.tokens /\ m.flawless = made.flawless /\ m.finished = made.finished /\ m.told = made.told
  BY <1>3
<1>5. m \in MadeType /\ made.tokens \in Int
  BY <1>3 DEF MadeType
<1>6. QED
  BY <1>1, <1>4, <1>5 DEF SaidOK, Grows

\* The decoder gives the loop what was said: of heartbeats, garbage, errors and the end,
LEMMA QuietSaid ==
  ASSUME channel = "anthropic", made \in MadeType, NEW s,
         NEW t \in {"comment", "ping", "blank", "garbage", "error", "message_stop"}, s = Says(Anthropic!Record(t), made, None)
  PROVE  AllDecoded(s)
<1>1. s.record.type = t /\ s.made = made /\ s.final = None
  BY RecordFields DEF Says
<1>2. SaidOK(s) /\ ~Grows(s)
  BY <1>1 DEF SaidOK, Grows, MadeType
<1>3. ASSUME NEW d \in Anthropic!Decode(dec, s.record) PROVE DecodedOK(s, d)
  <2>1. CASE t = "garbage"
    <3>1. PICK f : f = Anthropic!Decoded(dec, <<>>)
      OBVIOUS
    <3>2. f \in [dec : {dec}, events : {<<>>}, failed : {FALSE}]
      BY <3>1 DEF Anthropic!Decoded
    <3>3. d = [f EXCEPT !.failed = TRUE]
      BY <1>1, <1>3, <2>1, <3>1 DEF Anthropic!Decode
    <3>4. d.failed = TRUE
      BY <3>2, <3>3
    <3>5. QED
      BY <1>1, <2>1, <3>4 DEF DecodedOK, Closed
  <2>2. CASE t = "blank"
    <3>1. d = Anthropic!Decoded(dec, <<>>)
      BY <1>1, <1>3, <2>2 DEF Anthropic!Decode
    <3>2. <<>> \in Seq(Contents)
      OBVIOUS
    <3>3. QED
      BY <1>1, <2>2, <3>1, <3>2, OneContent DEF Heartbeats, Ends
  <2>3. CASE t \in {"comment", "ping", "error", "message_stop"}
    <3>1. PICK e : e = Anthropic!Event(IF t = "comment" THEN "ping" ELSE t)
      OBVIOUS
    <3>2. d = Anthropic!Decoded(dec, <<e>>)
      BY <1>1, <1>3, <2>3, <3>1 DEF Anthropic!Decode
    <3>3. e.type = (IF t = "comment" THEN "ping" ELSE t) /\ e.usage = None /\ e.final = FALSE
      BY <3>1, AnthropicEvent
    <3>4. EndsWith(s, <<>>, e)
      BY <1>1, <1>2, <2>3, <3>3 DEF EndsWith, Heartbeats, Ends
    <3>5. QED
      BY <3>2, <3>4, OneEvent
  <2>4. QED
    BY <2>1, <2>2, <2>3
<1>4. QED
  BY <1>2, <1>3 DEF AllDecoded

\* of a record nobody understands, which counts as content,
LEMMA UnknownSaid ==
  ASSUME channel = "anthropic", made \in MadeType, NEW s \in { Says(Anthropic!Record("unknown"), More, None) }, s.made.tokens <= MaxTokens
  PROVE  AllDecoded(s)
<1>2. s = Says(Anthropic!Record("unknown"), More, None)
  OBVIOUS
<1>1. s.record.type = "unknown" /\ s.made = More /\ s.final = None
  <2>1. s.record = Anthropic!Record("unknown") /\ s.made = More /\ s.final = None
    BY <1>2 DEF Says
  <2>2. QED
    BY <2>1, RecordFields
<1>3. SaidOK(s)
  <2>1. PICK open \in Kinds \cup {None}, next \in Nat, deltas \in Nat :
          open = More.open /\ next = More.next /\ deltas = More.deltas
    BY MoreIs
  <2>2. More = [More EXCEPT !.open = open, !.next = next, !.deltas = deltas]
    BY <2>1, MoreIs
  <2>3. s.made = [More EXCEPT !.open = open, !.next = next, !.deltas = deltas]
    BY <1>1, <2>2
  <2>4. QED
    BY <2>3, SaysMore
<1>4. ASSUME NEW d \in Anthropic!Decode(dec, s.record) PROVE DecodedOK(s, d)
  <2>1. d = Anthropic!Decoded(dec, <<>>) /\ <<>> \in Seq(Contents)
    BY <1>1, <1>4 DEF Anthropic!Decode
  <2>2. QED
    BY <1>1, <2>1, OneContent DEF Heartbeats, Ends
<1>5. QED
  BY <1>3, <1>4 DEF AllDecoded

\* of the start of the message,
LEMMA StartSaid ==
  ASSUME channel = "anthropic", made \in MadeType, NEW s \in SaysStart
  PROVE  AllDecoded(s)
<1>1. PICK w \in {None} \cup AnthropicUsages({None, 0, 1}) :
        s = Says([Anthropic!Record("message_start") EXCEPT !.usage = w], [made EXCEPT !.started = TRUE], None)
  BY DEF SaysStart
<1>2. /\ s.record = [Anthropic!Record("message_start") EXCEPT !.usage = w] /\ s.final = None
      /\ s.made = [made EXCEPT !.started = TRUE]
  BY <1>1 DEF Says
<1>3. s.record.type = "message_start" /\ s.record.usage = w
  BY <1>2 DEF Anthropic!Record
<1>4. SaidOK(s) /\ ~Grows(s)
  <2>1. s.made = [made EXCEPT !.started = TRUE, !.open = made.open] /\ made.open \in Kinds \cup {None}
    BY <1>2 DEF MadeType
  <2>2. QED
    BY <2>1, SaysNoMore
<1>5. ASSUME NEW d \in Anthropic!Decode(dec, s.record) PROVE DecodedOK(s, d)
  <2>1. PICK u : u = Anthropic!canonicalUsageFromWire(w)
    OBVIOUS
  <2>2. PICK e : e = [Anthropic!Event("message_start") EXCEPT !.usage = u]
    OBVIOUS
  <2>3. d = Anthropic!Decoded(dec, <<e>>)
    BY <1>3, <1>5, <2>1, <2>2 DEF Anthropic!Decode
  <2>4. e.type = "message_start" /\ e.usage = u /\ e.final = FALSE
    BY <2>2 DEF Anthropic!Event
  <2>5. u # None => /\ Sound(u) /\ (u.output # None => u.output >= 0)
                    /\ Plausible(s) => Honest(u)
    <3>1. CASE w = None
      BY <2>1, <3>1 DEF Anthropic!canonicalUsageFromWire
    <3>2. CASE w # None
      <4>1. w \in AnthropicUsages({None, 0, 1}) /\ {None, 0, 1} \subseteq Nat \cup {None}
        BY <3>2
      <4>2. /\ Sound(u) /\ (u.output # None => u.output >= 0)
            /\ w \notin AnthropicImpossible => Honest(u)
        BY <2>1, <4>1, AnthropicReport
      <4>3. QED
        BY <1>3, <4>2 DEF Plausible
    <3>3. QED
      BY <3>1, <3>2
  <2>6. EndsWith(s, <<>>, e)
    BY <1>2, <1>3, <1>4, <2>4, <2>5 DEF EndsWith, Heartbeats, Ends
  <2>7. QED
    BY <2>3, <2>6, OneEvent
<1>6. QED
  BY <1>4, <1>5 DEF AllDecoded

\* of the start of a block,
LEMMA BlockSaid ==
  ASSUME channel = "anthropic", made \in MadeType, NEW s \in SaysBlock, s.made.tokens <= MaxTokens
  PROVE  AllDecoded(s)
<1>1. PICK k \in Kinds :
        s = Says([Anthropic!Record("content_block_start") EXCEPT !.index = made.next, !.kind = k],
                 [More EXCEPT !.open = k, !.next = @ + 1], None)
  BY DEF SaysBlock
<1>2. /\ s.record = [Anthropic!Record("content_block_start") EXCEPT !.index = made.next, !.kind = k]
      /\ s.final = None /\ s.made = [More EXCEPT !.open = k, !.next = @ + 1]
  BY <1>1 DEF Says
<1>3. s.record.type = "content_block_start" /\ s.record.index = made.next /\ s.record.kind = k
  BY <1>2 DEF Anthropic!Record
<1>4. SaidOK(s)
  <2>1. PICK next \in Nat, deltas \in Nat : next = More.next + 1 /\ deltas = More.deltas
    BY MoreIs
  <2>2. s.made = [More EXCEPT !.open = k, !.next = next]
    BY <1>2, <2>1
  <2>3. [More EXCEPT !.open = k, !.next = next] = [More EXCEPT !.open = k, !.next = next, !.deltas = deltas]
    BY <2>1, MoreIs
  <2>4. s.made = [More EXCEPT !.open = k, !.next = next, !.deltas = deltas]
    BY <2>2, <2>3
  <2>5. QED
    BY <2>4, SaysMore
<1>5. ASSUME NEW d \in Anthropic!Decode(dec, s.record) PROVE DecodedOK(s, d)
  <2>1. PICK e : e = Anthropic!BlockStart(made.next, k)
    OBVIOUS
  <2>2. PICK x : x = Anthropic!setBlockType(dec, made.next, k)
    OBVIOUS
  <2>3. d = Anthropic!Decoded(x, <<e>>)
    BY <1>3, <1>5, <2>1, <2>2 DEF Anthropic!Decode
  <2>4. e \in Contents
    BY <2>1, AnthropicContents DEF MadeType
  <2>5. <<e>> \in Seq(Contents)
    BY <2>4
  <2>6. QED
    BY <1>2, <1>3, <2>3, <2>5, OneContent DEF Heartbeats, Ends
<1>6. QED
  BY <1>4, <1>5 DEF AllDecoded

\* of its deltas and its stop,
LEMMA InBlockSaid ==
  ASSUME channel = "anthropic", made \in MadeType, made.open # None, NEW s \in SaysInBlock, s.made.tokens <= MaxTokens
  PROVE  AllDecoded(s)
<1>1. made.open \in Kinds /\ made.next - 1 \in Int
  BY DEF MadeType
<1>2. CASE s = Says([Anthropic!Record("content_block_delta") EXCEPT !.index = made.next - 1, !.kind = made.open],
                    [More EXCEPT !.deltas = @ + (IF made.open = "thinking" /\ client = "openai" THEN 0 ELSE 1)], None)
  <2>1. /\ s.record = [Anthropic!Record("content_block_delta") EXCEPT !.index = made.next - 1, !.kind = made.open]
        /\ s.final = None
        /\ s.made = [More EXCEPT !.deltas = @ + (IF made.open = "thinking" /\ client = "openai" THEN 0 ELSE 1)]
    BY <1>2 DEF Says
  <2>2. s.record.type = "content_block_delta" /\ s.record.index = made.next - 1 /\ s.record.kind = made.open
    BY <2>1 DEF Anthropic!Record
  <2>3. SaidOK(s)
    <3>1. PICK open \in Kinds \cup {None}, next \in Nat, deltas \in Nat :
            /\ open = More.open /\ next = More.next
            /\ deltas = More.deltas + (IF made.open = "thinking" /\ client = "openai" THEN 0 ELSE 1)
      BY MoreIs
    <3>2. s.made = [More EXCEPT !.deltas = deltas]
      BY <2>1, <3>1
    <3>3. [More EXCEPT !.deltas = deltas] = [More EXCEPT !.open = open, !.next = next, !.deltas = deltas]
      BY <3>1, MoreIs
    <3>4. s.made = [More EXCEPT !.open = open, !.next = next, !.deltas = deltas]
      BY <3>2, <3>3
    <3>5. QED
      BY <3>4, SaysMore
  <2>4. ASSUME NEW d \in Anthropic!Decode(dec, s.record) PROVE DecodedOK(s, d)
    <3>1. PICK c \in Kinds \cup {"empty"} :
            c = IF s.record.kind = Anthropic!blockType(dec, s.record.index) THEN s.record.kind ELSE "empty"
      BY <1>1, <2>2
    <3>2. PICK e : e = Anthropic!BlockDelta(s.record.index, c)
      OBVIOUS
    <3>3. d = Anthropic!Decoded(dec, <<e>>)
      BY <2>2, <2>4, <3>1, <3>2 DEF Anthropic!Decode, Anthropic!decodeBlockDelta
    <3>4. e \in Contents
      BY <1>1, <2>2, <3>2, AnthropicContents
    <3>5. <<e>> \in Seq(Contents)
      BY <3>4
    <3>6. QED
      BY <2>1, <2>2, <3>3, <3>5, OneContent DEF Heartbeats, Ends
  <2>5. QED
    BY <2>3, <2>4 DEF AllDecoded
<1>3. CASE s = Says([Anthropic!Record("content_block_stop") EXCEPT !.index = made.next - 1],
                    [made EXCEPT !.open = None], None)
  <2>1. /\ s.record = [Anthropic!Record("content_block_stop") EXCEPT !.index = made.next - 1]
        /\ s.final = None /\ s.made = [made EXCEPT !.open = None]
    BY <1>3 DEF Says
  <2>2. s.record.type = "content_block_stop" /\ s.record.index = made.next - 1
    BY <2>1 DEF Anthropic!Record
  <2>3. SaidOK(s)
    <3>1. s.made = [made EXCEPT !.started = made.started, !.open = None] /\ made.started \in BOOLEAN
      BY <2>1 DEF MadeType
    <3>2. QED
      BY <3>1, SaysNoMore
  <2>4. ASSUME NEW d \in Anthropic!Decode(dec, s.record) PROVE DecodedOK(s, d)
    <3>1. PICK e : e = Anthropic!BlockStop(made.next - 1)
      OBVIOUS
    <3>2. d = Anthropic!Decoded(dec, <<e>>)
      BY <2>2, <2>4, <3>1 DEF Anthropic!Decode
    <3>3. e \in Contents
      BY <1>1, <3>1, AnthropicContents
    <3>4. <<e>> \in Seq(Contents)
      BY <3>3
    <3>5. QED
      BY <2>1, <2>2, <3>2, <3>4, OneContent DEF Heartbeats, Ends
  <2>5. QED
    BY <2>3, <2>4 DEF AllDecoded
<1>4. QED
  BY <1>2, <1>3 DEF SaysInBlock

\* of what comes between and after the blocks,
LEMMA EndSaid ==
  ASSUME channel = "anthropic", made \in MadeType, NEW s \in SaysEnd
  PROVE  AllDecoded(s)
<1>1. CASE s = Says(Anthropic!Record("message_stop"), made, None)
  BY <1>1, QuietSaid
<1>2. ASSUME NEW w, NEW stop \in BOOLEAN, NEW outputs,
             outputs \subseteq Nat \cup {None}, w \in {None} \cup AnthropicUsages(outputs),
             stop => outputs = {None, made.tokens},
             s.record.type = "message_delta", s.record.usage = w, s.record.stop = stop,
             s.made = made, s.final = IF stop THEN w ELSE None
      PROVE  AllDecoded(s)
  <2>1. SaidOK(s) /\ ~Grows(s) /\ s.made.tokens = made.tokens /\ made.tokens \in Nat
    BY <1>2 DEF SaidOK, Grows, MadeType
  <2>2. ASSUME NEW d \in Anthropic!Decode(dec, s.record) PROVE DecodedOK(s, d)
    <3>1. PICK u : u = Anthropic!canonicalUsageFromWire(w)
      OBVIOUS
    <3>2. PICK final \in BOOLEAN : final = (w # None /\ stop)
      OBVIOUS
    <3>3. PICK e : e = Anthropic!MessageDelta(stop, u, final)
      OBVIOUS
    <3>4. d = Anthropic!Decoded(dec, <<e>>)
      BY <1>2, <2>2, <3>1, <3>2, <3>3 DEF Anthropic!Decode, Anthropic!decodeMessageDelta
    <3>5. e.type = "message_delta" /\ e.usage = u /\ e.final = final
      BY <3>3 DEF Anthropic!MessageDelta, Anthropic!Event
    <3>6. CASE w = None
      <4>1. u = None /\ final = FALSE /\ s.final = None
        BY <1>2, <3>1, <3>2, <3>6 DEF Anthropic!canonicalUsageFromWire
      <4>2. EndsWith(s, <<>>, e)
        BY <1>2, <2>1, <3>5, <4>1 DEF EndsWith, Heartbeats, Ends
      <4>3. QED
        BY <3>4, <4>2, OneEvent
    <3>7. CASE w # None
      <4>1. w \in AnthropicUsages(outputs)
        BY <1>2, <3>7
      <4>2. /\ u # None /\ Sound(u) /\ (u.output # None => u.output >= 0)
            /\ w \notin AnthropicImpossible => /\ Honest(u)
                                               /\ u.output \in outputs /\ u.total = None
                                               /\ Complete(w) => u.input = Prompt - CachedTold /\ u.output # None
            /\ w \in AnthropicImpossible => Spoiled(u)
        BY <1>2, <3>1, <4>1, AnthropicReport
      <4>3. final = (s.final # None) /\ (final => s.final = w /\ stop)
        BY <1>2, <3>2, <3>7
      <4>4. Plausible(s) => w \notin AnthropicImpossible /\ (final => Complete(w))
        BY <1>2, <4>3 DEF Plausible
      <4>5. final /\ w \notin AnthropicImpossible => TrueAt(u, s.made.tokens)
        BY <1>2, <4>2, <4>3 DEF TrueAt
      <4>6. final /\ Plausible(s) => u.input = Prompt - CachedTold /\ u.output = s.made.tokens
        BY <1>2, <4>2, <4>3, <4>4
      <4>7. EndsWith(s, <<>>, e)
        BY <1>2, <2>1, <3>5, <4>2, <4>3, <4>4, <4>5, <4>6 DEF EndsWith, Heartbeats, Ends
      <4>8. QED
        BY <3>4, <4>7, OneEvent
    <3>8. QED
      BY <3>6, <3>7
  <2>3. QED
    BY <2>1, <2>2 DEF AllDecoded
<1>3. CASE s \in { Says([Anthropic!Record("message_delta") EXCEPT !.usage = u], made, None) :
                     u \in {None} \cup AnthropicUsages({None, 0, 1}) }
  <2>1. PICK w \in {None} \cup AnthropicUsages({None, 0, 1}) :
          s = Says([Anthropic!Record("message_delta") EXCEPT !.usage = w], made, None)
    BY <1>3
  <2>2. s.record = [Anthropic!Record("message_delta") EXCEPT !.usage = w] /\ s.made = made /\ s.final = None
    BY <2>1 DEF Says
  <2>3. s.record.type = "message_delta" /\ s.record.usage = w /\ s.record.stop = FALSE
    BY <2>2 DEF Anthropic!Record
  <2>4. PICK outputs : outputs = {None, 0, 1}
    OBVIOUS
  <2>5. outputs \subseteq Nat \cup {None} /\ w \in {None} \cup AnthropicUsages(outputs)
    BY <2>1, <2>4
  <2>6. PICK stop \in BOOLEAN : stop = FALSE
    OBVIOUS
  <2>7. s.record.stop = stop /\ s.final = (IF stop THEN w ELSE None) /\ ~stop
    BY <2>2, <2>3, <2>6
  <2>8. QED
    BY <1>2, <2>2, <2>3, <2>5, <2>7
<1>4. CASE s \in { Says([Anthropic!Record("message_delta") EXCEPT !.stop = TRUE, !.usage = u], made, u) :
                     u \in {None} \cup AnthropicUsages(OrNone(made.tokens)) }
  <2>1. PICK w \in {None} \cup AnthropicUsages(OrNone(made.tokens)) :
          s = Says([Anthropic!Record("message_delta") EXCEPT !.stop = TRUE, !.usage = w], made, w)
    BY <1>4
  <2>2. s.record = [Anthropic!Record("message_delta") EXCEPT !.stop = TRUE, !.usage = w] /\ s.made = made /\ s.final = w
    BY <2>1 DEF Says
  <2>3. s.record.type = "message_delta" /\ s.record.usage = w /\ s.record.stop = TRUE
    BY <2>2 DEF Anthropic!Record
  <2>4. PICK outputs : outputs = OrNone(made.tokens)
    OBVIOUS
  <2>5. outputs \subseteq Nat \cup {None} /\ outputs = {None, made.tokens} /\ w \in {None} \cup AnthropicUsages(outputs)
    BY <2>1, <2>4 DEF OrNone, MadeType
  <2>6. PICK stop \in BOOLEAN : stop = TRUE
    OBVIOUS
  <2>7. s.record.stop = stop /\ s.final = IF stop THEN w ELSE None
    BY <2>2, <2>3, <2>6
  <2>8. QED
    BY <1>2, <2>2, <2>3, <2>5, <2>7
<1>5. QED
  BY <1>1, <1>3, <1>4 DEF SaysEnd

\* and so of everything an Anthropic provider says.
LEMMA AnthropicDecoded ==
  ASSUME channel = "anthropic", made \in MadeType, NEW s \in Sayings, NEW d \in Anthropic!Decode(dec, s.record)
  PROVE  SaidOK(s) /\ DecodedOK(s, d)
<1>1. s \in AnthropicSays /\ s.made.tokens <= MaxTokens
  BY DEF Sayings
<1> DEFINE A == { Says(Anthropic!Record(t), made, None) : t \in {"comment", "ping", "blank", "garbage", "error"} }
           U == { Says(Anthropic!Record("unknown"), More, None) }
<1>2. s \in A \/ s \in U \/ s \in SaysStart \/ s \in SaysBlock \/ s \in SaysEnd \/ (made.open # None /\ s \in SaysInBlock)
  <2>1. AnthropicSays = A \cup U \cup (IF made.started THEN {} ELSE SaysStart)
                        \cup (IF made.started /\ made.open = None THEN SaysBlock \cup SaysEnd ELSE {})
                        \cup (IF made.open # None THEN SaysInBlock ELSE {})
    BY DEF AnthropicSays
  <2>. HIDE DEF A, U
  <2>2. QED
    BY <1>1, <2>1
<1>3. s \in A => AllDecoded(s)
  BY QuietSaid
<1>4. s \in U => AllDecoded(s)
  BY <1>1, UnknownSaid
<1>. HIDE DEF A, U
<1>5. AllDecoded(s)
  BY <1>1, <1>2, <1>3, <1>4, StartSaid, BlockSaid, EndSaid, InBlockSaid
<1>6. QED
  BY <1>5 DEF AllDecoded

\* How an attempt ends.
LEMMA FinishKeeps ==
  ASSUME NEW l \in LoopType, NEW m \in MadeType, NEW d, channel = "openai" => DecOK(d),
         m.flawless /\ m.finished => Closed(d),
         NEW verdict \in {"success", "channel_error", "neutral"}, NEW exact \in BOOLEAN,
         Finish(verdict, l, exact), exact = (verdict = "success"),
         verdict = "channel_error" /\ Consistent => ~m.flawless,
         exact /\ Consistent => /\ ChargedInput(l.usage) + l.usage.creation + l.usage.read = Prompt
                                /\ ChargedOutput(l.usage) = m.tokens
  PROVE  Kept(loop', outcome', m, d)
<1>1. PICK O : O = outcome'
  OBVIOUS
<1>2. PICK L : L = loop'
  OBVIOUS
<1>3. O = [kind |-> verdict, exact |-> exact]
  BY <1>1 DEF Finish, Outcome
<1>4. O.kind = verdict /\ O.exact = exact /\ O # None
      /\ O \in [kind : {"success", "channel_error", "neutral"}, exact : BOOLEAN]
  <2>1. O \in [kind : {"success", "channel_error", "neutral"}, exact : BOOLEAN]
    BY <1>3
  <2>2. QED
    BY <1>3, <2>1, RelayAssumption
<1>5. L \in LoopType /\ (exact => L = l)
  <2>1. CASE exact
    BY <1>2, <2>1 DEF Finish
  <2>2. CASE ~exact
    <3>1. PICK v : v = l.usage
      OBVIOUS
    <3>2. v \in UsageType
      BY <3>1 DEF LoopType
    <3>3. PICK u : u = [v EXCEPT !.input = None, !.output = None, !.total = None]
      OBVIOUS
    <3>4. u = [input |-> None, output |-> None, total |-> None, creation |-> v.creation, read |-> v.read]
      BY <3>2, <3>3 DEF UsageType
    <3>5. u \in UsageType
      BY <3>2, <3>4 DEF UsageType, Counts
    <3>6. L = [l EXCEPT !.usage = u]
      BY <1>2, <2>2, <3>1, <3>3 DEF Finish
    <3>7. L \in LoopType
      BY <3>5, <3>6 DEF LoopType
    <3>8. QED
      BY <2>2, <3>7
  <2>3. QED
    BY <2>1, <2>2
<1>6. Kept(L, O, m, d)
  BY <1>4, <1>5 DEF Kept
<1>7. QED
  BY <1>1, <1>2, <1>6

\* Only an error said is an error told.
LEMMA ErrorSaid ==
  ASSUME NEW s, NEW events, OnlyContents(s, events) \/ ContentsThen(s, events),
         NEW i \in DOMAIN events, events[i].type = "error"
  PROVE  s.record.type = "error"
<1>1. ASSUME NEW e \in Contents PROVE e.type # "error"
  BY DEF Contents
<1>2. CASE OnlyContents(s, events)
  <2>1. events[i] \in Contents
    BY <1>2 DEF OnlyContents
  <2>2. QED
    BY <1>1, <2>1
<1>3. CASE ContentsThen(s, events)
  <2>0. PICK q \in Seq(Contents) : \E e : events = q \o <<e>> /\ EndsWith(s, q, e)
    BY <1>3 DEF ContentsThen
  <2>1. PICK e : events = q \o <<e>> /\ EndsWith(s, q, e)
    BY <2>0
  <2>2. i \in 1 .. Len(q) + 1 /\ Len(q) \in Nat
    BY <2>1
  <2>3. CASE i = Len(q) + 1
    <3>1. events[i] = e
      BY <2>1, <2>2, <2>3
    <3>2. QED
      BY <2>1, <3>1 DEF EndsWith
  <2>4. CASE i # Len(q) + 1
    <3>1. i \in 1 .. Len(q)
      BY <2>2, <2>4
    <3>2. events[i] = q[i] /\ q[i] \in Contents
      BY <2>1, <2>2, <3>1
    <3>3. QED
      BY <1>1, <3>2
  <2>5. QED
    BY <2>3, <2>4
<1>4. QED
  BY <1>2, <1>3

\* The locals after the events of a record.
LEMMA RecordKeeps ==
  ASSUME RelayInv, outcome = None, NEW s, SaidOK(s), NEW events, OnlyContents(s, events) \/ ContentsThen(s, events)
  PROVE  LET l == TrackAll(events) IN
         /\ l \in LoopType /\ NumbersInv(l, Judged(s)) /\ FlawlessInv(l, Judged(s))
         /\ l.protocolCompleted <=> s.record.type \in Ends
<1>1. /\ loop \in LoopType /\ made \in MadeType /\ ~loop.protocolCompleted
      /\ NumbersInv(loop, made) /\ FlawlessInv(loop, made) /\ (made.flawless /\ made.finished => Closed(dec))
  BY DEF RelayInv, Kept
<1>2. CASE OnlyContents(s, events)
  BY <1>1, <1>2, ContentsKeep DEF OnlyContents
<1>3. CASE ContentsThen(s, events)
  <2>0. PICK q \in Seq(Contents) : \E e : events = q \o <<e>> /\ EndsWith(s, q, e)
    BY <1>3 DEF ContentsThen
  <2>1. PICK e : events = q \o <<e>> /\ EndsWith(s, q, e)
    BY <2>0
  <2>2. LET l == TrackAll(q \o <<e>>) IN
        /\ l \in LoopType /\ (l.protocolCompleted <=> e.type = "message_stop")
        /\ NumbersInv(l, Judged(s)) /\ FlawlessInv(l, Judged(s))
    BY <1>1, <2>1, LastKeeps
  <2>3. e.type = "message_stop" <=> s.record.type \in Ends
    BY <2>1 DEF EndsWith
  <2>4. QED
    BY <2>1, <2>2, <2>3
<1>4. QED
  BY <1>2, <1>3

\* Whether the answer is committed makes no difference to its numbers.
LEMMA Committed ==
  ASSUME NEW k \in LoopType, NEW b \in BOOLEAN, NEW m
  PROVE  LET l == [k EXCEPT !.committed = b] IN
         /\ l \in LoopType /\ l.protocolCompleted = k.protocolCompleted
         /\ NumbersInv(k, m) => NumbersInv(l, m)
         /\ FlawlessInv(k, m) => FlawlessInv(l, m)
<1>1. PICK l : l = [k EXCEPT !.committed = b]
  OBVIOUS
<1>2. /\ l \in LoopType /\ l.usage = k.usage /\ l.finalUsage = k.finalUsage
      /\ l.finalUsageSeen = k.finalUsageSeen /\ l.finalUsageInvalidated = k.finalUsageInvalidated
      /\ l.protocolCompleted = k.protocolCompleted
  BY <1>1 DEF LoopType
<1>3. NumbersInv(k, m) => NumbersInv(l, m)
  BY <1>2 DEF NumbersInv
<1>4. FlawlessInv(k, m) => FlawlessInv(l, m)
  BY <1>2 DEF FlawlessInv
<1>5. QED
  BY <1>1, <1>2, <1>3, <1>4

\* An attempt that goes on, or ends with what the record says of it.
LEMMA AdvanceKeeps ==
  ASSUME outcome = None, NEW s, SaidOK(s), NEW events, NEW delivered \in BOOLEAN,
         OnlyContents(s, events) \/ ContentsThen(s, events),
         NEW l \in LoopType, NumbersInv(l, Judged(s)), FlawlessInv(l, Judged(s)),
         l.protocolCompleted => s.record.type \in Ends,
         NEW d, channel = "openai" => DecOK(d), Judged(s).flawless /\ Judged(s).finished => Closed(d),
         Advance(l, events, delivered)
  PROVE  Kept(loop', outcome', Judged(s), d)
<1> DEFINE erred == \E i \in DOMAIN events : events[i].type = "error"
<1>1. PICK m : m = Judged(s)
  OBVIOUS
<1>2. /\ m \in MadeType /\ m.told = (made.told \/ s.final # None)
      /\ m.flawless => s.record.type # "error"
      /\ m.flawless /\ s.record.type \in Ends => m.told
  BY <1>1, JudgedIs
<1>3. \/ erred /\ Finish("channel_error", l, FALSE)
      \/ ~erred /\ ~delivered /\ Finish("neutral", l, FALSE)
      \/ ~erred /\ delivered /\ l.protocolCompleted /\ Conclude(l)
      \/ ~erred /\ delivered /\ ~l.protocolCompleted /\ loop' = l /\ UNCHANGED outcome
  BY DEF Advance
<1>4. CASE erred /\ Finish("channel_error", l, FALSE)
  <2>1. ~m.flawless
    BY <1>2, <1>4, ErrorSaid
  <2>2. QED
    BY <1>1, <1>2, <1>4, <2>1, FinishKeeps
<1>5. CASE ~erred /\ ~delivered /\ Finish("neutral", l, FALSE)
  BY <1>1, <1>2, <1>5, FinishKeeps
<1>6. CASE ~erred /\ delivered /\ l.protocolCompleted /\ Conclude(l)
  <2>1. PICK u : u = usageWithFinalAuthority(l.usage, l.finalUsage)
    OBVIOUS
  <2>2. PICK exact \in BOOLEAN :
          exact = (l.finalUsageSeen /\ ~l.finalUsageInvalidated /\ usageReadyForExactSettlement(u))
    OBVIOUS
  <2>3. PICK k : k = [l EXCEPT !.usage = u]
    OBVIOUS
  <2>4. Finish(IF exact THEN "success" ELSE "channel_error", k, exact)
    BY <1>6, <2>1, <2>2, <2>3 DEF Conclude
  <2>5. u \in UsageType
    <3>1. PICK a, f : a = l.usage /\ f = l.finalUsage
      OBVIOUS
    <3>2. a \in UsageType /\ f \in UsageType
      BY <3>1 DEF LoopType
    <3>3. PICK input : input = IF f.input = None THEN a.input ELSE f.input
      OBVIOUS
    <3>4. u = [a EXCEPT !.input = input, !.output = f.output, !.total = f.total]
      BY <2>1, <3>1, <3>2, <3>3 DEF usageWithFinalAuthority, UsageType
    <3>5. QED
      BY <3>2, <3>3, <3>4 DEF UsageType
  <2>6. k \in LoopType /\ k.usage = u
    BY <2>3, <2>5 DEF LoopType
  <2>7. exact /\ Consistent => ChargedInput(u) + u.creation + u.read = Prompt /\ ChargedOutput(u) = m.tokens
    BY <1>1, <1>2, <2>1, <2>2, ExactSettlement
  <2>8. ~exact /\ Consistent => ~m.flawless
    BY <1>1, <1>2, <1>6, <2>1, <2>2, FlawlessSettles
  <2>9. CASE exact
    <3>1. Finish("success", k, TRUE)
      BY <2>4, <2>9
    <3>2. QED
      BY <1>1, <1>2, <2>6, <2>7, <2>9, <3>1, FinishKeeps
  <2>10. CASE ~exact
    <3>1. Finish("channel_error", k, FALSE)
      BY <2>4, <2>10
    <3>2. QED
      BY <1>1, <1>2, <2>6, <2>8, <2>10, <3>1, FinishKeeps
  <2>11. QED
    BY <2>9, <2>10
<1>7. CASE ~erred /\ delivered /\ ~l.protocolCompleted /\ loop' = l /\ UNCHANGED outcome
  BY <1>1, <1>2, <1>7 DEF Kept
<1>8. QED
  BY <1>3, <1>4, <1>5, <1>6, <1>7

\* Before the first record nothing is known and nothing was said.
LEMMA RelayInitial == Init => RelayInv
<1> SUFFICES ASSUME Init PROVE RelayInv
  OBVIOUS
<1>1. /\ channel \in Formats /\ loop = Loop /\ outcome = None /\ made = Made
      /\ channel = "openai" => dec = OpenAI!NewDecoder
  BY DEF Init
<1>2. PICK n : n = NoUsage
  OBVIOUS
<1>3. n = [input |-> None, output |-> None, total |-> None, creation |-> 0, read |-> 0]
  BY <1>2 DEF NoUsage
<1>4. n \in UsageType /\ n.input = None /\ n.output = None /\ n.total = None /\ n.creation = 0 /\ n.read = 0
  BY <1>3 DEF UsageType, Counts
<1>5. /\ loop \in LoopType /\ ~loop.protocolCompleted /\ loop.usage = n /\ loop.finalUsage = n
      /\ loop.finalUsageSeen = FALSE /\ loop.finalUsageInvalidated = FALSE
  BY <1>1, <1>2, <1>4 DEF Loop, LoopType
<1>6. made \in MadeType /\ made.told = FALSE /\ made.finished = FALSE
  BY <1>1, RelayAssumption DEF Made, MadeType
<1>7. Honest(n) /\ Sound(n) /\ Within(n, n)
  BY <1>4, CachedIs DEF Honest, Sound, Within
<1>8. NumbersInv(loop, made) /\ FlawlessInv(loop, made)
  BY <1>2, <1>5, <1>6, <1>7 DEF NumbersInv, FlawlessInv
<1>9. channel = "openai" => DecOK(dec)
  <2>1. ToolsOK(<<>>) /\ 0 \in Nat
    BY DEF ToolsOK
  <2>2. DecOK([started |-> FALSE, next |-> 0, textOpen |-> FALSE, textBlock |-> 0, tools |-> <<>>])
    BY <2>1, DecMade
  <2>3. QED
    BY <1>1, <2>2 DEF OpenAI!NewDecoder
<1>10. QED
  BY <1>1, <1>5, <1>6, <1>8, <1>9 DEF RelayInv, Kept

\* A decoded record, written or not.
LEMMA RelayedKeeps ==
  ASSUME RelayInv, outcome = None, NEW s, SaidOK(s), NEW d, DecodedOK(s, d), ~d.failed,
         Judged(s).flawless /\ Judged(s).finished => Closed(d.dec), Relayed(s, d)
  PROVE  Kept(loop', outcome', Judged(s), d.dec)
<1> DEFINE x == IF passthrough THEN [enc |-> enc, out |-> <<s.record>>] ELSE EncodeAll(d.events)
<1>1. OnlyContents(s, d.events) \/ ContentsThen(s, d.events)
  BY DEF DecodedOK
<1>2. PICK k : k = TrackAll(d.events)
  OBVIOUS
<1>3. /\ k \in LoopType /\ NumbersInv(k, Judged(s)) /\ FlawlessInv(k, Judged(s))
      /\ k.protocolCompleted => s.record.type \in Ends
  BY <1>1, <1>2, RecordKeeps
<1>4. PICK n \in 0 .. Len(x.out) : Advance([k EXCEPT !.committed = @ \/ x.out # <<>>], d.events, n = Len(x.out))
  BY <1>2 DEF Relayed
<1>. HIDE DEF x
<1>5. PICK b \in BOOLEAN : b = (k.committed \/ x.out # <<>>)
  BY <1>3 DEF LoopType
<1>6. PICK delivered \in BOOLEAN : delivered = (n = Len(x.out))
  OBVIOUS
<1>7. PICK l : l = [k EXCEPT !.committed = b]
  OBVIOUS
<1>8. Advance(l, d.events, delivered)
  BY <1>4, <1>5, <1>6, <1>7
<1>9. /\ l \in LoopType /\ l.protocolCompleted = k.protocolCompleted
      /\ NumbersInv(l, Judged(s)) /\ FlawlessInv(l, Judged(s))
  BY <1>3, <1>7, Committed
<1>10. channel = "openai" => DecOK(d.dec)
  BY DEF DecodedOK
<1>11. QED
  BY <1>1, <1>3, <1>8, <1>9, <1>10, AdvanceKeeps

\* What is decoded of what is said, and the state the decoder is left in.
LEMMA SaidDecoded ==
  ASSUME RelayInv, NEW s \in Sayings, NEW d \in Decode(s.record)
  PROVE  SaidOK(s) /\ DecodedOK(s, d) /\ (Judged(s).flawless /\ Judged(s).finished => Closed(d.dec))
<1>1. made \in MadeType /\ (channel = "openai" => DecOK(dec)) /\ (made.flawless /\ made.finished => Closed(dec))
      /\ channel \in {"openai", "anthropic"}
  BY DEF RelayInv, Kept, Formats
<1>2. CASE channel = "anthropic"
  <2>1. SaidOK(s) /\ DecodedOK(s, d)
    BY <1>1, <1>2, AnthropicDecoded DEF Decode
  <2>2. QED
    BY <1>2, <2>1 DEF Closed
<1>3. CASE channel = "openai"
  <2>1. SaidOK(s) /\ DecodedOK(s, d)
    BY <1>1, <1>3, OpenAIDecoded DEF Decode
  <2>2. s.record.type # "message_delta"
    BY <1>1, <1>3, OpenAISaid DEF SaysPlain, SaysChoice, SaysTail, Plain
  <2>3. Judged(s).finished => made.finished \/ (s.record.type = "chunk" /\ s.record.finish)
    BY <2>1, <2>2 DEF Judged, SaidOK, MadeType
  <2>4. Judged(s).flawless => made.flawless /\ (made.finished => ~Grows(s))
    BY <2>1, JudgedIs
  <2>5. QED
    BY <1>1, <2>1, <2>3, <2>4 DEF DecodedOK
<1>4. QED
  BY <1>1, <1>2, <1>3

\* A record that comes in,
LEMMA ReceiveKeeps ==
  ASSUME RelayInv, outcome = None, NEW s \in Sayings, Receive(s)
  PROVE  Kept(loop', outcome', made', dec') /\ channel' = channel /\ details' = details
<1>1. PICK d \in Decode(s.record) :
        /\ dec' = d.dec
        /\ (d.failed /\ \E gone \in BOOLEAN : Failed(gone)) \/ (~d.failed /\ Relayed(s, d))
  BY DEF Receive
<1>2. made' = Judged(s) /\ channel' = channel /\ details' = details
  BY DEF Receive
<1>3. SaidOK(s) /\ DecodedOK(s, d) /\ (Judged(s).flawless /\ Judged(s).finished => Closed(d.dec))
  BY SaidDecoded
<1>4. CASE ~d.failed /\ Relayed(s, d)
  BY <1>1, <1>2, <1>3, <1>4, RelayedKeeps
<1>5. CASE d.failed /\ \E gone \in BOOLEAN : Failed(gone)
  <2>1. PICK verdict \in {"channel_error", "neutral"} : Finish(verdict, loop, FALSE)
    BY <1>5 DEF Failed
  <2>2. PICK m : m = Judged(s)
    OBVIOUS
  <2>3. m \in MadeType /\ ~m.flawless
    BY <1>3, <1>5, <2>2, JudgedIs DEF DecodedOK
  <2>4. loop \in LoopType /\ (channel = "openai" => DecOK(d.dec))
    BY <1>3 DEF RelayInv, Kept, DecodedOK
  <2>5. Kept(loop', outcome', m, d.dec)
    BY <2>1, <2>3, <2>4, FinishKeeps
  <2>6. QED
    BY <1>1, <1>2, <2>2, <2>5
<1>6. QED
  BY <1>1, <1>4, <1>5

\* or none, because the connection broke.
LEMMA ReadFailsKeeps ==
  ASSUME RelayInv, NEW gone \in BOOLEAN, ReadFails(gone)
  PROVE  Kept(loop', outcome', made', dec') /\ channel' = channel /\ details' = details
<1>1. /\ Finish(IF gone THEN "neutral" ELSE "channel_error", loop, FALSE)
      /\ made' = [made EXCEPT !.flawless = @ /\ gone] /\ dec' = dec /\ channel' = channel /\ details' = details
  BY DEF ReadFails, Failed
<1>2. /\ loop \in LoopType /\ made \in MadeType /\ (channel = "openai" => DecOK(dec))
      /\ made.flawless /\ made.finished => Closed(dec)
  BY DEF RelayInv, Kept
<1>3. PICK m : m = made'
  OBVIOUS
<1>4. PICK b \in BOOLEAN : b = (made.flawless /\ gone)
  OBVIOUS
<1>5. m = [made EXCEPT !.flawless = b]
  BY <1>1, <1>3, <1>4
<1>6. m \in MadeType /\ m.finished = made.finished /\ m.flawless = b
  BY <1>2, <1>5 DEF MadeType
<1>7. PICK verdict \in {"channel_error", "neutral"} : verdict = IF gone THEN "neutral" ELSE "channel_error"
  OBVIOUS
<1>8. verdict = "channel_error" => ~m.flawless
  BY <1>4, <1>6, <1>7
<1>9. Kept(loop', outcome', m, dec)
  BY <1>1, <1>2, <1>4, <1>6, <1>7, <1>8, FinishKeeps
<1>10. QED
  BY <1>1, <1>3, <1>9

\* Nothing said of a stream depends on more than its own variables.
LEMMA KeptThen ==
  ASSUME channel \in Formats, channel' = channel, details' = details, Kept(loop', outcome', made', dec')
  PROVE  RelayInv'
<1>1. CachedTold' = CachedTold /\ Consistent' = Consistent
  BY DEF CachedTold, Consistent
<1>2. QED
  BY <1>1 DEF RelayInv, Kept, DecOK, Closed, NumbersInv, FlawlessInv, Sound, Within, TrueAt, Honest, Spoiled,
              ChargedInput, ChargedOutput

\* Every step keeps the invariant, of the other parts too.
LEMMA RelayNext == RelayInv /\ [Next]_vars => RelayInv'
<1> SUFFICES ASSUME RelayInv, [Next]_vars PROVE RelayInv'
  OBVIOUS
<1>1. channel \in Formats
  BY DEF RelayInv
<1>2. ASSUME outcome = None, NEW s \in Sayings, Receive(s) PROVE RelayInv'
  BY <1>1, <1>2, ReceiveKeeps, KeptThen
<1>3. ASSUME NEW gone \in BOOLEAN, ReadFails(gone) PROVE RelayInv'
  BY <1>1, <1>3, ReadFailsKeeps, KeptThen
<1>4. CASE UNCHANGED vars
  <2>1. channel' = channel /\ details' = details /\ loop' = loop /\ outcome' = outcome /\ made' = made /\ dec' = dec
    BY <1>4 DEF vars
  <2>2. Kept(loop', outcome', made', dec')
    BY <2>1 DEF RelayInv
  <2>3. QED
    BY <1>1, <2>1, <2>2, KeptThen
<1>5. QED
  BY <1>2, <1>3, <1>4 DEF Next

-----------------------------------------------------------------------------
(* What the client is told.                                                *)
(*                                                                         *)
(* Between the decoder and the encoder a stream is a sequence of events.   *)
(* What they come to is kept apart from both formats: whether the message  *)
(* has begun and ended, the kinds of its blocks and those that are open,   *)
(* the deltas a client can see, and the usage that an OpenAI client has    *)
(* been told.  Of events that fit either client is told just what they come*)
(* to; that whatever a provider says is decoded to events that fit is      *)
(* argued in ExchangeProofs.                                               *)

\* The known numbers of a usage in place of those before, as mergeUsage has them.
Merged(a, u) == [input    |-> IF u.input = None THEN a.input ELSE u.input,
                 output   |-> IF u.output = None THEN a.output ELSE u.output,
                 total    |-> IF u.total = None THEN a.total ELSE u.total,
                 creation |-> IF u.creation > a.creation THEN u.creation ELSE a.creation,
                 read     |-> IF u.read > a.read THEN u.read ELSE a.read]

\* A stream: told is the usage on the wire, sent tells that it was.
StreamOK(p) ==
  /\ p = [begun |-> p.begun, kind |-> p.kind, open |-> p.open, ended |-> p.ended, deltas |-> p.deltas,
          usage |-> p.usage, sent |-> p.sent, told |-> p.told]
  /\ p.begun \in BOOLEAN /\ p.ended \in BOOLEAN /\ p.sent \in BOOLEAN
  /\ DOMAIN p.kind \subseteq Nat /\ p.kind \in [DOMAIN p.kind -> Kinds] /\ p.open \subseteq DOMAIN p.kind
  /\ p.deltas \in Nat /\ p.usage \in UsageType
  /\ ~p.begun => DOMAIN p.kind = {}
  /\ ~p.sent => p.told = None

\* Events as a decoder makes them, and those that a stream may go on with.
Events == [type : {"message_start", "block_start", "block_delta", "block_stop", "message_delta",
                   "message_stop", "ping", "error"},
           block : Nat \cup {None}, kind : Kinds \cup {None}, delta : Kinds \cup {"empty", None},
           stop : BOOLEAN, usage : UsageType \cup {None}, final : BOOLEAN]

Fits(p, e) ==
  /\ e \in Events /\ ~p.ended
  /\ e.type = "message_start" => ~p.begun
  /\ e.type \in {"block_start", "message_delta"} => p.begun
  /\ e.type = "block_start" => e.block \in Nat \ DOMAIN p.kind /\ e.kind \in Kinds
  /\ e.type = "block_delta" => e.block \in p.open /\ e.delta = p.kind[e.block]
  /\ e.type = "block_stop" => e.block \in p.open
  /\ e.type = "message_stop" => p.open = {}
  /\ e.usage # None => e.type \in {"message_start", "message_delta"}

\* A final report, and a delta that the client has room for.
Reports(e) == e.type = "message_delta" /\ e.final /\ e.usage # None
Visible(e) == e.type = "block_delta" /\ ~(e.delta = "thinking" /\ client = "openai")

KindsWith(kinds, b, k) == [x \in DOMAIN kinds \cup {b} |-> IF x = b THEN k ELSE kinds[x]]

\* The parts of a stream that an event changes.
OpenThen(p, e)  == IF e.type = "block_start" THEN p.open \cup {e.block}
                   ELSE IF e.type = "block_stop" THEN p.open \ {e.block} ELSE p.open
KindThen(p, e)  == IF e.type = "block_start" THEN KindsWith(p.kind, e.block, e.kind) ELSE p.kind
UsageThen(p, e) == IF e.usage = None THEN p.usage ELSE Merged(p.usage, e.usage)

Takes(p, e) ==
  [begun  |-> p.begun \/ e.type = "message_start",
   kind   |-> KindThen(p, e),
   open   |-> OpenThen(p, e),
   ended  |-> e.type = "message_stop",
   deltas |-> p.deltas + (IF Visible(e) THEN 1 ELSE 0),
   usage  |-> UsageThen(p, e),
   sent   |-> p.sent \/ Reports(e),
   told   |-> IF Reports(e) /\ ~p.sent THEN OpenAI!wireUsageFromCanonical(UsageThen(p, e)) ELSE p.told]

\* The streams after each of some events, and where they end.
Hears(g, p, events, q) ==
  /\ g = [k \in 0 .. Len(events) |-> g[k]] /\ g[0] = p /\ g[Len(events)] = q
  /\ \A k \in 1 .. Len(events) : Fits(g[k - 1], events[k]) /\ g[k] = Takes(g[k - 1], events[k])

Heard(p, events, q) == \E g : Hears(g, p, events, q)

\* Nothing but blocks and deltas: the numbers are as before.
Quiet(p, q) == q.usage = p.usage /\ q.sent = p.sent /\ q.told = p.told

\* The parts of a stream after an event.
LEMMA TakesFields ==
  ASSUME NEW p, NEW e
  PROVE  LET q == Takes(p, e) IN
         /\ q.begun = (p.begun \/ e.type = "message_start") /\ q.kind = KindThen(p, e) /\ q.open = OpenThen(p, e)
         /\ q.ended = (e.type = "message_stop") /\ q.deltas = p.deltas + (IF Visible(e) THEN 1 ELSE 0)
         /\ q.usage = UsageThen(p, e) /\ q.sent = (p.sent \/ Reports(e))
         /\ q.told = IF Reports(e) /\ ~p.sent THEN OpenAI!wireUsageFromCanonical(UsageThen(p, e)) ELSE p.told
         /\ q = [begun |-> q.begun, kind |-> q.kind, open |-> q.open, ended |-> q.ended, deltas |-> q.deltas,
                 usage |-> q.usage, sent |-> q.sent, told |-> q.told]
<1> DEFINE a == p.begun \/ e.type = "message_start"
           b == KindThen(p, e)
           c == OpenThen(p, e)
           d == e.type = "message_stop"
           f == p.deltas + (IF Visible(e) THEN 1 ELSE 0)
           g == UsageThen(p, e)
           h == p.sent \/ Reports(e)
           i == IF Reports(e) /\ ~p.sent THEN OpenAI!wireUsageFromCanonical(UsageThen(p, e)) ELSE p.told
<1>1. Takes(p, e) = [begun |-> a, kind |-> b, open |-> c, ended |-> d, deltas |-> f, usage |-> g, sent |-> h, told |-> i]
  BY DEF Takes
<1>2. PICK q : q = Takes(p, e)
  OBVIOUS
<1>. HIDE DEF a, b, c, d, f, g, h, i
<1>3. q = [begun |-> a, kind |-> b, open |-> c, ended |-> d, deltas |-> f, usage |-> g, sent |-> h, told |-> i]
  BY <1>1, <1>2
<1>4. q.begun = a /\ q.kind = b /\ q.open = c /\ q.ended = d /\ q.deltas = f /\ q.usage = g /\ q.sent = h /\ q.told = i
  BY <1>3
<1>5. q = [begun |-> q.begun, kind |-> q.kind, open |-> q.open, ended |-> q.ended, deltas |-> q.deltas,
           usage |-> q.usage, sent |-> q.sent, told |-> q.told]
  BY <1>3, <1>4
<1>6. QED
  BY <1>2, <1>4, <1>5 DEF a, b, c, d, f, g, h, i

\* Merging leaves a usage a usage.
LEMMA MergedIs ==
  ASSUME NEW a \in UsageType, NEW u \in UsageType
  PROVE  /\ Merged(a, u) \in UsageType
         /\ Merged(a, u).input = (IF u.input = None THEN a.input ELSE u.input)
         /\ Merged(a, u).output = (IF u.output = None THEN a.output ELSE u.output)
         /\ Merged(a, u).creation = (IF u.creation > a.creation THEN u.creation ELSE a.creation)
         /\ Merged(a, u).read = (IF u.read > a.read THEN u.read ELSE a.read)
BY DEF Merged, UsageType, Counts

\* A stream that goes on with an event that fits stays a stream.
LEMMA TakesOK ==
  ASSUME NEW p, StreamOK(p), NEW e, Fits(p, e)
  PROVE  StreamOK(Takes(p, e))
<1>1. PICK q : q = Takes(p, e)
  OBVIOUS
<1>2. /\ q.begun = (p.begun \/ e.type = "message_start") /\ q.kind = KindThen(p, e) /\ q.open = OpenThen(p, e)
      /\ q.ended = (e.type = "message_stop") /\ q.deltas = p.deltas + (IF Visible(e) THEN 1 ELSE 0)
      /\ q.usage = UsageThen(p, e) /\ q.sent = (p.sent \/ Reports(e))
      /\ q.told = IF Reports(e) /\ ~p.sent THEN OpenAI!wireUsageFromCanonical(UsageThen(p, e)) ELSE p.told
      /\ q = [begun |-> q.begun, kind |-> q.kind, open |-> q.open, ended |-> q.ended, deltas |-> q.deltas,
              usage |-> q.usage, sent |-> q.sent, told |-> q.told]
  BY <1>1, TakesFields
<1>3. q.begun \in BOOLEAN /\ q.ended \in BOOLEAN /\ q.sent \in BOOLEAN
  <2>1. p.begun \in BOOLEAN /\ p.sent \in BOOLEAN
    BY DEF StreamOK
  <2>2. Reports(e) \in BOOLEAN
    BY DEF Reports, Fits, Events
  <2>3. QED
    BY <1>2, <2>1, <2>2, Zenon
<1>4. q.deltas \in Nat
  BY <1>2 DEF StreamOK
<1>5. q.usage \in UsageType
  <2>1. e.usage \in UsageType \cup {None} /\ p.usage \in UsageType
    BY DEF Fits, Events, StreamOK
  <2>2. QED
    BY <1>2, <2>1, MergedIs DEF UsageThen
<1>6. DOMAIN q.kind \subseteq Nat /\ q.kind \in [DOMAIN q.kind -> Kinds] /\ q.open \subseteq DOMAIN q.kind
  <2>1. DOMAIN p.kind \subseteq Nat /\ p.kind \in [DOMAIN p.kind -> Kinds] /\ p.open \subseteq DOMAIN p.kind
    BY DEF StreamOK
  <2>2. CASE e.type = "block_start"
    <3>1. e.block \in Nat /\ e.kind \in Kinds
      BY <2>2 DEF Fits
    <3>2. q.kind = KindsWith(p.kind, e.block, e.kind) /\ q.open = p.open \cup {e.block}
      BY <1>2, <2>2 DEF KindThen, OpenThen
    <3>3. DOMAIN q.kind = DOMAIN p.kind \cup {e.block} /\ q.kind \in [DOMAIN p.kind \cup {e.block} -> Kinds]
      BY <2>1, <3>1, <3>2 DEF KindsWith
    <3>4. QED
      BY <2>1, <3>1, <3>2, <3>3
  <2>3. CASE e.type # "block_start"
    <3>1. q.kind = p.kind /\ q.open \subseteq p.open
      BY <1>2, <2>3 DEF KindThen, OpenThen
    <3>2. QED
      BY <2>1, <3>1
  <2>4. QED
    BY <2>2, <2>3
<1>7. ~q.begun => DOMAIN q.kind = {}
  <2>1. ~q.begun => ~p.begun /\ e.type # "block_start"
    BY <1>2 DEF Fits
  <2>2. ~p.begun => DOMAIN p.kind = {}
    BY DEF StreamOK
  <2>3. e.type # "block_start" => q.kind = p.kind
    BY <1>2 DEF KindThen
  <2>4. QED
    BY <2>1, <2>2, <2>3
<1>8. ~q.sent => q.told = None
  BY <1>2 DEF StreamOK
<1>9. QED
  BY <1>1, <1>2, <1>3, <1>4, <1>5, <1>6, <1>7, <1>8 DEF StreamOK

\* Nothing leaves a stream as it is,
LEMMA HeardNothing ==
  ASSUME NEW p
  PROVE  Heard(p, <<>>, p)
<1> DEFINE g == [k \in 0 .. 0 |-> p]
<1>1. g = [k \in 0 .. 0 |-> g[k]] /\ g[0] = p /\ Len(<<>>) = 0
  OBVIOUS
<1>. HIDE DEF g
<1>2. Hears(g, p, <<>>, p)
  BY <1>1 DEF Hears
<1>3. QED
  BY <1>2 DEF Heard

\* one event takes it to the next,
LEMMA HeardOne ==
  ASSUME NEW p, NEW e, Fits(p, e)
  PROVE  Heard(p, <<e>>, Takes(p, e))
<1> DEFINE q == Takes(p, e)
           g == [k \in 0 .. 1 |-> IF k = 0 THEN p ELSE q]
<1>1. g = [k \in 0 .. 1 |-> g[k]] /\ g[0] = p /\ g[1] = q
  OBVIOUS
<1>2. Len(<<e>>) = 1 /\ <<e>>[1] = e /\ \A k \in 1 .. 1 : k = 1 /\ k - 1 = 0
  OBVIOUS
<1>3. q = Takes(p, e)
  OBVIOUS
<1>. HIDE DEF g, q
<1>4. Hears(g, p, <<e>>, q)
  BY <1>1, <1>2, <1>3 DEF Hears
<1>5. QED
  BY <1>3, <1>4 DEF Heard

\* and what follows one sequence of events follows from there.
LEMMA HeardBoth ==
  ASSUME NEW V, NEW a \in Seq(V), NEW b \in Seq(V), NEW p, NEW q, NEW x, Heard(p, a, q), Heard(q, b, x)
  PROVE  Heard(p, a \o b, x)
<1>1. PICK f : Hears(f, p, a, q)
  BY DEF Heard
<1>2. PICK g : Hears(g, q, b, x)
  BY DEF Heard
<1>3. PICK m \in Nat : m = Len(a)
  OBVIOUS
<1>4. PICK n \in Nat : n = Len(b)
  OBVIOUS
<1>5. PICK c : c = a \o b
  OBVIOUS
<1>6. Len(c) = m + n /\ \A k \in 1 .. m + n : c[k] = IF k <= m THEN a[k] ELSE b[k - m]
  BY <1>3, <1>4, <1>5, ConcatProperties
<1> DEFINE h == [k \in 0 .. m + n |-> IF k <= m THEN f[k] ELSE g[k - m]]
<1>7. h = [k \in 0 .. m + n |-> h[k]] /\ \A k \in 0 .. m + n : h[k] = IF k <= m THEN f[k] ELSE g[k - m]
  OBVIOUS
<1>. HIDE DEF h
<1>8. f[0] = p /\ f[m] = q /\ g[0] = q /\ g[n] = x
  BY <1>1, <1>2, <1>3, <1>4 DEF Hears
<1>9. h[0] = p
  BY <1>7, <1>8
<1>10. h[m + n] = x
  <2>1. CASE n = 0
    BY <1>7, <1>8, <2>1
  <2>2. CASE n # 0
    <3>1. m + n \in 0 .. m + n /\ ~(m + n <= m) /\ (m + n) - m = n
      BY <2>2
    <3>2. QED
      BY <1>7, <1>8, <3>1
  <2>3. QED
    BY <2>1, <2>2
<1>11. ASSUME NEW k \in 1 .. m + n PROVE Fits(h[k - 1], c[k]) /\ h[k] = Takes(h[k - 1], c[k])
  <2>1. k \in 0 .. m + n /\ k - 1 \in 0 .. m + n
    OBVIOUS
  <2>2. CASE k <= m
    <3>1. k \in 1 .. Len(a) /\ k - 1 <= m /\ c[k] = a[k] /\ h[k] = f[k] /\ h[k - 1] = f[k - 1]
      BY <1>3, <1>6, <1>7, <2>1, <2>2
    <3>2. QED
      BY <1>1, <3>1 DEF Hears
  <2>3. CASE ~(k <= m)
    <3>1. k - m \in 1 .. Len(b) /\ (k - m) - 1 = (k - 1) - m
      BY <1>4, <2>3
    <3>2. c[k] = b[k - m] /\ h[k] = g[k - m]
      BY <1>6, <1>7, <2>1, <2>3
    <3>3. h[k - 1] = g[(k - m) - 1]
      <4>1. CASE k - 1 <= m
        <5>1. k - 1 = m /\ (k - m) - 1 = 0
          BY <2>3, <4>1
        <5>2. QED
          BY <1>7, <1>8, <2>1, <5>1
      <4>2. CASE ~(k - 1 <= m)
        BY <1>7, <2>1, <3>1, <4>2
      <4>3. QED
        BY <4>1, <4>2
    <3>4. Fits(g[(k - m) - 1], b[k - m]) /\ g[k - m] = Takes(g[(k - m) - 1], b[k - m])
      BY <1>2, <3>1 DEF Hears
    <3>5. QED
      BY <3>2, <3>3, <3>4
  <2>4. QED
    BY <2>2, <2>3
<1>12. Hears(h, p, c, x)
  BY <1>6, <1>7, <1>9, <1>10, <1>11 DEF Hears
<1>13. QED
  BY <1>5, <1>12 DEF Heard

\* The last event of a sequence takes what the others lead to.
LEMMA HeardLast ==
  ASSUME NEW V, NEW a \in Seq(V), NEW e, NEW p, NEW q, Heard(p, a \o <<e>>, q)
  PROVE  \E x : Heard(p, a, x) /\ Fits(x, e) /\ q = Takes(x, e)
<1>1. PICK c : c = a \o <<e>>
  OBVIOUS
<1>2. PICK m \in Nat : m = Len(a)
  OBVIOUS
<1>3. Len(c) = m + 1 /\ c[m + 1] = e /\ \A k \in 1 .. m : c[k] = a[k]
  <2>1. a \in Seq(V \cup {e}) /\ <<e>> \in Seq(V \cup {e}) /\ Len(<<e>>) = 1 /\ <<e>>[1] = e
    BY SeqMonotonic
  <2>2. Len(c) = m + 1 /\ \A k \in 1 .. m + 1 : c[k] = IF k <= m THEN a[k] ELSE <<e>>[k - m]
    BY <1>1, <1>2, <2>1, ConcatProperties
  <2>3. m + 1 \in 1 .. m + 1 /\ ~(m + 1 <= m) /\ (m + 1) - m = 1 /\ \A k \in 1 .. m : k \in 1 .. m + 1 /\ k <= m
    OBVIOUS
  <2>4. QED
    BY <2>1, <2>2, <2>3
<1>4. PICK f : Hears(f, p, c, q)
  BY <1>1 DEF Heard
<1>5. /\ f[0] = p /\ f[m + 1] = q
      /\ \A k \in 1 .. m + 1 : Fits(f[k - 1], c[k]) /\ f[k] = Takes(f[k - 1], c[k])
  BY <1>3, <1>4 DEF Hears
<1> DEFINE g == [k \in 0 .. m |-> f[k]]
<1>6. g = [k \in 0 .. m |-> g[k]] /\ \A k \in 0 .. m : g[k] = f[k]
  OBVIOUS
<1>. HIDE DEF g
<1>7. \A k \in 1 .. m : k \in 1 .. m + 1 /\ k \in 0 .. m /\ k - 1 \in 0 .. m
  OBVIOUS
<1>8. \A k \in 1 .. m : Fits(g[k - 1], a[k]) /\ g[k] = Takes(g[k - 1], a[k])
  BY <1>3, <1>5, <1>6, <1>7
<1>9. Hears(g, p, a, f[m])
  <2>1. 0 \in 0 .. m /\ m \in 0 .. m
    OBVIOUS
  <2>2. QED
    BY <1>2, <1>5, <1>6, <1>8, <2>1 DEF Hears
<1>10. Fits(f[m], e) /\ q = Takes(f[m], e)
  <2>1. m + 1 \in 1 .. m + 1 /\ (m + 1) - 1 = m
    OBVIOUS
  <2>2. QED
    BY <1>3, <1>5, <2>1
<1>11. QED
  BY <1>9, <1>10 DEF Heard

\* A stream is a stream after every event.
LEMMA HearsOK ==
  ASSUME NEW p, StreamOK(p), NEW events, Len(events) \in Nat, NEW q, NEW g, Hears(g, p, events, q)
  PROVE  \A k \in 0 .. Len(events) : StreamOK(g[k])
<1> DEFINE n == Len(events)
           D == { k \in 0 .. n : StreamOK(g[k]) }
<1>1. 0 \in D
  BY DEF Hears
<1>2. ASSUME NEW m \in 0 .. n - 1, m \in D PROVE m + 1 \in D
  <2>1. m + 1 \in 1 .. n /\ (m + 1) - 1 = m /\ m + 1 \in 0 .. n
    OBVIOUS
  <2>2. Fits(g[m], events[m + 1]) /\ g[m + 1] = Takes(g[m], events[m + 1])
    BY <2>1 DEF Hears
  <2>3. QED
    BY <1>2, <2>1, <2>2, TakesOK
<1>. HIDE DEF D
<1>3. \A k \in 0 .. n : k \in D
  BY <1>1, <1>2, Counting
<1>4. QED
  BY <1>3 DEF D

\* Contents leave the numbers as they are.
LEMMA HeardQuiet ==
  ASSUME NEW p, StreamOK(p), NEW a \in Seq(Contents), NEW q, Heard(p, a, q)
  PROVE  Quiet(p, q) /\ (~p.ended => ~q.ended)
<1>1. PICK g : Hears(g, p, a, q)
  BY DEF Heard
<1> DEFINE n == Len(a)
           D == { k \in 0 .. n : Quiet(p, g[k]) /\ (~p.ended => ~g[k].ended) }
<1>2. 0 \in D
  BY <1>1 DEF Hears, Quiet
<1>3. ASSUME NEW m \in 0 .. n - 1, m \in D PROVE m + 1 \in D
  <2>1. m + 1 \in 1 .. n /\ (m + 1) - 1 = m /\ m + 1 \in 0 .. n
    OBVIOUS
  <2>2. PICK e : e = a[m + 1]
    OBVIOUS
  <2>3. g[m + 1] = Takes(g[m], e)
    BY <1>1, <2>1, <2>2 DEF Hears
  <2>4. e \in Contents
    BY <2>1, <2>2
  <2>5. e.usage = None /\ e.type # "message_stop" /\ ~Reports(e)
    BY <2>4 DEF Contents, Reports
  <2>6. g[m].sent \in BOOLEAN
    <3>1. m \in 0 .. n /\ Len(a) \in Nat
      OBVIOUS
    <3>2. StreamOK(g[m])
      BY <1>1, <3>1, HearsOK
    <3>3. QED
      BY <3>2 DEF StreamOK
  <2>7. PICK x, y : x = g[m] /\ y = g[m + 1] /\ y = Takes(x, e)
    BY <2>3
  <2>8. /\ y.usage = UsageThen(x, e) /\ y.sent = (x.sent \/ Reports(e)) /\ y.ended = (e.type = "message_stop")
        /\ y.told = IF Reports(e) /\ ~x.sent THEN OpenAI!wireUsageFromCanonical(UsageThen(x, e)) ELSE x.told
    BY <2>7, TakesFields
  <2>9. y.usage = x.usage /\ y.told = x.told /\ ~y.ended
    BY <2>5, <2>8 DEF UsageThen
  <2>10. y.sent = x.sent
    BY <2>5, <2>6, <2>7, <2>8, Zenon
  <2>11. QED
    BY <1>3, <2>1, <2>7, <2>9, <2>10 DEF Quiet
<1>. HIDE DEF D
<1>4. \A k \in 0 .. n : k \in D
  BY <1>2, <1>3, Counting
<1>5. n \in D /\ g[n] = q
  BY <1>1, <1>4 DEF Hears
<1>6. QED
  BY <1>5 DEF D

\* The views after each of some records, and where they end; none of them broken.
Sees(w, v, records, u) ==
  /\ w = [k \in 0 .. Len(records) |-> w[k]] /\ w[0] = v /\ w[Len(records)] = u
  /\ \A k \in 1 .. Len(records) : w[k] = SeeRecord(w[k - 1], records[k])

Watches(w, v, records, u) == Sees(w, v, records, u) /\ \A k \in 0 .. Len(records) : ~w[k].broken

Watched(v, records, u) == \E w : Watches(w, v, records, u)

\* See is where they arrive.
LEMMA Seen ==
  ASSUME NEW v, NEW records, Len(records) \in Nat, NEW u, NEW w, Sees(w, v, records, u)
  PROVE  See(v, records) = u
<1> DEFINE n == Len(records)
           Next1(x, k) == SeeRecord(x, records[k])
           Goes1(f) == f = [k \in 0 .. n |-> IF k = 0 THEN v ELSE Next1(f[k - 1], k)]
           g == CHOOSE f : Goes1(f)
<1>1. Goes1(w)
  <2>1. \A k \in 0 .. n : w[k] = IF k = 0 THEN v ELSE Next1(w[k - 1], k)
    <3>1. \A k \in 0 .. n : k = 0 \/ k \in 1 .. n
      OBVIOUS
    <3>2. QED
      BY <3>1 DEF Sees
  <2>2. QED
    BY <2>1 DEF Sees
<1>2. Goes1(g)
  BY <1>1
<1>3. See(v, records) = g[n]
  BY DEF See
<1>. HIDE DEF g
<1>4. g[0] = v /\ \A k \in 1 .. n : g[k] = Next1(g[k - 1], k)
  <2>1. 0 \in 0 .. n /\ \A k \in 1 .. n : k \in 0 .. n /\ k # 0
    OBVIOUS
  <2>2. QED
    BY <1>2, <2>1
<1>5. n \in { k \in 0 .. n : g[k] = w[k] }
  <2> DEFINE D == { k \in 0 .. n : g[k] = w[k] }
  <2>1. 0 \in D
    BY <1>4 DEF Sees
  <2>2. ASSUME NEW m \in 0 .. n - 1, m \in D PROVE m + 1 \in D
    <3>1. m + 1 \in 1 .. n /\ (m + 1) - 1 = m /\ m + 1 \in 0 .. n
      OBVIOUS
    <3>2. g[m + 1] = Next1(g[m], m + 1) /\ w[m + 1] = Next1(w[m], m + 1)
      BY <1>4, <3>1 DEF Sees
    <3>. HIDE DEF Next1
    <3>3. QED
      BY <2>2, <3>1, <3>2
  <2>. HIDE DEF D
  <2>3. \A k \in 0 .. n : k \in D
    BY <2>1, <2>2, Counting
  <2>4. QED
    BY <2>3 DEF D
<1>6. QED
  BY <1>3, <1>5 DEF Sees

\* Nothing written is nothing seen,
LEMMA WatchedNothing ==
  ASSUME NEW v, ~v.broken
  PROVE  Watched(v, <<>>, v)
<1> DEFINE w == [k \in 0 .. 0 |-> v]
<1>1. w = [k \in 0 .. 0 |-> w[k]] /\ w[0] = v /\ Len(<<>>) = 0 /\ \A k \in 0 .. 0 : w[k] = v
  OBVIOUS
<1>. HIDE DEF w
<1>2. Watches(w, v, <<>>, v)
  BY <1>1 DEF Watches, Sees
<1>3. QED
  BY <1>2 DEF Watched

\* one record is one step,
LEMMA WatchedOne ==
  ASSUME NEW v, ~v.broken, NEW r, NEW u, u = SeeRecord(v, r), ~u.broken
  PROVE  Watched(v, <<r>>, u)
<1> DEFINE w == [k \in 0 .. 1 |-> IF k = 0 THEN v ELSE u]
<1>1. w = [k \in 0 .. 1 |-> w[k]] /\ w[0] = v /\ w[1] = u
  OBVIOUS
<1>2. Len(<<r>>) = 1 /\ <<r>>[1] = r /\ (\A k \in 1 .. 1 : k = 1 /\ k - 1 = 0) /\ \A k \in 0 .. 1 : k = 0 \/ k = 1
  OBVIOUS
<1>. HIDE DEF w
<1>3. Watches(w, v, <<r>>, u)
  BY <1>1, <1>2 DEF Watches, Sees
<1>4. QED
  BY <1>3 DEF Watched

\* and what is written behind is seen behind.
LEMMA WatchedBoth ==
  ASSUME NEW V, NEW a \in Seq(V), NEW b \in Seq(V), NEW v, NEW u, NEW x, Watched(v, a, u), Watched(u, b, x)
  PROVE  Watched(v, a \o b, x)
<1>1. PICK f : Watches(f, v, a, u)
  BY DEF Watched
<1>2. PICK g : Watches(g, u, b, x)
  BY DEF Watched
<1>3. PICK m \in Nat : m = Len(a)
  OBVIOUS
<1>4. PICK n \in Nat : n = Len(b)
  OBVIOUS
<1>5. PICK c : c = a \o b
  OBVIOUS
<1>6. Len(c) = m + n /\ \A k \in 1 .. m + n : c[k] = IF k <= m THEN a[k] ELSE b[k - m]
  BY <1>3, <1>4, <1>5, ConcatProperties
<1> DEFINE h == [k \in 0 .. m + n |-> IF k <= m THEN f[k] ELSE g[k - m]]
<1>7. h = [k \in 0 .. m + n |-> h[k]] /\ \A k \in 0 .. m + n : h[k] = IF k <= m THEN f[k] ELSE g[k - m]
  OBVIOUS
<1>. HIDE DEF h
<1>8. f[0] = v /\ f[m] = u /\ g[0] = u /\ g[n] = x
  BY <1>1, <1>2, <1>3, <1>4 DEF Watches, Sees
<1>9. h[0] = v
  BY <1>7, <1>8
<1>10. h[m + n] = x
  <2>1. CASE n = 0
    BY <1>7, <1>8, <2>1
  <2>2. CASE n # 0
    <3>1. m + n \in 0 .. m + n /\ ~(m + n <= m) /\ (m + n) - m = n
      BY <2>2
    <3>2. QED
      BY <1>7, <1>8, <3>1
  <2>3. QED
    BY <2>1, <2>2
<1>11. ASSUME NEW k \in 1 .. m + n PROVE h[k] = SeeRecord(h[k - 1], c[k])
  <2>1. k \in 0 .. m + n /\ k - 1 \in 0 .. m + n
    OBVIOUS
  <2>2. CASE k <= m
    <3>1. k \in 1 .. Len(a) /\ k - 1 <= m /\ c[k] = a[k] /\ h[k] = f[k] /\ h[k - 1] = f[k - 1]
      BY <1>3, <1>6, <1>7, <2>1, <2>2
    <3>2. QED
      BY <1>1, <3>1 DEF Watches, Sees
  <2>3. CASE ~(k <= m)
    <3>1. k - m \in 1 .. Len(b) /\ (k - m) - 1 = (k - 1) - m
      BY <1>4, <2>3
    <3>2. c[k] = b[k - m] /\ h[k] = g[k - m]
      BY <1>6, <1>7, <2>1, <2>3
    <3>3. h[k - 1] = g[(k - m) - 1]
      <4>1. CASE k - 1 <= m
        <5>1. k - 1 = m /\ (k - m) - 1 = 0
          BY <2>3, <4>1
        <5>2. QED
          BY <1>7, <1>8, <2>1, <5>1
      <4>2. CASE ~(k - 1 <= m)
        BY <1>7, <2>1, <3>1, <4>2
      <4>3. QED
        BY <4>1, <4>2
    <3>4. g[k - m] = SeeRecord(g[(k - m) - 1], b[k - m])
      BY <1>2, <3>1 DEF Watches, Sees
    <3>5. QED
      BY <3>2, <3>3, <3>4
  <2>4. QED
    BY <2>2, <2>3
<1>12. ASSUME NEW k \in 0 .. m + n PROVE ~h[k].broken
  <2>1. CASE k <= m
    <3>1. k \in 0 .. Len(a) /\ h[k] = f[k]
      BY <1>3, <1>7, <2>1
    <3>2. QED
      BY <1>1, <3>1 DEF Watches, Sees
  <2>2. CASE ~(k <= m)
    <3>1. k - m \in 0 .. Len(b) /\ h[k] = g[k - m]
      BY <1>4, <1>7, <2>2
    <3>2. QED
      BY <1>2, <3>1 DEF Watches, Sees
  <2>3. QED
    BY <2>1, <2>2
<1>13. Watches(h, v, c, x)
  BY <1>6, <1>7, <1>9, <1>10, <1>11, <1>12 DEF Watches, Sees
<1>14. QED
  BY <1>5, <1>13 DEF Watched

\* Wherever a write fails, what was written before it is well-formed.
LEMMA WatchedPart ==
  ASSUME NEW V, NEW records \in Seq(V), NEW v, NEW u, Watched(v, records, u), NEW n \in 0 .. Len(records)
  PROVE  /\ ~See(v, SubSeq(records, 1, n)).broken
         /\ n = Len(records) => See(v, SubSeq(records, 1, n)) = u
<1>1. PICK w : Watches(w, v, records, u)
  BY DEF Watched
<1>2. PICK c : c = SubSeq(records, 1, n)
  OBVIOUS
<1>3. Len(c) = n /\ \A k \in 1 .. n : c[k] = records[k]
  <2>1. \A k \in 1 .. n : records[k] \in V
    OBVIOUS
  <2>2. Len(c) = (IF 1 <= n THEN n - 1 + 1 ELSE 0) /\ \A k \in 1 .. n - 1 + 1 : c[k] = records[1 + k - 1]
    BY <1>2, <2>1, SubSeqProperties
  <2>3. n - 1 + 1 = n /\ (IF 1 <= n THEN n - 1 + 1 ELSE 0) = n /\ \A k \in 1 .. n : 1 + k - 1 = k
    OBVIOUS
  <2>4. QED
    BY <2>2, <2>3
<1> DEFINE x == [k \in 0 .. n |-> w[k]]
<1>4. x = [k \in 0 .. n |-> x[k]] /\ \A k \in 0 .. n : x[k] = w[k]
  OBVIOUS
<1>. HIDE DEF x
<1>5. ASSUME NEW k \in 1 .. n PROVE x[k] = SeeRecord(x[k - 1], c[k])
  <2>1. k \in 1 .. Len(records) /\ k \in 0 .. n /\ k - 1 \in 0 .. n
    OBVIOUS
  <2>2. QED
    BY <1>1, <1>3, <1>4, <2>1 DEF Watches, Sees
<1>6. See(v, c) = w[n]
  <2>1. n \in Nat /\ 0 \in 0 .. n /\ n \in 0 .. n /\ w[0] = v
    BY <1>1 DEF Watches, Sees
  <2>2. x[0] = v /\ x[n] = w[n]
    BY <1>4, <2>1
  <2>3. Len(c) \in Nat /\ Sees(x, v, c, w[n])
    BY <1>3, <1>4, <1>5, <2>1, <2>2 DEF Sees
  <2>4. QED
    BY <2>2, <2>3, Seen
<1>7. QED
  BY <1>1, <1>2, <1>6 DEF Watches, Sees

\* A view, and one of a stream: of its blocks for one client, of the calls' places for the other.
ViewOK(v) == v = [begun |-> v.begun, deltas |-> v.deltas, tools |-> v.tools, open |-> v.open, done |-> v.done,
                  finished |-> v.finished, ended |-> v.ended, usage |-> v.usage, broken |-> v.broken]

ShownBlocks(p, v) == v.open = p.open /\ v.done = DOMAIN p.kind \ p.open

ShownCalls(p, e, v) ==
  /\ v.usage = p.told /\ v.tools = e.nextTool
  /\ e = [usage |-> p.usage, usageSent |-> p.sent, toolIndex |-> e.toolIndex, nextTool |-> e.nextTool]
  /\ DOMAIN e.toolIndex = { b \in DOMAIN p.kind : p.kind[b] = "tool_use" }
  /\ e.nextTool \in Nat /\ \A b \in DOMAIN e.toolIndex : e.toolIndex[b] \in Nat /\ e.toolIndex[b] < e.nextTool

Shown(p, e, v) ==
  /\ ViewOK(v) /\ v.begun = p.begun /\ v.deltas = p.deltas /\ v.ended = p.ended /\ ~v.broken
  /\ client = "openai" => ShownCalls(p, e, v)
  /\ client = "anthropic" => ShownBlocks(p, v)

\* The truth values of a stream after an event that fits.
LEMMA TakesIs ==
  ASSUME NEW p, StreamOK(p), NEW e, Fits(p, e)
  PROVE  LET q == Takes(p, e) IN
         /\ (e.type = "message_start" => q.begun = TRUE) /\ (e.type # "message_start" => q.begun = p.begun)
         /\ (e.type = "message_stop" => q.ended = TRUE) /\ (e.type # "message_stop" => q.ended = p.ended)
         /\ (Reports(e) => q.sent = TRUE) /\ (~Reports(e) => q.sent = p.sent)
<1>1. PICK q : q = Takes(p, e)
  OBVIOUS
<1>2. q.begun = (p.begun \/ e.type = "message_start") /\ q.ended = (e.type = "message_stop")
      /\ q.sent = (p.sent \/ Reports(e))
  BY <1>1, TakesFields
<1>3. p.begun \in BOOLEAN /\ p.sent \in BOOLEAN /\ p.ended = FALSE /\ ~p.ended
  BY DEF StreamOK, Fits
<1>4. (e.type = "message_start" => q.begun = TRUE) /\ (e.type # "message_start" => q.begun = p.begun)
  BY <1>2, <1>3, Zenon
<1>5. (e.type = "message_stop" => q.ended = TRUE) /\ (e.type # "message_stop" => q.ended = p.ended)
  BY <1>2, <1>3, Zenon
<1>6. (Reports(e) => q.sent = TRUE) /\ (~Reports(e) => q.sent = p.sent)
  BY <1>2, <1>3, Zenon
<1>7. QED
  BY <1>1, <1>4, <1>5, <1>6

\* What an Anthropic client sees in a record, field by field.
SeenBlocks(v, r, u) ==
  /\ ViewOK(u)
  /\ r.type = "message_start" => u.begun = TRUE /\ u.deltas = v.deltas /\ u.open = v.open
       /\ u.done = v.done /\ u.ended = v.ended /\ (~v.begun => ~u.broken)
  /\ r.type = "content_block_start" =>
       u.begun = v.begun /\ u.deltas = v.deltas /\ u.open = v.open \cup {r.index}
       /\ u.done = v.done /\ u.ended = v.ended
       /\ (v.begun /\ r.index \notin v.open \cup v.done => ~u.broken)
  /\ r.type = "content_block_delta" =>
       u.begun = v.begun /\ u.deltas = v.deltas + 1 /\ u.open = v.open
       /\ u.done = v.done /\ u.ended = v.ended /\ (r.index \in v.open => ~u.broken)
  /\ r.type = "content_block_stop" =>
       u.begun = v.begun /\ u.deltas = v.deltas /\ u.open = v.open \ {r.index}
       /\ u.done = v.done \cup {r.index} /\ u.ended = v.ended /\ (r.index \in v.open => ~u.broken)
  /\ r.type = "message_delta" =>
       u.begun = v.begun /\ u.deltas = v.deltas /\ u.open = v.open
       /\ u.done = v.done /\ u.ended = v.ended /\ (v.begun => ~u.broken)
  /\ r.type = "message_stop" =>
       u.begun = v.begun /\ u.deltas = v.deltas /\ u.open = v.open
       /\ u.done = v.done /\ u.ended = TRUE /\ (~v.ended /\ v.open = {} => ~u.broken)
  /\ r.type \in {"ping", "error"} => u = v

\* And sees it.
LEMMA AnthropicSeen ==
  ASSUME NEW v, ViewOK(v), ~v.broken, NEW r, NEW u, u = SeeAnthropic(v, r)
  PROVE  SeenBlocks(v, r, u)
<1>1. CASE r.type = "message_start"
  <2>1. u = Broken([v EXCEPT !.begun = TRUE], v.begun)
    BY <1>1 DEF SeeAnthropic
  <2>2. QED
    BY <1>1, <2>1 DEF SeenBlocks, Broken, ViewOK
<1>2. CASE r.type = "content_block_start"
  <2>1. u = Broken([v EXCEPT !.open = @ \cup {r.index}], ~v.begun \/ r.index \in v.open \cup v.done)
    BY <1>2 DEF SeeAnthropic
  <2>2. QED
    BY <1>2, <2>1 DEF SeenBlocks, Broken, ViewOK
<1>3. CASE r.type = "content_block_delta"
  <2>1. u = Broken([v EXCEPT !.deltas = @ + 1], r.index \notin v.open)
    BY <1>3 DEF SeeAnthropic
  <2>2. QED
    BY <1>3, <2>1 DEF SeenBlocks, Broken, ViewOK
<1>4. CASE r.type = "content_block_stop"
  <2>1. u = Broken([v EXCEPT !.open = @ \ {r.index}, !.done = @ \cup {r.index}], r.index \notin v.open)
    BY <1>4 DEF SeeAnthropic
  <2>2. QED
    BY <1>4, <2>1 DEF SeenBlocks, Broken, ViewOK
<1>5. CASE r.type = "message_delta"
  <2>1. u = Broken([v EXCEPT !.finished = @ \/ r.stop, !.usage = IF r.usage = None THEN @ ELSE r.usage], ~v.begun)
    BY <1>5 DEF SeeAnthropic
  <2>2. QED
    BY <1>5, <2>1 DEF SeenBlocks, Broken, ViewOK
<1>6. CASE r.type = "message_stop"
  <2>1. u = Broken([v EXCEPT !.ended = TRUE], v.ended \/ v.open # {})
    BY <1>6 DEF SeeAnthropic
  <2>2. QED
    BY <1>6, <2>1 DEF SeenBlocks, Broken, ViewOK
<1>7. CASE r.type \notin {"message_start", "content_block_start", "content_block_delta", "content_block_stop",
                          "message_delta", "message_stop"}
  BY <1>7 DEF SeeAnthropic, SeenBlocks
<1>8. QED
  BY <1>1, <1>2, <1>3, <1>4, <1>5, <1>6, <1>7

\* An Anthropic client gets one record for each event, and sees in it what the event came to.
LEMMA AnthropicEncoded ==
  ASSUME NEW e, NEW ev \in Events, NEW x, x = Anthropic!Encode(e, ev)
  PROVE  \E r : /\ x.out = <<r>>
                /\ r.type = IF ev.type = "block_start" THEN "content_block_start"
                            ELSE IF ev.type = "block_delta" THEN "content_block_delta"
                            ELSE IF ev.type = "block_stop" THEN "content_block_stop" ELSE ev.type
                /\ ev.type \in {"block_start", "block_delta", "block_stop"} => r.index = ev.block
<1>1. CASE ev.type = "block_start"
  <2>1. PICK r : r = [Anthropic!Record("content_block_start") EXCEPT !.index = ev.block, !.kind = ev.kind]
    OBVIOUS
  <2>2. x.out = <<r>>
    BY <1>1, <2>1 DEF Anthropic!Encode, Anthropic!Encoded
  <2>3. r.type = "content_block_start" /\ r.index = ev.block
    BY <2>1 DEF Anthropic!Record
  <2>4. QED
    BY <1>1, <2>2, <2>3
<1>2. CASE ev.type = "block_delta"
  <2>1. PICK r : r = [Anthropic!Record("content_block_delta") EXCEPT
                         !.index = ev.block, !.kind = Anthropic!blockType(e, ev.block)]
    OBVIOUS
  <2>2. x.out = <<r>>
    BY <1>2, <2>1 DEF Anthropic!Encode, Anthropic!Encoded
  <2>3. r.type = "content_block_delta" /\ r.index = ev.block
    BY <2>1 DEF Anthropic!Record
  <2>4. QED
    BY <1>2, <2>2, <2>3
<1>3. CASE ev.type = "block_stop"
  <2>1. PICK r : r = [Anthropic!Record("content_block_stop") EXCEPT !.index = ev.block]
    OBVIOUS
  <2>2. x.out = <<r>>
    BY <1>3, <2>1 DEF Anthropic!Encode, Anthropic!Encoded
  <2>3. r.type = "content_block_stop" /\ r.index = ev.block
    BY <2>1 DEF Anthropic!Record
  <2>4. QED
    BY <1>3, <2>2, <2>3
<1>4. CASE ev.type = "message_delta"
  <2>1. PICK r : r = [Anthropic!Record("message_delta") EXCEPT
                         !.stop = ev.stop, !.usage = Anthropic!outputOnly(ev.usage)]
    OBVIOUS
  <2>2. x.out = <<r>>
    BY <1>4, <2>1 DEF Anthropic!Encode, Anthropic!Encoded
  <2>3. r.type = "message_delta"
    BY <2>1 DEF Anthropic!Record
  <2>4. QED
    BY <1>4, <2>2, <2>3
<1>5. CASE ev.type \in {"message_start", "message_stop", "ping", "error"}
  <2>1. x.out = <<Anthropic!Record(ev.type)>>
    BY <1>5 DEF Anthropic!Encode, Anthropic!Encoded
  <2>2. Anthropic!Record(ev.type).type = ev.type
    BY DEF Anthropic!Record
  <2>3. QED
    BY <1>5, <2>1, <2>2
<1>6. QED
  BY <1>1, <1>2, <1>3, <1>4, <1>5 DEF Events

\* An event that fits is told to an Anthropic client in one record.
LEMMA AnthropicTold ==
  ASSUME client = "anthropic", NEW p, StreamOK(p), NEW ev, Fits(p, ev), NEW e, NEW v, Shown(p, e, v)
  PROVE  \E r, u : Encode(e, ev).out = <<r>> /\ u = SeeRecord(v, r) /\ Shown(Takes(p, ev), Encode(e, ev).enc, u)
<1>1. ev \in Events /\ ~p.ended
  BY DEF Fits
<1>2. PICK x : x = Encode(e, ev)
  OBVIOUS
<1>3. PICK r : /\ x.out = <<r>>
               /\ r.type = IF ev.type = "block_start" THEN "content_block_start"
                           ELSE IF ev.type = "block_delta" THEN "content_block_delta"
                           ELSE IF ev.type = "block_stop" THEN "content_block_stop" ELSE ev.type
               /\ ev.type \in {"block_start", "block_delta", "block_stop"} => r.index = ev.block
  <2>1. x = Anthropic!Encode(e, ev)
    BY <1>2 DEF Encode
  <2>2. QED
    BY <1>1, <2>1, AnthropicEncoded
<1>4. PICK u : u = SeeRecord(v, r) /\ SeenBlocks(v, r, u)
  <2>1. PICK u : u = SeeRecord(v, r)
    OBVIOUS
  <2>2. u = SeeAnthropic(v, r) /\ ViewOK(v) /\ ~v.broken
    BY <2>1 DEF SeeRecord, Shown
  <2>3. QED
    BY <2>1, <2>2, AnthropicSeen
<1>5. PICK q : q = Takes(p, ev)
  OBVIOUS
<1>6. /\ (ev.type = "message_start" => q.begun = TRUE) /\ (ev.type # "message_start" => q.begun = p.begun)
      /\ (ev.type = "message_stop" => q.ended = TRUE) /\ (ev.type # "message_stop" => q.ended = p.ended)
  BY <1>5, TakesIs
<1>7. /\ q.kind = KindThen(p, ev) /\ q.open = OpenThen(p, ev)
      /\ (Visible(ev) => q.deltas = p.deltas + 1) /\ (~Visible(ev) => q.deltas = p.deltas)
  <2>1. /\ q.kind = KindThen(p, ev) /\ q.open = OpenThen(p, ev)
        /\ q.deltas = p.deltas + (IF Visible(ev) THEN 1 ELSE 0)
    BY <1>5, TakesFields
  <2>2. p.deltas \in Nat
    BY DEF StreamOK
  <2>3. QED
    BY <2>1, <2>2
<1>8. /\ ViewOK(v) /\ v.begun = p.begun /\ v.deltas = p.deltas /\ v.ended = p.ended /\ ~v.broken
      /\ v.open = p.open /\ v.done = DOMAIN p.kind \ p.open
  BY DEF Shown, ShownBlocks
<1>9. p.deltas \in Nat /\ p.open \subseteq DOMAIN p.kind
  BY DEF StreamOK
<1>10. /\ ViewOK(u) /\ u.begun = q.begun /\ u.deltas = q.deltas /\ u.ended = q.ended /\ ~u.broken
       /\ u.open = q.open /\ u.done = DOMAIN q.kind \ q.open
  <2>1. CASE ev.type = "message_start"
    <3>1. r.type = "message_start" /\ ~p.begun /\ ~Visible(ev) /\ q.kind = p.kind /\ q.open = p.open
      BY <1>3, <1>7, <2>1 DEF Fits, Visible, KindThen, OpenThen
    <3>2. QED
      BY <1>4, <1>6, <1>7, <1>8, <1>9, <2>1, <3>1 DEF SeenBlocks
  <2>2. CASE ev.type = "block_start"
    <3>1. r.type = "content_block_start" /\ r.index = ev.block /\ p.begun /\ ~Visible(ev) /\ ev.block \notin DOMAIN p.kind
      BY <1>3, <2>2 DEF Fits, Visible
    <3>2. q.kind = KindsWith(p.kind, ev.block, ev.kind) /\ q.open = p.open \cup {ev.block}
      BY <1>7, <2>2 DEF KindThen, OpenThen
    <3>3. DOMAIN q.kind = DOMAIN p.kind \cup {ev.block}
      BY <3>2 DEF KindsWith
    <3>4. /\ ViewOK(u) /\ u.begun = v.begun /\ u.deltas = v.deltas /\ u.open = v.open \cup {r.index}
          /\ u.done = v.done /\ u.ended = v.ended
          /\ (v.begun /\ r.index \notin v.open \cup v.done => ~u.broken)
      BY <1>4, <1>8, <3>1 DEF SeenBlocks
    <3>5. u.begun = q.begun /\ u.deltas = q.deltas /\ u.ended = q.ended
      BY <1>6, <1>7, <1>8, <1>9, <2>2, <3>1, <3>4
    <3>6. u.open = q.open /\ u.done = DOMAIN q.kind \ q.open
      BY <1>8, <1>9, <3>1, <3>2, <3>3, <3>4
    <3>7. ~u.broken
      BY <1>8, <1>9, <3>1, <3>4
    <3>8. QED
      BY <3>4, <3>5, <3>6, <3>7
  <2>3. CASE ev.type = "block_delta"
    <3>1. r.type = "content_block_delta" /\ r.index \in p.open /\ Visible(ev) /\ q.kind = p.kind /\ q.open = p.open
      BY <1>3, <1>7, <2>3 DEF Fits, Visible, KindThen, OpenThen
    <3>2. QED
      BY <1>4, <1>6, <1>7, <1>8, <1>9, <2>3, <3>1 DEF SeenBlocks
  <2>4. CASE ev.type = "block_stop"
    <3>1. /\ r.type = "content_block_stop" /\ r.index \in p.open /\ ~Visible(ev) /\ q.kind = p.kind
          /\ q.open = p.open \ {r.index}
      BY <1>3, <1>7, <2>4 DEF Fits, Visible, KindThen, OpenThen
    <3>2. /\ ViewOK(u) /\ u.begun = v.begun /\ u.deltas = v.deltas /\ u.open = v.open \ {r.index}
          /\ u.done = v.done \cup {r.index} /\ u.ended = v.ended /\ ~u.broken
      BY <1>4, <1>8, <3>1 DEF SeenBlocks
    <3>3. u.open = q.open /\ u.done = DOMAIN q.kind \ q.open
      BY <1>8, <1>9, <3>1, <3>2
    <3>4. QED
      BY <1>6, <1>7, <1>8, <1>9, <2>4, <3>1, <3>2, <3>3
  <2>5. CASE ev.type = "message_delta"
    <3>1. r.type = "message_delta" /\ p.begun /\ ~Visible(ev) /\ q.kind = p.kind /\ q.open = p.open
      BY <1>3, <1>7, <2>5 DEF Fits, Visible, KindThen, OpenThen
    <3>2. QED
      BY <1>4, <1>6, <1>7, <1>8, <1>9, <2>5, <3>1 DEF SeenBlocks
  <2>6. CASE ev.type = "message_stop"
    <3>1. r.type = "message_stop" /\ p.open = {} /\ ~Visible(ev) /\ q.kind = p.kind /\ q.open = p.open
      BY <1>3, <1>7, <2>6 DEF Fits, Visible, KindThen, OpenThen
    <3>2. QED
      BY <1>1, <1>4, <1>6, <1>7, <1>8, <1>9, <2>6, <3>1 DEF SeenBlocks
  <2>7. CASE ev.type \in {"ping", "error"}
    <3>1. r.type = ev.type /\ ~Visible(ev) /\ q.kind = p.kind /\ q.open = p.open
      BY <1>3, <1>7, <2>7 DEF Visible, KindThen, OpenThen
    <3>2. u = v
      BY <1>4, <1>8, <2>7, <3>1 DEF SeenBlocks
    <3>3. q.begun = p.begun /\ q.ended = p.ended /\ q.deltas = p.deltas
      BY <1>6, <1>7, <1>9, <2>7, <3>1
    <3>4. QED
      BY <1>8, <3>1, <3>2, <3>3
  <2>8. QED
    BY <1>1, <2>1, <2>2, <2>3, <2>4, <2>5, <2>6, <2>7 DEF Events
<1>11. Shown(q, x.enc, u)
  BY <1>10 DEF Shown, ShownBlocks
<1>12. QED
  BY <1>2, <1>3, <1>4, <1>5, <1>11

\* The calls of a chunk that a client sees: none, or one.
LEMMA SeeToolsIs ==
  ASSUME NEW v, NEW a
  PROVE  SeeTools(v, <<>>) = v /\ SeeTools(v, <<a>>) = SeeTool(v, a)
<1>1. SeeTools(v, <<>>) = v
  <2> DEFINE Goes1(f) == f = [k \in 0 .. 0 |-> IF k = 0 THEN v ELSE SeeTool(f[k - 1], <<>>[k])]
             g == CHOOSE f : Goes1(f)
             h == [k \in 0 .. 0 |-> v]
  <2>1. Goes1(h)
    OBVIOUS
  <2>2. Goes1(g)
    BY <2>1
  <2>3. Len(<<>>) = 0
    OBVIOUS
  <2>4. SeeTools(v, <<>>) = g[0]
    BY <2>3 DEF SeeTools
  <2>. HIDE DEF g
  <2>5. g[0] = v
    BY <2>2
  <2>6. QED
    BY <2>4, <2>5
<1>2. SeeTools(v, <<a>>) = SeeTool(v, a)
  <2> DEFINE c == <<a>>
             x == SeeTool(v, a)
             step(y, k) == SeeTool(y, c[k])
             Goes1(f) == f = [k \in 0 .. 1 |-> IF k = 0 THEN v ELSE step(f[k - 1], k)]
             g == CHOOSE f : Goes1(f)
             h == [k \in 0 .. 1 |-> IF k = 0 THEN v ELSE x]
  <2>1. Len(c) = 1 /\ c[1] = a
    OBVIOUS
  <2>2. step(v, 1) = x
    BY <2>1
  <2>3. SeeTools(v, c) = g[1]
    BY <2>1 DEF SeeTools
  <2>. HIDE DEF x, step
  <2>4. Goes1(h)
    <3>1. \A k \in 0 .. 1 : h[k] = IF k = 0 THEN v ELSE step(h[k - 1], k)
      BY <2>2
    <3>2. QED
      BY <3>1
  <2>5. Goes1(g)
    BY <2>4
  <2>. HIDE DEF g
  <2>6. g[0] = v /\ g[1] = step(g[0], 1)
    BY <2>5
  <2>7. QED
    BY <2>2, <2>3, <2>6 DEF x
<1>3. QED
  BY <1>1, <1>2

\* A chunk as an encoder writes it.
ChunkOK(r) == /\ r.type = "chunk" /\ r.text \in BOOLEAN /\ r.role \in BOOLEAN /\ r.finish \in BOOLEAN

\* What an OpenAI client sees in a chunk without calls,
SeenChunk(v, r, u) ==
  /\ ViewOK(u) /\ u.begun = TRUE /\ u.deltas = v.deltas + (IF r.text THEN 1 ELSE 0)
  /\ u.tools = v.tools /\ u.ended = v.ended /\ ~u.broken
  /\ u.usage = IF r.usage = None THEN v.usage ELSE r.usage

\* And it sees that,
LEMMA ChunkSeen ==
  ASSUME NEW v, ViewOK(v), ~v.broken, ~v.ended, NEW r, ChunkOK(r), r.tools = <<>>,
         v.begun \/ r.role, r.usage = None \/ v.usage = None, NEW u, u = SeeOpenAI(v, r)
  PROVE  SeenChunk(v, r, u)
<1> DEFINE n == v.deltas + (IF r.text THEN 1 ELSE 0)
<1>1. PICK w : w = [v EXCEPT !.begun = TRUE, !.deltas = n]
  OBVIOUS
<1>2. SeeTools(w, r.tools) = w
  BY SeeToolsIs
<1>3. u = Broken([w EXCEPT !.finished = @ \/ r.finish, !.usage = IF r.usage = None THEN @ ELSE r.usage],
                 v.ended \/ (~v.begun /\ ~r.role) \/ (r.usage # None /\ v.usage # None))
  BY <1>1, <1>2 DEF SeeOpenAI, ChunkOK
<1>. HIDE DEF n
<1>4. w = [begun |-> TRUE, deltas |-> n, tools |-> v.tools, open |-> v.open, done |-> v.done,
           finished |-> v.finished, ended |-> v.ended, usage |-> v.usage, broken |-> v.broken]
  BY <1>1 DEF ViewOK
<1>5. u = [w EXCEPT !.finished = w.finished \/ r.finish, !.usage = IF r.usage = None THEN w.usage ELSE r.usage,
                    !.broken = w.broken \/ (v.ended \/ (~v.begun /\ ~r.role) \/ (r.usage # None /\ v.usage # None))]
  BY <1>3, <1>4 DEF Broken
<1>6. QED
  BY <1>4, <1>5 DEF n, ViewOK, SeenChunk

\* in one with a call that has its turn or its place,
SeenCall(v, a, u) ==
  /\ ViewOK(u) /\ u.begun = TRUE /\ u.usage = v.usage /\ u.ended = v.ended /\ ~u.broken
  /\ a.id => u.tools = v.tools + 1 /\ u.deltas = v.deltas
  /\ ~a.id => u.tools = v.tools /\ u.deltas = v.deltas + 1

\* a call or its arguments,
LEMMA CallSeen ==
  ASSUME NEW v, ViewOK(v), ~v.broken, ~v.ended, v.begun = TRUE, NEW r, ChunkOK(r), ~r.text, r.usage = None,
         NEW a, r.tools = <<a>>, a.id => a.index = v.tools, ~a.id => ~(a.index >= v.tools),
         v.deltas \in Nat, NEW u, u = SeeOpenAI(v, r)
  PROVE  SeenCall(v, a, u)
<1>1. PICK w : w = [v EXCEPT !.begun = TRUE, !.deltas = v.deltas + 0]
  OBVIOUS
<1>2. w = v
  <2>1. v.deltas + 0 = v.deltas
    OBVIOUS
  <2>2. w = [v EXCEPT !.begun = v.begun, !.deltas = v.deltas]
    BY <1>1, <2>1
  <2>3. QED
    BY <2>2 DEF ViewOK
<1>3. SeeTools(w, r.tools) = SeeTool(v, a)
  BY <1>2, SeeToolsIs
<1>4. PICK x : x = SeeTool(v, a)
  OBVIOUS
<1>5. u = Broken([x EXCEPT !.finished = @ \/ r.finish, !.usage = IF r.usage = None THEN @ ELSE r.usage],
                 v.ended \/ (~v.begun /\ ~r.role) \/ (r.usage # None /\ v.usage # None))
  BY <1>1, <1>3, <1>4 DEF SeeOpenAI, ChunkOK
<1>6. /\ ViewOK(x) /\ x.begun = TRUE /\ x.usage = v.usage /\ x.ended = v.ended /\ ~x.broken
      /\ a.id => x.tools = v.tools + 1 /\ x.deltas = v.deltas
      /\ ~a.id => x.tools = v.tools /\ x.deltas = v.deltas + 1
  <2>1. CASE a.id
    <3>1. x = Broken([v EXCEPT !.tools = @ + 1], a.index # v.tools)
      BY <1>4, <2>1 DEF SeeTool
    <3>2. QED
      BY <2>1, <3>1 DEF Broken, ViewOK
  <2>2. CASE ~a.id
    <3>1. x = Broken([v EXCEPT !.deltas = @ + 1], a.index >= v.tools)
      BY <1>4, <2>2 DEF SeeTool
    <3>2. QED
      BY <2>2, <3>1 DEF Broken, ViewOK
  <2>3. QED
    BY <2>1, <2>2
<1>7. u = [x EXCEPT !.finished = x.finished \/ r.finish, !.usage = x.usage,
                    !.broken = x.broken \/ (v.ended \/ (~v.begun /\ ~r.role) \/ (r.usage # None /\ v.usage # None))]
  BY <1>5, <1>6 DEF Broken, ViewOK
<1>8. QED
  BY <1>6, <1>7 DEF ViewOK, SeenCall

\* and at the end.
SeenEnd(v, r, u) ==
  /\ r.type = "done" => /\ ViewOK(u) /\ u.begun = v.begun /\ u.deltas = v.deltas /\ u.tools = v.tools
                        /\ u.usage = v.usage /\ u.ended = TRUE /\ ~u.broken
  /\ r.type = "error" => /\ ViewOK(u) /\ u.begun = v.begun /\ u.deltas = v.deltas /\ u.tools = v.tools
                         /\ u.usage = v.usage /\ u.ended = v.ended /\ ~u.broken

\* and the end, or an error.
LEMMA EndSeen ==
  ASSUME NEW v, ViewOK(v), ~v.broken, ~v.ended, NEW r, NEW u, u = SeeOpenAI(v, r)
  PROVE  SeenEnd(v, r, u)
<1>1. CASE r.type = "done"
  <2>1. u = Broken([v EXCEPT !.ended = TRUE], v.ended)
    BY <1>1 DEF SeeOpenAI
  <2>2. QED
    BY <1>1, <2>1 DEF Broken, ViewOK, SeenEnd
<1>2. CASE r.type = "error"
  <2>1. u = Broken(v, v.ended)
    BY <1>2 DEF SeeOpenAI
  <2>2. QED
    BY <1>2, <2>1 DEF Broken, ViewOK, SeenEnd
<1>3. QED
  BY <1>1, <1>2 DEF SeenEnd

\* The usage of the encoder.
LEMMA mergeUsageIs ==
  ASSUME NEW e, e = [usage |-> e.usage, usageSent |-> e.usageSent, toolIndex |-> e.toolIndex, nextTool |-> e.nextTool],
         NEW x
  PROVE  OpenAI!mergeUsage(e, x) = [usage |-> IF x = None THEN e.usage ELSE Merged(e.usage, x),
                                    usageSent |-> e.usageSent, toolIndex |-> e.toolIndex, nextTool |-> e.nextTool]
<1>1. CASE x = None
  BY <1>1 DEF OpenAI!mergeUsage
<1>2. CASE x # None
  <2>1. OpenAI!mergeUsage(e, x) = [e EXCEPT !.usage = Merged(e.usage, x)]
    BY <1>2 DEF OpenAI!mergeUsage, Merged
  <2>2. PICK y : y = Merged(e.usage, x)
    OBVIOUS
  <2>3. [e EXCEPT !.usage = y] = [usage |-> y, usageSent |-> e.usageSent, toolIndex |-> e.toolIndex, nextTool |-> e.nextTool]
    OBVIOUS
  <2>4. QED
    BY <1>2, <2>1, <2>2, <2>3
<1>3. QED
  BY <1>1, <1>2

\* What an OpenAI client is told of the beginning of a message,
LEMMA StartTold ==
  ASSUME client = "openai", NEW p, StreamOK(p), NEW ev, Fits(p, ev), ev.type = "message_start",
         NEW e, NEW v, Shown(p, e, v)
  PROVE  \E r, u : Encode(e, ev).out = <<r>> /\ u = SeeRecord(v, r) /\ Shown(Takes(p, ev), Encode(e, ev).enc, u)
<1>1. PICK q : q = Takes(p, ev)
  OBVIOUS
<1>2. q.begun = TRUE /\ q.ended = p.ended /\ q.sent = p.sent /\ q.kind = p.kind /\ q.deltas = p.deltas
      /\ q.usage = UsageThen(p, ev) /\ q.told = p.told
  <2>1. ~Reports(ev) /\ ~Visible(ev) /\ p.deltas \in Nat
    BY DEF Reports, Visible, StreamOK
  <2>2. q.begun = TRUE /\ q.ended = p.ended /\ q.sent = p.sent
    BY <1>1, <2>1, TakesIs
  <2>3. /\ q.kind = KindThen(p, ev) /\ q.deltas = p.deltas + (IF Visible(ev) THEN 1 ELSE 0)
        /\ q.usage = UsageThen(p, ev)
        /\ q.told = IF Reports(ev) /\ ~p.sent THEN OpenAI!wireUsageFromCanonical(UsageThen(p, ev)) ELSE p.told
    BY <1>1, TakesFields
  <2>4. QED
    BY <2>1, <2>2, <2>3 DEF KindThen
<1>3. /\ ViewOK(v) /\ v.begun = p.begun /\ v.deltas = p.deltas /\ v.ended = p.ended /\ ~v.broken
      /\ ShownCalls(p, e, v) /\ ~p.ended /\ p.deltas \in Nat
  BY DEF Shown, Fits, StreamOK
<1>4. PICK r : r = [OpenAI!Chunk EXCEPT !.role = TRUE]
  OBVIOUS
<1>5. Encode(e, ev) = OpenAI!Encoded(OpenAI!mergeUsage(e, ev.usage), <<r>>)
  BY <1>4 DEF Encode, OpenAI!Encode
<1>6. PICK x : x = Encode(e, ev)
  OBVIOUS
<1>7. x.out = <<r>> /\ x.enc = OpenAI!mergeUsage(e, ev.usage)
  BY <1>5, <1>6 DEF OpenAI!Encoded
<1>8. x.enc = [usage |-> q.usage, usageSent |-> e.usageSent, toolIndex |-> e.toolIndex, nextTool |-> e.nextTool]
  BY <1>2, <1>3, <1>7, mergeUsageIs DEF ShownCalls, UsageThen
<1>9. PICK u : u = SeeRecord(v, r)
  OBVIOUS
<1>10. /\ ViewOK(u) /\ u.begun = TRUE /\ u.deltas = v.deltas /\ u.tools = v.tools /\ u.ended = v.ended /\ ~u.broken
       /\ u.usage = v.usage
  <2>1. ChunkOK(r) /\ r.tools = <<>> /\ r.role /\ r.usage = None /\ r.text = FALSE
    BY <1>4 DEF OpenAI!Chunk, ChunkOK
  <2>2. u = SeeOpenAI(v, r)
    BY <1>9 DEF SeeRecord
  <2>5. ViewOK(v) /\ ~v.broken /\ ~v.ended /\ (v.begun \/ r.role) /\ (r.usage = None \/ v.usage = None)
    BY <1>3, <2>1
  <2>3. SeenChunk(v, r, u)
    BY <2>1, <2>2, <2>5, ChunkSeen
  <2>4. QED
    BY <1>3, <2>1, <2>3 DEF SeenChunk
<1>11. ShownCalls(q, x.enc, u)
  BY <1>2, <1>3, <1>8, <1>10 DEF ShownCalls
<1>12. Shown(q, x.enc, u)
  BY <1>2, <1>3, <1>10, <1>11 DEF Shown
<1>13. QED
  BY <1>1, <1>6, <1>7, <1>9, <1>12

\* of its calls,
SeesCall(v, x, f, id) == \E r, u, a : /\ x.enc = f /\ x.out = <<r>> /\ u = SeeRecord(v, r)
                                     /\ a.id = id /\ SeenCall(v, a, u)

\* a client sees the chunk that the encoder makes for it.
LEMMA toolChunkSeen ==
  ASSUME client = "openai", NEW e, NEW b, NEW id \in BOOLEAN, NEW args,
         NEW f, f = OpenAI!assignToolIndex(e, b),
         NEW v, ViewOK(v), ~v.broken, ~v.ended, v.begun = TRUE, v.deltas \in Nat,
         id => f.toolIndex[b] = v.tools, ~id => ~(f.toolIndex[b] >= v.tools),
         NEW x, x = OpenAI!toolChunk(e, b, id, args)
  PROVE  SeesCall(v, x, f, id)
<1>1. PICK a : a = OpenAI!ToolCall(f.toolIndex[b], id, args)
  OBVIOUS
<1>2. a.index = f.toolIndex[b] /\ a.id = id
  BY <1>1 DEF OpenAI!ToolCall
<1>3. PICK r : r = [OpenAI!Chunk EXCEPT !.tools = <<a>>]
  OBVIOUS
<1>4. ChunkOK(r) /\ ~r.text /\ r.usage = None /\ r.tools = <<a>>
  BY <1>3 DEF ChunkOK, OpenAI!Chunk
<1>5. x.enc = f /\ x.out = <<r>>
  BY <1>1, <1>3 DEF OpenAI!toolChunk, OpenAI!Encoded
<1>6. PICK u : u = SeeRecord(v, r)
  OBVIOUS
<1>7. u = SeeOpenAI(v, r)
  BY <1>6 DEF SeeRecord
<1>8. (a.id => a.index = v.tools) /\ (~a.id => ~(a.index >= v.tools))
  BY <1>2
<1>9. SeenCall(v, a, u)
  BY <1>4, <1>7, <1>8, CallSeen
<1>10. QED
  BY <1>2, <1>5, <1>6, <1>9 DEF SeesCall

\* A client is told of an event: whatever is written for it, it sees what the event came to.
Tells(p, ev, e, v) ==
  LET x == Encode(e, ev)
  IN \E R : x.out \in Seq(R) /\ \E u : Watched(v, x.out, u) /\ Shown(Takes(p, ev), x.enc, u)

\* By nothing at all,
LEMMA TellsNothing ==
  ASSUME NEW p, NEW ev, NEW e, NEW v, ~v.broken, NEW x, x = Encode(e, ev), x.out = <<>>, Shown(Takes(p, ev), x.enc, v)
  PROVE  Tells(p, ev, e, v)
<1>1. x.out \in Seq(Nat)
  OBVIOUS
<1>2. Watched(v, x.out, v)
  BY WatchedNothing
<1>3. QED
  BY <1>1, <1>2 DEF Tells

\* or by one record.
LEMMA TellsOne ==
  ASSUME NEW p, NEW ev, NEW e, NEW v, ~v.broken, NEW x, x = Encode(e, ev), NEW r, x.out = <<r>>,
         NEW u, u = SeeRecord(v, r), Shown(Takes(p, ev), x.enc, u)
  PROVE  Tells(p, ev, e, v)
<1>1. x.out \in Seq({r})
  OBVIOUS
<1>2. ~u.broken
  BY DEF Shown
<1>3. Watched(v, <<r>>, u)
  BY <1>2, WatchedOne
<1>4. Watched(v, x.out, u)
  BY <1>3
<1>5. QED
  BY <1>1, <1>4 DEF Tells

\* Blocks without calls, and calls.
LEMMA StopTold ==
  ASSUME client = "openai", NEW p, StreamOK(p), NEW ev, Fits(p, ev), NEW e, NEW v, Shown(p, e, v),
         \/ ev.type \in {"block_stop", "ping"}
         \/ ev.type = "block_start" /\ ev.kind # "tool_use"
         \/ ev.type = "block_delta" /\ ev.delta \notin {"tool_use", "text"}
  PROVE  Tells(p, ev, e, v)
<1>1. PICK x : x = Encode(e, ev)
  OBVIOUS
<1>2. x.enc = e /\ x.out = <<>>
  <2>1. x = OpenAI!Encoded(e, <<>>)
    BY <1>1 DEF Encode, OpenAI!Encode
  <2>2. QED
    BY <2>1 DEF OpenAI!Encoded
<1>3. PICK q : q = Takes(p, ev)
  OBVIOUS
<1>4. ev \in Events /\ ~p.ended
  BY DEF Fits
<1>5. ~Visible(ev) /\ ~Reports(ev) /\ ev.usage = None
  <2>1. ev.type = "block_delta" => ev.delta \in Kinds /\ ev.delta = "thinking"
    <3>1. ev.type = "block_delta" => ev.delta = p.kind[ev.block] /\ ev.block \in DOMAIN p.kind
      BY DEF Fits, StreamOK
    <3>2. \A b \in DOMAIN p.kind : p.kind[b] \in Kinds
      BY DEF StreamOK
    <3>3. QED
      BY <3>1, <3>2 DEF Kinds
  <2>2. ev.usage = None
    BY DEF Fits
  <2>3. QED
    BY <2>1, <2>2 DEF Visible, Reports
<1>6. /\ q.begun = p.begun /\ q.ended = p.ended /\ q.sent = p.sent /\ q.usage = p.usage /\ q.told = p.told
      /\ q.deltas = p.deltas
  <2>1. q.begun = p.begun /\ q.ended = p.ended /\ q.sent = p.sent
    BY <1>3, <1>5, TakesIs
  <2>2. /\ q.deltas = p.deltas + (IF Visible(ev) THEN 1 ELSE 0) /\ q.usage = UsageThen(p, ev)
        /\ q.told = IF Reports(ev) /\ ~p.sent THEN OpenAI!wireUsageFromCanonical(UsageThen(p, ev)) ELSE p.told
    BY <1>3, TakesFields
  <2>3. p.deltas \in Nat
    BY DEF StreamOK
  <2>4. QED
    BY <1>5, <2>1, <2>2, <2>3 DEF UsageThen
<1>7. { b \in DOMAIN q.kind : q.kind[b] = "tool_use" } = { b \in DOMAIN p.kind : p.kind[b] = "tool_use" }
  <2>1. q.kind = KindThen(p, ev)
    BY <1>3, TakesFields
  <2>2. CASE ev.type # "block_start"
    BY <2>1, <2>2 DEF KindThen
  <2>3. CASE ev.type = "block_start"
    <3>1. q.kind = KindsWith(p.kind, ev.block, ev.kind) /\ ev.block \notin DOMAIN p.kind /\ ev.kind # "tool_use"
      BY <2>1, <2>3 DEF KindThen, Fits
    <3>2. QED
      BY <3>1 DEF KindsWith
  <2>4. QED
    BY <2>2, <2>3
<1>8. Shown(q, e, v)
  <2>1. ShownCalls(q, e, v)
    BY <1>6, <1>7 DEF Shown, ShownCalls
  <2>2. QED
    BY <1>6, <2>1 DEF Shown
<1>9. ~v.broken
  BY DEF Shown
<1>10. QED
  BY <1>1, <1>2, <1>3, <1>8, <1>9, TellsNothing

\* An OpenAI client is told of text,
LEMMA TextTold ==
  ASSUME client = "openai", NEW p, StreamOK(p), NEW ev, Fits(p, ev), NEW e, NEW v, Shown(p, e, v),
         ev.type = "block_delta", ev.delta = "text"
  PROVE  Tells(p, ev, e, v)
<1>1. PICK x : x = Encode(e, ev)
  OBVIOUS
<1>2. PICK r : r = [OpenAI!Chunk EXCEPT !.text = TRUE]
  OBVIOUS
<1>3. x.enc = e /\ x.out = <<r>>
  <2>1. x = OpenAI!Encoded(e, <<r>>)
    BY <1>1, <1>2 DEF Encode, OpenAI!Encode
  <2>2. QED
    BY <2>1 DEF OpenAI!Encoded
<1>4. PICK q : q = Takes(p, ev)
  OBVIOUS
<1>5. Visible(ev) /\ ~Reports(ev) /\ ev.usage = None /\ p.begun = TRUE /\ ~p.ended
  <2>1. ev.block \in DOMAIN p.kind /\ p.begun \in BOOLEAN
    BY DEF Fits, StreamOK
  <2>2. p.begun
    BY <2>1 DEF StreamOK
  <2>3. p.begun = TRUE
    BY <2>1, <2>2, Zenon
  <2>4. QED
    BY <2>3 DEF Visible, Reports, Fits
<1>6. /\ q.begun = p.begun /\ q.ended = p.ended /\ q.sent = p.sent /\ q.usage = p.usage /\ q.told = p.told
      /\ q.deltas = p.deltas + 1 /\ q.kind = p.kind
  <2>1. q.begun = p.begun /\ q.ended = p.ended /\ q.sent = p.sent
    BY <1>4, <1>5, TakesIs
  <2>2. /\ q.deltas = p.deltas + (IF Visible(ev) THEN 1 ELSE 0) /\ q.usage = UsageThen(p, ev)
        /\ q.told = IF Reports(ev) /\ ~p.sent THEN OpenAI!wireUsageFromCanonical(UsageThen(p, ev)) ELSE p.told
        /\ q.kind = KindThen(p, ev)
    BY <1>4, TakesFields
  <2>3. QED
    BY <1>5, <2>1, <2>2 DEF UsageThen, KindThen
<1>7. PICK u : u = SeeRecord(v, r)
  OBVIOUS
<1>8. SeenChunk(v, r, u)
  <2>1. ChunkOK(r) /\ r.tools = <<>> /\ r.usage = None
    BY <1>2 DEF OpenAI!Chunk, ChunkOK
  <2>2. u = SeeOpenAI(v, r)
    BY <1>7 DEF SeeRecord
  <2>3. ViewOK(v) /\ ~v.broken /\ ~v.ended /\ (v.begun \/ r.role) /\ (r.usage = None \/ v.usage = None)
    BY <1>5, <2>1 DEF Shown
  <2>4. QED
    BY <2>1, <2>2, <2>3, ChunkSeen
<1>9. r.text = TRUE /\ r.usage = None
  BY <1>2 DEF OpenAI!Chunk
<1>10. ViewOK(v) /\ v.begun = p.begun /\ v.deltas = p.deltas /\ v.ended = p.ended /\ ~v.broken /\ ShownCalls(p, e, v)
  BY DEF Shown
<1>11. /\ ViewOK(u) /\ u.begun = q.begun /\ u.deltas = q.deltas /\ u.ended = q.ended /\ ~u.broken
       /\ u.tools = v.tools /\ u.usage = v.usage
  BY <1>5, <1>6, <1>8, <1>9, <1>10 DEF SeenChunk
<1>12. ShownCalls(q, e, u)
  BY <1>6, <1>10, <1>11 DEF ShownCalls
<1>13. Shown(q, e, u)
  BY <1>11, <1>12 DEF Shown
<1>14. QED
  BY <1>1, <1>3, <1>4, <1>7, <1>10, <1>13, TellsOne

\* The place of a call: a new one behind the others, or the one it has.
LEMMA assignToolIndexIs ==
  ASSUME NEW e, NEW b,
         e = [usage |-> e.usage, usageSent |-> e.usageSent, toolIndex |-> e.toolIndex, nextTool |-> e.nextTool],
         NEW f, f = OpenAI!assignToolIndex(e, b)
  PROVE  /\ b \in DOMAIN e.toolIndex => f = e
         /\ b \notin DOMAIN e.toolIndex =>
              f = [usage |-> e.usage, usageSent |-> e.usageSent, toolIndex |-> KindsWith(e.toolIndex, b, e.nextTool),
                   nextTool |-> e.nextTool + 1]
<1>1. CASE b \in DOMAIN e.toolIndex
  BY <1>1 DEF OpenAI!assignToolIndex
<1>2. CASE b \notin DOMAIN e.toolIndex
  <2>1. f = [e EXCEPT !.toolIndex = KindsWith(e.toolIndex, b, e.nextTool), !.nextTool = @ + 1]
    BY <1>2 DEF OpenAI!assignToolIndex, KindsWith
  <2>2. PICK g, n : g = KindsWith(e.toolIndex, b, e.nextTool) /\ n = e.nextTool + 1
    OBVIOUS
  <2>3. f = [e EXCEPT !.toolIndex = g, !.nextTool = n]
    BY <2>1, <2>2
  <2>4. f = [usage |-> e.usage, usageSent |-> e.usageSent, toolIndex |-> g, nextTool |-> n]
    BY <2>3
  <2>5. QED
    BY <1>2, <2>2, <2>4
<1>3. QED
  BY <1>1, <1>2

\* of a call and its arguments,
LEMMA CallTold ==
  ASSUME client = "openai", NEW p, StreamOK(p), NEW ev, Fits(p, ev), NEW e, NEW v, Shown(p, e, v),
         \/ ev.type = "block_start" /\ ev.kind = "tool_use"
         \/ ev.type = "block_delta" /\ ev.delta = "tool_use"
  PROVE  Tells(p, ev, e, v)
<1>1. PICK x : x = Encode(e, ev)
  OBVIOUS
<1> DEFINE b == ev.block
<1>2. \E id \in BOOLEAN : /\ (id <=> ev.type = "block_start") /\ (~id <=> ev.type = "block_delta")
                         /\ \E args : x = OpenAI!toolChunk(e, b, id, args)
  <2>1. CASE ev.type = "block_start"
    <3>1. x = OpenAI!toolChunk(e, b, TRUE, FALSE)
      BY <1>1, <2>1 DEF Encode, OpenAI!Encode
    <3>2. (TRUE <=> ev.type = "block_start") /\ (~TRUE <=> ev.type = "block_delta")
      BY <2>1
    <3>3. QED
      BY <3>1, <3>2, Zenon
  <2>2. CASE ev.type = "block_delta"
    <3>1. x = OpenAI!toolChunk(e, b, FALSE, TRUE)
      BY <1>1, <2>2 DEF Encode, OpenAI!Encode
    <3>2. (FALSE <=> ev.type = "block_start") /\ (~FALSE <=> ev.type = "block_delta")
      BY <2>2
    <3>3. QED
      BY <3>1, <3>2, Zenon
  <2>3. QED
    BY <2>1, <2>2
<1>3. PICK id \in BOOLEAN : /\ (id <=> ev.type = "block_start") /\ (~id <=> ev.type = "block_delta")
                           /\ \E args : x = OpenAI!toolChunk(e, b, id, args)
  BY <1>2
<1>4. PICK f : f = OpenAI!assignToolIndex(e, b)
  OBVIOUS
<1>5. PICK q : q = Takes(p, ev)
  OBVIOUS
<1>6. ViewOK(v) /\ v.begun = p.begun /\ v.deltas = p.deltas /\ v.ended = p.ended /\ ~v.broken /\ ShownCalls(p, e, v)
  BY DEF Shown
<1>7. p.begun = TRUE /\ ~p.ended /\ p.deltas \in Nat
  <2>1. p.begun \in BOOLEAN /\ p.deltas \in Nat /\ ~p.ended
    BY DEF Fits, StreamOK
  <2>2. ev.type = "block_delta" => ev.block \in DOMAIN p.kind
    BY DEF Fits, StreamOK
  <2>3. ev.type = "block_start" => p.begun
    BY DEF Fits
  <2>4. p.begun
    BY <2>2, <2>3 DEF StreamOK
  <2>5. p.begun = TRUE
    BY <2>1, <2>4, Zenon
  <2>6. QED
    BY <2>1, <2>5
<1>8. /\ e = [usage |-> p.usage, usageSent |-> p.sent, toolIndex |-> e.toolIndex, nextTool |-> e.nextTool]
      /\ e = [usage |-> e.usage, usageSent |-> e.usageSent, toolIndex |-> e.toolIndex, nextTool |-> e.nextTool]
      /\ v.usage = p.told /\ v.tools = e.nextTool
      /\ DOMAIN e.toolIndex = { c \in DOMAIN p.kind : p.kind[c] = "tool_use" }
      /\ e.nextTool \in Nat /\ \A c \in DOMAIN e.toolIndex : e.toolIndex[c] \in Nat /\ e.toolIndex[c] < e.nextTool
  BY <1>6 DEF ShownCalls
<1>9. /\ q.begun = p.begun /\ q.ended = p.ended /\ q.sent = p.sent /\ q.usage = p.usage /\ q.told = p.told
      /\ q.kind = KindThen(p, ev) /\ (id => q.deltas = p.deltas) /\ (~id => q.deltas = p.deltas + 1)
  <2>1. (Visible(ev) <=> ~id) /\ ~Reports(ev) /\ ev.usage = None
    BY <1>3 DEF Visible, Reports, Fits
  <2>2. q.begun = p.begun /\ q.ended = p.ended /\ q.sent = p.sent
    BY <1>5, <2>1, TakesIs
  <2>3. /\ q.deltas = p.deltas + (IF Visible(ev) THEN 1 ELSE 0) /\ q.usage = UsageThen(p, ev)
        /\ q.told = IF Reports(ev) /\ ~p.sent THEN OpenAI!wireUsageFromCanonical(UsageThen(p, ev)) ELSE p.told
        /\ q.kind = KindThen(p, ev)
    BY <1>5, TakesFields
  <2>4. QED
    BY <1>7, <2>1, <2>2, <2>3 DEF UsageThen
<1>10. id => /\ f = [usage |-> e.usage, usageSent |-> e.usageSent, toolIndex |-> KindsWith(e.toolIndex, b, e.nextTool),
                     nextTool |-> e.nextTool + 1]
             /\ q.kind = KindsWith(p.kind, b, "tool_use") /\ b \notin DOMAIN p.kind
  <2>1. id => b \notin DOMAIN p.kind /\ b \notin DOMAIN e.toolIndex /\ ev.type = "block_start" /\ ev.kind = "tool_use"
    BY <1>3, <1>8 DEF Fits
  <2>2. QED
    BY <1>4, <1>8, <1>9, <2>1, assignToolIndexIs DEF KindThen
<1>11. ~id => f = e /\ q.kind = p.kind /\ b \in DOMAIN e.toolIndex
  <2>1. ~id => b \in DOMAIN p.kind /\ p.kind[b] = "tool_use" /\ ev.type = "block_delta"
    BY <1>3 DEF Fits, StreamOK
  <2>2. ~id => b \in DOMAIN e.toolIndex
    BY <1>8, <2>1
  <2>3. QED
    BY <1>4, <1>8, <1>9, <2>1, <2>2, assignToolIndexIs DEF KindThen
<1>12. (id => f.toolIndex[b] = v.tools) /\ (~id => ~(f.toolIndex[b] >= v.tools))
  <2>1. id => f.toolIndex = KindsWith(e.toolIndex, b, e.nextTool)
    BY <1>10
  <2>2. KindsWith(e.toolIndex, b, e.nextTool)[b] = e.nextTool
    BY DEF KindsWith
  <2>3. id => f.toolIndex[b] = v.tools
    BY <1>8, <2>1, <2>2
  <2>4. ASSUME ~id PROVE ~(f.toolIndex[b] >= v.tools)
    BY <1>8, <1>11, <2>4
  <2>5. QED
    BY <2>3, <2>4
<1>13. SeesCall(v, x, f, id)
  <2>1. ViewOK(v) /\ ~v.broken /\ ~v.ended /\ v.begun = TRUE /\ v.deltas \in Nat
    BY <1>6, <1>7
  <2>2. QED
    BY <1>3, <1>4, <1>12, <2>1, toolChunkSeen
<1>14. PICK r, u, a : x.enc = f /\ x.out = <<r>> /\ u = SeeRecord(v, r) /\ a.id = id /\ SeenCall(v, a, u)
  BY <1>13 DEF SeesCall
<1>15. /\ ViewOK(u) /\ u.begun = q.begun /\ u.deltas = q.deltas /\ u.ended = q.ended /\ ~u.broken
       /\ u.usage = q.told /\ (id => u.tools = v.tools + 1) /\ (~id => u.tools = v.tools)
  BY <1>6, <1>7, <1>8, <1>9, <1>14 DEF SeenCall
<1>16. ShownCalls(q, f, u)
  <2>1. CASE id
    <3>1. /\ f.usage = q.usage /\ f.usageSent = q.sent /\ f.nextTool = e.nextTool + 1
          /\ f.toolIndex = KindsWith(e.toolIndex, b, e.nextTool)
          /\ f = [usage |-> f.usage, usageSent |-> f.usageSent, toolIndex |-> f.toolIndex, nextTool |-> f.nextTool]
      BY <1>8, <1>9, <1>10, <2>1
    <3>2. DOMAIN f.toolIndex = { c \in DOMAIN q.kind : q.kind[c] = "tool_use" }
      BY <1>8, <1>10, <2>1, <3>1 DEF KindsWith
    <3>3. ASSUME NEW c \in DOMAIN f.toolIndex PROVE f.toolIndex[c] \in Nat /\ f.toolIndex[c] < f.nextTool
      <4>1. CASE c = b
        BY <1>8, <2>1, <3>1, <4>1 DEF KindsWith
      <4>2. CASE c # b
        <5>1. c \in DOMAIN e.toolIndex /\ f.toolIndex[c] = e.toolIndex[c]
          BY <3>1, <3>3, <4>2 DEF KindsWith
        <5>2. QED
          BY <1>8, <3>1, <5>1
      <4>3. QED
        BY <4>1, <4>2
    <3>4. QED
      BY <1>8, <1>15, <2>1, <3>1, <3>2, <3>3 DEF ShownCalls
  <2>2. CASE ~id
    BY <1>8, <1>9, <1>11, <1>15, <2>2 DEF ShownCalls
  <2>3. QED
    BY <2>1, <2>2
<1>17. Shown(q, f, u)
  BY <1>15, <1>16 DEF Shown
<1>18. QED
  BY <1>1, <1>5, <1>6, <1>14, <1>17, TellsOne

\* The reason to stop, if there is one, changes nothing else of what an OpenAI client has seen.
Alike(u, v) == /\ ViewOK(u) /\ u.begun = v.begun /\ u.deltas = v.deltas /\ u.tools = v.tools /\ u.ended = v.ended
               /\ u.usage = v.usage /\ ~u.broken

\* It is told in a chunk of its own, or there is nothing to tell.
LEMMA FinishSeen ==
  ASSUME client = "openai", NEW v, ViewOK(v), ~v.broken, ~v.ended, v.begun = TRUE, v.deltas \in Nat,
         NEW r, r = [OpenAI!Chunk EXCEPT !.finish = TRUE], NEW out0, out0 = <<>> \/ out0 = <<r>>
  PROVE  \E u : Watched(v, out0, u) /\ Alike(u, v)
<1>1. CASE out0 = <<>>
  <2>1. Watched(v, out0, v)
    BY <1>1, WatchedNothing
  <2>2. QED
    BY <2>1 DEF Alike
<1>2. CASE out0 = <<r>>
  <2>1. PICK u : u = SeeRecord(v, r)
    OBVIOUS
  <2>2. ChunkOK(r) /\ r.tools = <<>> /\ r.usage = None /\ r.text = FALSE
    BY DEF OpenAI!Chunk, ChunkOK
  <2>3. u = SeeOpenAI(v, r) /\ (v.begun \/ r.role) /\ (r.usage = None \/ v.usage = None)
    BY <2>1, <2>2 DEF SeeRecord
  <2>4. SeenChunk(v, r, u)
    BY <2>2, <2>3, ChunkSeen
  <2>5. Alike(u, v)
    <3>1. /\ ViewOK(u) /\ u.begun = TRUE /\ u.tools = v.tools /\ u.ended = v.ended /\ ~u.broken
          /\ u.usage = v.usage
      BY <2>2, <2>4 DEF SeenChunk
    <3>2. u.deltas = v.deltas + 0
      BY <2>2, <2>4 DEF SeenChunk
    <3>3. u.deltas = v.deltas
      BY <3>2
    <3>4. QED
      BY <3>1, <3>3 DEF Alike
  <2>6. Watched(v, out0, u)
    BY <1>2, <2>1, <2>5, WatchedOne DEF Alike
  <2>7. QED
    BY <2>5, <2>6
<1>3. QED
  BY <1>1, <1>2

DeltaOut(ev, f, r, g, x, o) ==
  /\ o = <<>> \/ o = <<r>>
  /\ Reports(ev) /\ ~f.usageSent => x.out = o \o <<g>> /\ x.enc = [f EXCEPT !.usageSent = TRUE]
  /\ ~(Reports(ev) /\ ~f.usageSent) => x.out = o /\ x.enc = f

\* The encoder writes no more than that.
LEMMA encodeMessageDeltaIs ==
  ASSUME client = "openai", NEW e, NEW ev \in Events, ev.type = "message_delta", NEW x, x = Encode(e, ev),
         NEW f, f = OpenAI!mergeUsage(e, ev.usage), f.usageSent \in BOOLEAN,
         NEW r, r = [OpenAI!Chunk EXCEPT !.finish = TRUE],
         NEW g, g = [OpenAI!Chunk EXCEPT !.choice = FALSE, !.usage = OpenAI!wireUsageFromCanonical(f.usage)]
  PROVE  \E o : DeltaOut(ev, f, r, g, x, o)
<1>1. PICK o : o = IF ev.stop THEN <<r>> ELSE <<>>
  OBVIOUS
<1>2. x = IF ev.final /\ ev.usage # None /\ ~f.usageSent
          THEN OpenAI!Encoded([f EXCEPT !.usageSent = TRUE], o \o <<g>>)
          ELSE OpenAI!Encoded(f, o)
  <2>1. x = OpenAI!encodeMessageDelta(e, ev)
    BY DEF Encode, OpenAI!Encode
  <2>2. QED
    BY <1>1, <2>1 DEF OpenAI!encodeMessageDelta
<1>3. Reports(ev) <=> ev.final /\ ev.usage # None
  BY DEF Reports
<1>4. CASE Reports(ev) /\ ~f.usageSent
  <2>1. x = OpenAI!Encoded([f EXCEPT !.usageSent = TRUE], o \o <<g>>)
    BY <1>2, <1>3, <1>4
  <2>2. x.out = o \o <<g>> /\ x.enc = [f EXCEPT !.usageSent = TRUE]
    BY <2>1 DEF OpenAI!Encoded
  <2>3. QED
    BY <1>1, <1>4, <2>2 DEF DeltaOut
<1>5. CASE ~(Reports(ev) /\ ~f.usageSent)
  <2>1. x = OpenAI!Encoded(f, o)
    BY <1>2, <1>3, <1>5
  <2>2. x.out = o /\ x.enc = f
    BY <2>1 DEF OpenAI!Encoded
  <2>3. QED
    BY <1>1, <1>5, <2>2 DEF DeltaOut
<1>6. QED
  BY <1>4, <1>5

\* The numbers, when they are final and only once,
LEMMA DeltaTold ==
  ASSUME client = "openai", NEW p, StreamOK(p), NEW ev, Fits(p, ev), NEW e, NEW v, Shown(p, e, v),
         ev.type = "message_delta"
  PROVE  Tells(p, ev, e, v)
<1>1. PICK x : x = Encode(e, ev)
  OBVIOUS
<1>2. PICK q : q = Takes(p, ev)
  OBVIOUS
<1>3. PICK f : f = OpenAI!mergeUsage(e, ev.usage)
  OBVIOUS
<1>4. PICK r : r = [OpenAI!Chunk EXCEPT !.finish = TRUE]
  OBVIOUS
<1>5. PICK g : g = [OpenAI!Chunk EXCEPT !.choice = FALSE, !.usage = OpenAI!wireUsageFromCanonical(f.usage)]
  OBVIOUS
<1>6. ViewOK(v) /\ v.begun = p.begun /\ v.deltas = p.deltas /\ v.ended = p.ended /\ ~v.broken /\ ShownCalls(p, e, v)
  BY DEF Shown
<1>7. /\ p.begun = TRUE /\ ~p.ended /\ p.deltas \in Nat /\ p.sent \in BOOLEAN /\ (~p.sent => p.told = None)
      /\ ev \in Events
  <2>1. p.begun \in BOOLEAN /\ p.begun
    BY DEF Fits, StreamOK
  <2>2. p.begun = TRUE
    BY <2>1, Zenon
  <2>3. QED
    BY <2>2 DEF Fits, StreamOK
<1>8. /\ q.begun = p.begun /\ q.ended = p.ended /\ (Reports(ev) => q.sent = TRUE) /\ (~Reports(ev) => q.sent = p.sent)
      /\ q.kind = p.kind /\ q.deltas = p.deltas /\ q.usage = UsageThen(p, ev)
      /\ q.told = IF Reports(ev) /\ ~p.sent THEN OpenAI!wireUsageFromCanonical(q.usage) ELSE p.told
  <2>1. ~Visible(ev)
    BY DEF Visible
  <2>2. /\ q.begun = p.begun /\ q.ended = p.ended /\ (Reports(ev) => q.sent = TRUE)
        /\ (~Reports(ev) => q.sent = p.sent)
    BY <1>2, TakesIs
  <2>3. /\ q.kind = KindThen(p, ev) /\ q.deltas = p.deltas + (IF Visible(ev) THEN 1 ELSE 0)
        /\ q.usage = UsageThen(p, ev)
        /\ q.told = IF Reports(ev) /\ ~p.sent THEN OpenAI!wireUsageFromCanonical(UsageThen(p, ev)) ELSE p.told
    BY <1>2, TakesFields
  <2>4. QED
    BY <1>7, <2>1, <2>2, <2>3 DEF KindThen
<1>9. f = [usage |-> q.usage, usageSent |-> p.sent, toolIndex |-> e.toolIndex, nextTool |-> e.nextTool]
  BY <1>3, <1>6, <1>8, mergeUsageIs DEF ShownCalls, UsageThen
<1>10. f.usageSent = p.sent /\ f.usageSent \in BOOLEAN /\ f.usage = q.usage
  BY <1>7, <1>9
<1>11. PICK o : DeltaOut(ev, f, r, g, x, o)
  BY <1>1, <1>3, <1>4, <1>5, <1>7, <1>10, encodeMessageDeltaIs
<1>12. PICK w : Watched(v, o, w) /\ Alike(w, v)
  <2>1. ~v.ended /\ v.begun = TRUE /\ v.deltas \in Nat
    BY <1>6, <1>7
  <2>2. QED
    BY <1>4, <1>6, <1>11, <2>1, FinishSeen DEF DeltaOut
<1>13. o \in Seq({r, g}) /\ <<g>> \in Seq({r, g})
  <2>1. r \in {r, g} /\ g \in {r, g}
    OBVIOUS
  <2>2. <<>> \in Seq({r, g}) /\ <<r>> \in Seq({r, g}) /\ <<g>> \in Seq({r, g})
    BY <2>1
  <2>3. QED
    BY <1>11, <2>2 DEF DeltaOut
<1>14. CASE Reports(ev) /\ ~p.sent
  <2>1. x.out = o \o <<g>> /\ x.enc = [f EXCEPT !.usageSent = TRUE]
    BY <1>10, <1>11, <1>14 DEF DeltaOut
  <2>2. x.enc = [usage |-> q.usage, usageSent |-> TRUE, toolIndex |-> e.toolIndex, nextTool |-> e.nextTool]
    BY <1>9, <2>1
  <2>3. PICK u : u = SeeRecord(w, g)
    OBVIOUS
  <2>4. ChunkOK(g) /\ g.tools = <<>> /\ g.text = FALSE /\ g.usage = OpenAI!wireUsageFromCanonical(q.usage)
    BY <1>5, <1>10 DEF OpenAI!Chunk, ChunkOK
  <2>5. /\ ViewOK(w) /\ ~w.broken /\ ~w.ended /\ (w.begun \/ g.role) /\ (g.usage = None \/ w.usage = None)
        /\ w.usage = None
    BY <1>6, <1>7, <1>12, <1>14 DEF Alike, ShownCalls
  <2>6. u = SeeOpenAI(w, g)
    BY <2>3 DEF SeeRecord
  <2>7. SeenChunk(w, g, u)
    BY <2>4, <2>5, <2>6, ChunkSeen
  <2>8. /\ ViewOK(u) /\ u.begun = q.begun /\ u.deltas = q.deltas /\ u.ended = q.ended /\ ~u.broken
        /\ u.tools = v.tools /\ u.usage = q.told
    <3>1. q.told = g.usage
      BY <1>8, <1>14, <2>4
    <3>2. w.deltas = p.deltas /\ w.begun = p.begun /\ w.ended = p.ended /\ w.tools = v.tools
      BY <1>6, <1>12 DEF Alike
    <3>3. u.deltas = w.deltas + 0 /\ u.begun = TRUE /\ u.ended = w.ended /\ u.tools = w.tools /\ ~u.broken /\ ViewOK(u)
      BY <2>4, <2>7 DEF SeenChunk
    <3>4. u.usage = g.usage
      BY <2>5, <2>7 DEF SeenChunk
    <3>5. u.deltas = q.deltas
      BY <1>7, <1>8, <3>2, <3>3
    <3>6. u.begun = q.begun /\ u.ended = q.ended
      BY <1>7, <1>8, <3>2, <3>3
    <3>7. QED
      BY <3>1, <3>2, <3>3, <3>4, <3>5, <3>6
  <2>9. ShownCalls(q, x.enc, u)
    <3>1. q.sent = TRUE
      BY <1>8, <1>14
    <3>2. x.enc.nextTool = e.nextTool /\ x.enc.toolIndex = e.toolIndex
      BY <2>2
    <3>3. x.enc = [usage |-> q.usage, usageSent |-> q.sent, toolIndex |-> x.enc.toolIndex, nextTool |-> x.enc.nextTool]
      BY <2>2, <3>1, <3>2
    <3>4. QED
      BY <1>6, <1>8, <2>8, <3>2, <3>3 DEF ShownCalls
  <2>10. Shown(q, x.enc, u)
    BY <2>8, <2>9 DEF Shown
  <2>11. Watched(w, <<g>>, u)
    BY <2>3, <2>5, <2>8, WatchedOne
  <2>12. Watched(v, x.out, u)
    <3>1. Watched(v, o \o <<g>>, u)
      BY <1>12, <1>13, <2>11, WatchedBoth
    <3>2. QED
      BY <2>1, <3>1
  <2>13. x.out \in Seq({r, g})
    BY <1>13, <2>1, ConcatProperties
  <2>14. QED
    BY <1>1, <1>2, <2>10, <2>12, <2>13 DEF Tells
<1>15. CASE ~(Reports(ev) /\ ~p.sent)
  <2>1. x.out = o /\ x.enc = f
    BY <1>10, <1>11, <1>15 DEF DeltaOut
  <2>2. q.told = p.told
    BY <1>8, <1>15
  <2>3. q.sent = p.sent
    <3>1. Reports(ev) => p.sent = TRUE
      BY <1>7, <1>15, Zenon
    <3>2. QED
      BY <1>8, <3>1
  <2>4. /\ ViewOK(w) /\ w.begun = q.begun /\ w.deltas = q.deltas /\ w.ended = q.ended /\ ~w.broken
        /\ w.tools = v.tools /\ w.usage = v.usage
    BY <1>6, <1>8, <1>12 DEF Alike
  <2>5. ShownCalls(q, x.enc, w)
    BY <1>6, <1>8, <1>9, <2>1, <2>2, <2>3, <2>4 DEF ShownCalls
  <2>6. Shown(q, x.enc, w)
    BY <2>4, <2>5 DEF Shown
  <2>7. QED
    BY <1>1, <1>2, <1>12, <1>13, <2>1, <2>6 DEF Tells
<1>16. QED
  BY <1>14, <1>15

\* and of the end.
LEMMA EndTold ==
  ASSUME client = "openai", NEW p, StreamOK(p), NEW ev, Fits(p, ev), NEW e, NEW v, Shown(p, e, v),
         ev.type \in {"message_stop", "error"}
  PROVE  Tells(p, ev, e, v)
<1>1. PICK x : x = Encode(e, ev)
  OBVIOUS
<1>2. PICK q : q = Takes(p, ev)
  OBVIOUS
<1>3. PICK r : /\ x.enc = e /\ x.out = <<r>> /\ r.type \in {"done", "error"}
               /\ (r.type = "done" <=> ev.type = "message_stop")
  <2>1. CASE ev.type = "message_stop"
    <3>1. PICK r : r = [type |-> "done"]
      OBVIOUS
    <3>2. x = OpenAI!Encoded(e, <<r>>)
      BY <1>1, <2>1, <3>1 DEF Encode, OpenAI!Encode
    <3>3. QED
      BY <2>1, <3>1, <3>2 DEF OpenAI!Encoded
  <2>2. CASE ev.type = "error"
    <3>1. PICK r : r = [type |-> "error"]
      OBVIOUS
    <3>2. x = OpenAI!Encoded(e, <<r>>)
      BY <1>1, <2>2, <3>1 DEF Encode, OpenAI!Encode
    <3>3. QED
      BY <2>2, <3>1, <3>2 DEF OpenAI!Encoded
  <2>3. QED
    BY <2>1, <2>2
<1>4. /\ q.begun = p.begun /\ (ev.type = "message_stop" => q.ended = TRUE) /\ (ev.type = "error" => q.ended = p.ended)
      /\ q.sent = p.sent /\ q.kind = p.kind /\ q.deltas = p.deltas /\ q.usage = p.usage /\ q.told = p.told
  <2>1. ~Visible(ev) /\ ~Reports(ev) /\ ev.usage = None /\ p.deltas \in Nat
    BY DEF Visible, Reports, Fits, StreamOK
  <2>2. /\ q.begun = p.begun /\ (ev.type = "message_stop" => q.ended = TRUE)
        /\ (ev.type = "error" => q.ended = p.ended) /\ q.sent = p.sent
    BY <1>2, <2>1, TakesIs
  <2>3. /\ q.kind = KindThen(p, ev) /\ q.deltas = p.deltas + (IF Visible(ev) THEN 1 ELSE 0)
        /\ q.usage = UsageThen(p, ev)
        /\ q.told = IF Reports(ev) /\ ~p.sent THEN OpenAI!wireUsageFromCanonical(UsageThen(p, ev)) ELSE p.told
    BY <1>2, TakesFields
  <2>4. QED
    BY <2>1, <2>2, <2>3 DEF KindThen, UsageThen
<1>5. /\ ViewOK(v) /\ v.begun = p.begun /\ v.deltas = p.deltas /\ v.ended = p.ended /\ ~v.broken /\ ShownCalls(p, e, v)
      /\ ~p.ended /\ p.ended = FALSE
  BY DEF Shown, Fits, StreamOK
<1>6. PICK u : u = SeeRecord(v, r)
  OBVIOUS
<1>7. u = SeeOpenAI(v, r) /\ ~v.ended
  BY <1>5, <1>6 DEF SeeRecord
<1>8. /\ ViewOK(u) /\ u.begun = v.begun /\ u.deltas = v.deltas /\ u.tools = v.tools
      /\ u.usage = v.usage /\ ~u.broken /\ (ev.type = "message_stop" => u.ended = TRUE)
      /\ (ev.type = "error" => u.ended = v.ended)
  <2>1. ViewOK(v) /\ ~v.broken
    BY <1>5
  <2>2. QED
    <3>1. SeenEnd(v, r, u)
      BY <1>7, <2>1, EndSeen
    <3>2. QED
      BY <1>3, <3>1 DEF SeenEnd
<1>9. ShownCalls(q, e, u)
  BY <1>4, <1>5, <1>8 DEF ShownCalls
<1>10. Shown(q, e, u)
  BY <1>4, <1>5, <1>8, <1>9 DEF Shown
<1>11. QED
  BY <1>1, <1>2, <1>3, <1>5, <1>6, <1>10, TellsOne

\* Either client is told of every event that fits.
LEMMA EventTold ==
  ASSUME client \in Formats, NEW p, StreamOK(p), NEW ev, Fits(p, ev), NEW e, NEW v, Shown(p, e, v)
  PROVE  Tells(p, ev, e, v)
<1>0. ~v.broken
  BY DEF Shown
<1>1. CASE client = "anthropic"
  <2>1. PICK r, u : /\ Encode(e, ev).out = <<r>> /\ u = SeeRecord(v, r)
                    /\ Shown(Takes(p, ev), Encode(e, ev).enc, u)
    BY <1>1, AnthropicTold
  <2>2. QED
    BY <1>0, <2>1, TellsOne
<1>2. CASE client = "openai"
  <2>1. ev \in Events
    BY DEF Fits
  <2>2. CASE ev.type = "message_start"
    <3>1. PICK r, u : /\ Encode(e, ev).out = <<r>> /\ u = SeeRecord(v, r)
                      /\ Shown(Takes(p, ev), Encode(e, ev).enc, u)
      BY <1>2, <2>2, StartTold
    <3>2. QED
      BY <1>0, <3>1, TellsOne
  <2>3. CASE ev.type \in {"block_start", "block_delta", "block_stop", "ping"}
    BY <1>2, <2>3, StopTold, TextTold, CallTold
  <2>4. CASE ev.type = "message_delta"
    BY <1>2, <2>4, DeltaTold
  <2>5. CASE ev.type \in {"message_stop", "error"}
    BY <1>2, <2>5, EndTold
  <2>6. QED
    BY <2>1, <2>2, <2>3, <2>4, <2>5 DEF Events
<1>3. QED
  BY <1>1, <1>2 DEF Formats

\* The encoder after each of the first n events.
Encodes(h, events, n) ==
  /\ h = [k \in 0 .. n |-> h[k]] /\ h[0] = [enc |-> enc, out |-> <<>>]
  /\ \A k \in 1 .. n : h[k] = EncodeEvent(h[k - 1], events[k])

\* EncodeAll is where such a sequence arrives.
LEMMA EncodedAll ==
  ASSUME NEW events, Len(events) \in Nat, NEW h, Encodes(h, events, Len(events))
  PROVE  EncodeAll(events) = h[Len(events)]
<1> DEFINE n == Len(events)
           a == [enc |-> enc, out |-> <<>>]
           step(x, k) == EncodeEvent(x, events[k])
           Goes1(f) == f = [k \in 0 .. n |-> IF k = 0 THEN a ELSE step(f[k - 1], k)]
           g == CHOOSE f : Goes1(f)
<1>1. Goes1(h)
  <2>1. \A k \in 0 .. n : h[k] = IF k = 0 THEN a ELSE step(h[k - 1], k)
    <3>1. \A k \in 0 .. n : k = 0 \/ k \in 1 .. n
      OBVIOUS
    <3>2. QED
      BY <3>1 DEF Encodes
  <2>2. QED
    BY <2>1 DEF Encodes
<1>2. Goes1(g)
  BY <1>1
<1>3. EncodeAll(events) = g[n]
  BY DEF EncodeAll
<1>. HIDE DEF g
<1>4. g[0] = a /\ \A k \in 1 .. n : g[k] = step(g[k - 1], k)
  <2>1. 0 \in 0 .. n /\ \A k \in 1 .. n : k \in 0 .. n /\ k # 0
    OBVIOUS
  <2>2. QED
    BY <1>2, <2>1
<1>5. n \in { k \in 0 .. n : g[k] = h[k] }
  <2> DEFINE D == { k \in 0 .. n : g[k] = h[k] }
  <2>1. 0 \in D
    BY <1>4 DEF Encodes
  <2>2. ASSUME NEW m \in 0 .. n - 1, m \in D PROVE m + 1 \in D
    <3>1. m + 1 \in 1 .. n /\ (m + 1) - 1 = m /\ m + 1 \in 0 .. n
      OBVIOUS
    <3>2. g[m + 1] = step(g[m], m + 1) /\ h[m + 1] = step(h[m], m + 1)
      BY <1>4, <3>1 DEF Encodes
    <3>. HIDE DEF step
    <3>3. QED
      BY <2>2, <3>1, <3>2
  <2>. HIDE DEF D
  <2>3. \A k \in 0 .. n : k \in D
    BY <2>1, <2>2, Counting
  <2>4. QED
    BY <2>3 DEF D
<1>6. QED
  BY <1>3, <1>5

\* What has been written so far is seen as what the stream has come to.
Conveys(s, p) == \E R : s.out \in Seq(R) /\ \E u : Watched(view, s.out, u) /\ Shown(p, s.enc, u)

\* One event more is conveyed as what it comes to.
LEMMA EventConveyed ==
  ASSUME client \in Formats, NEW s, NEW p, StreamOK(p), Conveys(s, p), NEW ev, Fits(p, ev)
  PROVE  Conveys(EncodeEvent(s, ev), Takes(p, ev))
<1>1. PICK R : s.out \in Seq(R) /\ \E u : Watched(view, s.out, u) /\ Shown(p, s.enc, u)
  BY DEF Conveys
<1>2. PICK v : Watched(view, s.out, v) /\ Shown(p, s.enc, v)
  BY <1>1
<1>3. PICK x : x = Encode(s.enc, ev)
  OBVIOUS
<1>4. \E Q : x.out \in Seq(Q) /\ \E u : Watched(v, x.out, u) /\ Shown(Takes(p, ev), x.enc, u)
  BY <1>2, <1>3, EventTold DEF Tells
<1>5. PICK Q : x.out \in Seq(Q) /\ \E u : Watched(v, x.out, u) /\ Shown(Takes(p, ev), x.enc, u)
  BY <1>4
<1>6. PICK u : Watched(v, x.out, u) /\ Shown(Takes(p, ev), x.enc, u)
  BY <1>5
<1>7. PICK t : t = EncodeEvent(s, ev)
  OBVIOUS
<1>8. t.enc = x.enc /\ t.out = s.out \o x.out
  BY <1>3, <1>7 DEF EncodeEvent
<1>9. s.out \in Seq(R \cup Q) /\ x.out \in Seq(R \cup Q)
  BY <1>1, <1>5, SeqMonotonic
<1>10. Watched(view, s.out \o x.out, u)
  BY <1>2, <1>6, <1>9, WatchedBoth
<1>11. t.out \in Seq(R \cup Q)
  BY <1>8, <1>9, ConcatProperties
<1>12. Watched(view, t.out, u) /\ Shown(Takes(p, ev), t.enc, u)
  BY <1>6, <1>8, <1>10
<1>13. QED
  BY <1>7, <1>11, <1>12 DEF Conveys

\* The events of a record, every one of which fits: the client sees what the stream has come to.
LEMMA RecordTold ==
  ASSUME client \in Formats, NEW p, StreamOK(p), Shown(p, enc, view),
         NEW events, Len(events) \in Nat, NEW q, Heard(p, events, q)
  PROVE  Conveys(EncodeAll(events), q)
<1>1. PICK g : Hears(g, p, events, q)
  BY DEF Heard
<1> DEFINE n == Len(events)
           D == { m \in 0 .. n : \E h : Encodes(h, events, m) /\ Conveys(h[m], g[m]) }
<1>2. 0 \in D
  <2>1. PICK a : a = [enc |-> enc, out |-> <<>>]
    OBVIOUS
  <2>2. a.enc = enc /\ a.out = <<>> /\ a.out \in Seq(Nat)
    BY <2>1
  <2>3. ~view.broken
    BY DEF Shown
  <2>4. Watched(view, a.out, view)
    BY <2>2, <2>3, WatchedNothing
  <2>5. Conveys(a, p)
    BY <2>2, <2>4 DEF Conveys
  <2> DEFINE h == [k \in 0 .. 0 |-> a]
  <2>6. h = [k \in 0 .. 0 |-> h[k]] /\ h[0] = a
    OBVIOUS
  <2>. HIDE DEF h
  <2>7. Encodes(h, events, 0)
    BY <2>1, <2>6 DEF Encodes
  <2>8. Conveys(h[0], g[0])
    BY <1>1, <2>5, <2>6 DEF Hears
  <2>9. QED
    BY <2>7, <2>8
<1>3. ASSUME NEW m \in 0 .. n - 1, m \in D PROVE m + 1 \in D
  <2>1. m + 1 \in 1 .. n /\ (m + 1) - 1 = m /\ m \in 0 .. n /\ m + 1 \in 0 .. n /\ m \in Nat
    OBVIOUS
  <2>2. PICK h : Encodes(h, events, m) /\ Conveys(h[m], g[m])
    BY <1>3
  <2>3. Fits(g[m], events[m + 1]) /\ g[m + 1] = Takes(g[m], events[m + 1])
    BY <1>1, <2>1 DEF Hears
  <2>4. StreamOK(g[m])
    BY <1>1, <2>1, HearsOK
  <2>5. PICK y : y = EncodeEvent(h[m], events[m + 1])
    OBVIOUS
  <2>6. Conveys(y, g[m + 1])
    BY <2>2, <2>3, <2>4, <2>5, EventConveyed
  <2> DEFINE f == [k \in 0 .. m + 1 |-> IF k <= m THEN h[k] ELSE y]
  <2>7. f = [k \in 0 .. m + 1 |-> f[k]] /\ f[m + 1] = y /\ \A k \in 0 .. m : f[k] = h[k]
    BY <2>1
  <2>. HIDE DEF f
  <2>8. \A k \in 1 .. m + 1 : f[k] = EncodeEvent(f[k - 1], events[k])
    <3>1. ASSUME NEW k \in 1 .. m + 1 PROVE f[k] = EncodeEvent(f[k - 1], events[k])
      <4>1. CASE k = m + 1
        <5>1. f[k - 1] = h[m]
          <6>1. k - 1 = m /\ m \in 0 .. m
            BY <2>1, <4>1
          <6>2. QED
            BY <2>7, <6>1
        <5>2. QED
          BY <2>5, <2>7, <4>1, <5>1
      <4>2. CASE k # m + 1
        <5>1. k \in 1 .. m /\ k \in 0 .. m /\ k - 1 \in 0 .. m
          BY <2>1, <4>2
        <5>2. QED
          BY <2>2, <2>7, <5>1 DEF Encodes
      <4>3. QED
        BY <4>1, <4>2
    <3>2. QED
      BY <3>1
  <2>9. f[0] = [enc |-> enc, out |-> <<>>]
    <3>1. 0 \in 0 .. m
      BY <2>1
    <3>2. QED
      BY <2>2, <2>7, <3>1 DEF Encodes
  <2>10. Encodes(f, events, m + 1)
    BY <2>7, <2>8, <2>9 DEF Encodes
  <2>11. QED
    BY <2>1, <2>6, <2>7, <2>10
<1>. HIDE DEF D
<1>4. \A k \in 0 .. n : k \in D
  BY <1>2, <1>3, Counting
<1>5. PICK h : Encodes(h, events, n) /\ Conveys(h[n], g[n])
  <2>1. n \in D
    BY <1>4
  <2>2. QED
    BY <2>1 DEF D
<1>6. EncodeAll(events) = h[n]
  BY <1>5, EncodedAll
<1>7. g[n] = q
  BY <1>1 DEF Hears
<1>8. QED
  BY <1>5, <1>6, <1>7

-----------------------------------------------------------------------------
(* What the decoders make of a stream.                                     *)

\* The events a decoder makes of blocks, and of the beginning.
LEMMA EventsMade ==
  ASSUME NEW b \in Nat, NEW k \in Kinds
  PROVE  /\ OpenAI!BlockStop(b) \in Events /\ OpenAI!BlockStop(b).type = "block_stop"
         /\ OpenAI!BlockStop(b).block = b /\ OpenAI!BlockStop(b).usage = None
         /\ OpenAI!BlockStart(b, k) \in Events /\ OpenAI!BlockStart(b, k).type = "block_start"
         /\ OpenAI!BlockStart(b, k).block = b /\ OpenAI!BlockStart(b, k).kind = k
         /\ OpenAI!BlockStart(b, k).usage = None
         /\ OpenAI!BlockDelta(b, k) \in Events /\ OpenAI!BlockDelta(b, k).type = "block_delta"
         /\ OpenAI!BlockDelta(b, k).block = b /\ OpenAI!BlockDelta(b, k).delta = k
         /\ OpenAI!BlockDelta(b, k).usage = None
         /\ OpenAI!Event("message_start") \in Events /\ OpenAI!Event("message_start").type = "message_start"
         /\ OpenAI!Event("message_start").usage = None
BY DEF Events, OpenAI!BlockStop, OpenAI!BlockStart, OpenAI!BlockDelta, OpenAI!Event

\* What an event about blocks leaves alone.
Moves(p, q) == q.ended = p.ended /\ Quiet(p, q)

\* The stop of an open block,
LEMMA StopTaken ==
  ASSUME NEW p, StreamOK(p), ~p.ended, NEW e \in Events, e.type = "block_stop", e.block \in p.open, e.usage = None,
         NEW q, q = Takes(p, e)
  PROVE  /\ Fits(p, e) /\ Moves(p, q) /\ q.begun = p.begun /\ q.kind = p.kind /\ q.deltas = p.deltas
         /\ q.open = p.open \ {e.block}
<1>1. Fits(p, e)
  BY DEF Fits
<1>2. ~Visible(e) /\ ~Reports(e) /\ p.deltas \in Nat
  BY DEF Visible, Reports, StreamOK
<1>3. q.begun = p.begun /\ q.ended = p.ended /\ q.sent = p.sent
  BY <1>1, <1>2, TakesIs
<1>4. /\ q.kind = p.kind /\ q.open = p.open \ {e.block} /\ q.deltas = p.deltas + (IF Visible(e) THEN 1 ELSE 0)
      /\ q.usage = p.usage /\ q.told = p.told
  BY <1>2, TakesFields DEF KindThen, OpenThen, UsageThen
<1>5. QED
  BY <1>1, <1>2, <1>3, <1>4 DEF Moves, Quiet

TakenStart(p, e, q) ==
  /\ Fits(p, e) /\ Moves(p, q) /\ q.begun = p.begun /\ q.kind = KindsWith(p.kind, e.block, e.kind)
  /\ q.deltas = p.deltas /\ q.open = p.open \cup {e.block}

\* the start of a new one,
LEMMA StartTaken ==
  ASSUME NEW p, StreamOK(p), ~p.ended, p.begun, NEW e \in Events, e.type = "block_start",
         e.block \in Nat \ DOMAIN p.kind, e.kind \in Kinds, e.usage = None, NEW q, q = Takes(p, e)
  PROVE  TakenStart(p, e, q)
<1>1. Fits(p, e)
  BY DEF Fits
<1>2. ~Visible(e) /\ ~Reports(e) /\ p.deltas \in Nat
  BY DEF Visible, Reports, StreamOK
<1>3. q.begun = p.begun /\ q.ended = p.ended /\ q.sent = p.sent
  BY <1>1, <1>2, TakesIs
<1>4. /\ q.kind = KindsWith(p.kind, e.block, e.kind) /\ q.open = p.open \cup {e.block}
      /\ q.deltas = p.deltas + (IF Visible(e) THEN 1 ELSE 0) /\ q.usage = p.usage /\ q.told = p.told
  BY <1>2, TakesFields DEF KindThen, OpenThen, UsageThen
<1>5. QED
  BY <1>1, <1>2, <1>3, <1>4 DEF Moves, Quiet, TakenStart

\* a delta of an open block,
LEMMA DeltaTaken ==
  ASSUME NEW p, StreamOK(p), ~p.ended, NEW e \in Events, e.type = "block_delta",
         e.block \in p.open, e.delta = p.kind[e.block], e.usage = None, NEW q, q = Takes(p, e)
  PROVE  /\ Fits(p, e) /\ Moves(p, q) /\ q.begun = p.begun /\ q.kind = p.kind /\ q.open = p.open
         /\ q.deltas = p.deltas + (IF Visible(e) THEN 1 ELSE 0)
<1>1. Fits(p, e)
  BY DEF Fits
<1>2. ~Reports(e)
  BY DEF Reports
<1>3. q.begun = p.begun /\ q.ended = p.ended /\ q.sent = p.sent
  BY <1>1, <1>2, TakesIs
<1>4. /\ q.kind = p.kind /\ q.open = p.open
      /\ q.deltas = p.deltas + (IF Visible(e) THEN 1 ELSE 0) /\ q.usage = p.usage /\ q.told = p.told
  BY <1>2, TakesFields DEF KindThen, OpenThen, UsageThen
<1>5. QED
  BY <1>1, <1>3, <1>4 DEF Moves, Quiet

\* The beginning, perhaps with what is known of the usage, the end, and what says nothing.
TakenOther(p, e, q) ==
  /\ Fits(p, e) /\ q.sent = p.sent /\ q.told = p.told /\ q.usage = UsageThen(p, e)
  /\ q.kind = p.kind /\ q.open = p.open /\ q.deltas = p.deltas
  /\ (e.type = "message_start" => q.begun = TRUE) /\ (e.type # "message_start" => q.begun = p.begun)
  /\ (e.type = "message_stop" => q.ended = TRUE) /\ (e.type # "message_stop" => q.ended = p.ended)

\* and what is not about blocks.
LEMMA OtherTaken ==
  ASSUME NEW p, StreamOK(p), ~p.ended, NEW e \in Events, e.usage # None => e.type = "message_start",
         \/ e.type = "message_start" /\ ~p.begun
         \/ e.type = "message_stop" /\ p.open = {}
         \/ e.type \in {"ping", "error"},
         NEW q, q = Takes(p, e)
  PROVE  TakenOther(p, e, q)
<1>1. Fits(p, e)
  BY DEF Fits
<1>2. ~Visible(e) /\ ~Reports(e) /\ p.deltas \in Nat
  BY DEF Visible, Reports, StreamOK
<1>3. /\ (e.type = "message_start" => q.begun = TRUE) /\ (e.type # "message_start" => q.begun = p.begun)
      /\ (e.type = "message_stop" => q.ended = TRUE) /\ (e.type # "message_stop" => q.ended = p.ended)
      /\ q.sent = p.sent
  BY <1>1, <1>2, TakesIs
<1>4. /\ q.kind = p.kind /\ q.open = p.open /\ q.deltas = p.deltas + (IF Visible(e) THEN 1 ELSE 0)
      /\ q.usage = UsageThen(p, e) /\ q.told = p.told
  <2>1. e.type # "block_start" /\ e.type # "block_stop"
    OBVIOUS
  <2>2. /\ q.kind = KindThen(p, e) /\ q.open = OpenThen(p, e)
        /\ q.deltas = p.deltas + (IF Visible(e) THEN 1 ELSE 0) /\ q.usage = UsageThen(p, e)
        /\ q.told = IF Reports(e) /\ ~p.sent THEN OpenAI!wireUsageFromCanonical(UsageThen(p, e)) ELSE p.told
    BY TakesFields
  <2>3. QED
    BY <1>2, <2>1, <2>2 DEF KindThen, OpenThen
<1>5. QED
  BY <1>1, <1>2, <1>3, <1>4 DEF TakenOther

\* The OpenAI decoder's picture of a stream: its text and the blocks of its calls.
Mirrors(d, p) ==
  /\ p.begun = d.started /\ ~p.ended
  /\ p.open = (IF d.textOpen THEN {d.textBlock} ELSE {}) \cup { d.tools[i] : i \in DOMAIN d.tools }
  /\ \A b \in DOMAIN p.kind : b < d.next
  /\ d.textOpen => p.kind[d.textBlock] = "text"
  /\ \A i \in DOMAIN d.tools : p.kind[d.tools[i]] = "tool_use"

\* Its events so far take the stream a to q, and it has the picture of that.
At(a, s, q) == StateOK(s) /\ Heard(a, s.events, q) /\ StreamOK(q) /\ Mirrors(s.dec, q)

\* It goes on with one event more.
LEMMA AtThen ==
  ASSUME NEW a, NEW s, NEW q, At(a, s, q), NEW d, DecOK(d), NEW e \in Contents, Fits(q, e), NEW x, x = Takes(q, e),
         Mirrors(d, x), NEW t, t = OpenAI!Then([s EXCEPT !.dec = d], <<e>>)
  PROVE  At(a, t, x) /\ t.dec = d
<1>1. <<e>> \in Seq(Contents)
  OBVIOUS
<1>2. StateOK(t) /\ t.dec = d /\ t.events = s.events \o <<e>>
  <2>1. StateOK(s)
    BY DEF At
  <2>2. PICK evs : evs = <<e>>
    OBVIOUS
  <2>3. evs \in Seq(Contents) /\ t = OpenAI!Then([s EXCEPT !.dec = d], evs)
    BY <1>1, <2>2
  <2>6. t.dec = d
    BY <2>1, <2>3, ThenIs
  <2>7. StateOK(t)
    BY <2>1, <2>3, ThenIs
  <2>8. t.events = s.events \o evs
    <3>1. PICK u : u = [s EXCEPT !.dec = d]
      OBVIOUS
    <3>2. u.events = s.events /\ u = [dec |-> d, events |-> s.events, failed |-> FALSE]
      BY <2>1, <3>1 DEF StateOK
    <3>3. PICK c : c = s.events \o evs
      OBVIOUS
    <3>4. t = [u EXCEPT !.events = u.events \o evs]
      BY <2>3, <3>1 DEF OpenAI!Then
    <3>5. t = [u EXCEPT !.events = c]
      BY <3>2, <3>3, <3>4
    <3>6. QED
      BY <3>2, <3>3, <3>5
  <2>4. StateOK(t) /\ t.dec = d /\ t.events = s.events \o evs
    BY <2>6, <2>7, <2>8
  <2>5. QED
    BY <2>2, <2>4
<1>3. s.events \in Seq(Contents)
  BY DEF At, StateOK
<1>4. Heard(q, <<e>>, x)
  BY HeardOne
<1>5. Heard(a, t.events, x)
  <2>1. Heard(a, s.events \o <<e>>, x)
    BY <1>1, <1>3, <1>4, HeardBoth DEF At
  <2>2. QED
    BY <1>2, <2>1
<1>6. StreamOK(x)
  BY TakesOK DEF At
<1>7. QED
  BY <1>2, <1>5, <1>6 DEF At

\* A step of the decoder adds n deltas to the stream.
Leads(a, t, q, n) == \E x : At(a, t, x) /\ x.deltas = q.deltas + n

\* The message starts once, with no delta,
LEMMA messageStartAt ==
  ASSUME NEW a, NEW s, NEW q, At(a, s, q), NEW t, t = OpenAI!messageStart(s)
  PROVE  Leads(a, t, q, 0)
<1>0. StateOK(s) /\ DecOK(s.dec) /\ StreamOK(q) /\ Mirrors(s.dec, q) /\ q.deltas \in Nat
  BY DEF At, StateOK, StreamOK
<1>1. CASE s.dec.started
  <2>1. t = s
    BY <1>1 DEF OpenAI!messageStart
  <2>2. QED
    BY <1>0, <2>1 DEF Leads
<1>2. CASE ~s.dec.started
  <2>1. PICK d : d = [s.dec EXCEPT !.started = TRUE]
    OBVIOUS
  <2>2. d = [started |-> TRUE, next |-> s.dec.next, textOpen |-> s.dec.textOpen, textBlock |-> s.dec.textBlock,
             tools |-> s.dec.tools]
    BY <1>0, <2>1, DecFields
  <2>3. DecOK(d)
    BY <1>0, <2>2, DecFields, DecMade
  <2>4. PICK e : e = OpenAI!Event("message_start")
    OBVIOUS
  <2>5. e \in Events /\ e.type = "message_start" /\ e.usage = None /\ e \in Contents
    <3>1. 0 \in Nat /\ 0 \in Int /\ "text" \in Kinds
      BY DEF Kinds
    <3>2. QED
      BY <2>4, <3>1, EventsMade, ContentsMade
  <2>6. [s EXCEPT !.dec.started = TRUE] = [s EXCEPT !.dec = d]
    BY <1>0, <2>1 DEF StateOK
  <2>7. t = OpenAI!Then([s EXCEPT !.dec = d], <<e>>)
    BY <1>2, <2>4, <2>6 DEF OpenAI!messageStart
  <2>8. PICK x : x = Takes(q, e)
    OBVIOUS
  <2>9. ~q.begun /\ ~q.ended
    BY <1>0, <1>2 DEF Mirrors
  <2>10. /\ Fits(q, e) /\ x.kind = q.kind /\ x.open = q.open /\ x.deltas = q.deltas /\ x.begun = TRUE
         /\ x.ended = q.ended
    <3>1. TakenOther(q, e, x)
      BY <1>0, <2>5, <2>8, <2>9, OtherTaken
    <3>2. QED
      BY <2>5, <3>1 DEF TakenOther
  <2>11. Mirrors(d, x)
    <3>1. /\ d.started = TRUE /\ d.next = s.dec.next /\ d.textOpen = s.dec.textOpen /\ d.textBlock = s.dec.textBlock
          /\ d.tools = s.dec.tools
      BY <2>2
    <3>2. x.begun = d.started /\ ~x.ended
      BY <2>9, <2>10, <3>1
    <3>3. QED
      BY <1>0, <2>10, <3>1, <3>2 DEF Mirrors
  <2>12. At(a, t, x)
    BY <2>3, <2>5, <2>7, <2>8, <2>10, <2>11, AtThen
  <2>13. x.deltas = q.deltas + 0
    BY <1>0, <2>10
  <2>14. QED
    BY <2>12, <2>13 DEF Leads
<1>3. QED
  BY <1>1, <1>2

\* the text is closed with none,
LEMMA closeTextBlockAt ==
  ASSUME NEW a, NEW s, NEW q, At(a, s, q), NEW t, t = OpenAI!closeTextBlock(s)
  PROVE  /\ Leads(a, t, q, 0) /\ ~t.dec.textOpen /\ t.dec.started = s.dec.started /\ t.dec.next = s.dec.next
         /\ t.dec.tools = s.dec.tools
<1>0. StateOK(s) /\ DecOK(s.dec) /\ StreamOK(q) /\ Mirrors(s.dec, q) /\ q.deltas \in Nat
  BY DEF At, StateOK, StreamOK
<1>1. CASE ~s.dec.textOpen
  <2>1. t = s
    BY <1>1 DEF OpenAI!closeTextBlock
  <2>2. QED
    BY <1>0, <1>1, <2>1 DEF Leads
<1>2. CASE s.dec.textOpen
  <2>1. PICK d : d = [s.dec EXCEPT !.textOpen = FALSE]
    OBVIOUS
  <2>2. d = [started |-> s.dec.started, next |-> s.dec.next, textOpen |-> FALSE, textBlock |-> s.dec.textBlock,
             tools |-> s.dec.tools]
    BY <1>0, <2>1, DecFields
  <2>3. DecOK(d)
    BY <1>0, <2>2, DecFields, DecMade
  <2>4. PICK b : b = s.dec.textBlock
    OBVIOUS
  <2>5. PICK e : e = OpenAI!BlockStop(b)
    OBVIOUS
  <2>6. e \in Events /\ e.type = "block_stop" /\ e.block = b /\ e.usage = None /\ e \in Contents
    <3>1. b \in Nat /\ b \in Int /\ "text" \in Kinds
      BY <1>0, <2>4, DecFields DEF Kinds
    <3>2. QED
      BY <2>5, <3>1, EventsMade, ContentsMade
  <2>7. [s EXCEPT !.dec.textOpen = FALSE] = [s EXCEPT !.dec = d]
    BY <1>0, <2>1 DEF StateOK
  <2>8. t = OpenAI!Then([s EXCEPT !.dec = d], <<e>>)
    BY <1>2, <2>4, <2>5, <2>7 DEF OpenAI!closeTextBlock
  <2>9. PICK x : x = Takes(q, e)
    OBVIOUS
  <2>10. /\ b \in q.open /\ ~q.ended /\ q.kind[b] = "text"
         /\ q.open = {b} \cup { s.dec.tools[i] : i \in DOMAIN s.dec.tools }
         /\ \A i \in DOMAIN s.dec.tools : q.kind[s.dec.tools[i]] = "tool_use"
    BY <1>0, <1>2, <2>4 DEF Mirrors
  <2>11. /\ Fits(q, e) /\ x.begun = q.begun /\ x.ended = q.ended /\ x.kind = q.kind /\ x.deltas = q.deltas
         /\ x.open = q.open \ {b}
    BY <1>0, <2>6, <2>9, <2>10, StopTaken DEF Moves
  <2>12. x.open = { s.dec.tools[i] : i \in DOMAIN s.dec.tools }
    BY <2>10, <2>11
  <2>13. Mirrors(d, x)
    BY <1>0, <2>2, <2>10, <2>11, <2>12 DEF Mirrors
  <2>14. At(a, t, x) /\ t.dec = d
    BY <2>3, <2>6, <2>8, <2>9, <2>11, <2>13, AtThen
  <2>15. x.deltas = q.deltas + 0
    BY <1>0, <2>11
  <2>16. QED
    BY <2>2, <2>14, <2>15 DEF Leads
<1>3. QED
  BY <1>1, <1>2

\* The text is open before its first delta,
OpenText(s) ==
  IF s.dec.textOpen THEN s
  ELSE OpenAI!Then([s EXCEPT !.dec.textOpen = TRUE, !.dec.textBlock = s.dec.next, !.dec.next = @ + 1],
                   <<OpenAI!BlockStart(s.dec.next, "text")>>)

\* opened with none,
LEMMA OpenTextAt ==
  ASSUME NEW a, NEW s, NEW q, At(a, s, q), s.dec.started, NEW t, t = OpenText(s)
  PROVE  Leads(a, t, q, 0) /\ t.dec.textOpen /\ t.dec.started
<1>0. StateOK(s) /\ DecOK(s.dec) /\ StreamOK(q) /\ Mirrors(s.dec, q) /\ q.deltas \in Nat
  BY DEF At, StateOK, StreamOK
<1>1. CASE s.dec.textOpen
  BY <1>0, <1>1 DEF Leads, OpenText
<1>2. CASE ~s.dec.textOpen
  <2>1. PICK b : b = s.dec.next
    OBVIOUS
  <2>2. PICK n : n = s.dec.next + 1
    OBVIOUS
  <2>3. PICK d : d = [s.dec EXCEPT !.textOpen = TRUE, !.textBlock = b, !.next = n]
    OBVIOUS
  <2>4. b \in Nat /\ n \in Nat /\ b < n /\ s.dec.started \in BOOLEAN /\ ToolsOK(s.dec.tools)
    BY <1>0, <2>1, <2>2, DecFields
  <2>5. d = [started |-> s.dec.started, next |-> n, textOpen |-> TRUE, textBlock |-> b, tools |-> s.dec.tools]
    BY <1>0, <2>3, DecFields
  <2>6. DecOK(d)
    BY <2>4, <2>5, DecMade
  <2>7. PICK e : e = OpenAI!BlockStart(b, "text")
    OBVIOUS
  <2>8. e \in Events /\ e.type = "block_start" /\ e.block = b /\ e.kind = "text" /\ e.usage = None /\ e \in Contents
    <3>1. "text" \in Kinds /\ b \in Int
      BY <2>4 DEF Kinds
    <3>2. QED
      BY <2>4, <2>7, <3>1, EventsMade, ContentsMade
  <2>9. [s EXCEPT !.dec.textOpen = TRUE, !.dec.textBlock = s.dec.next, !.dec.next = @ + 1] = [s EXCEPT !.dec = d]
    BY <1>0, <2>1, <2>2, <2>3 DEF StateOK
  <2>10. t = OpenAI!Then([s EXCEPT !.dec = d], <<e>>)
    BY <1>2, <2>1, <2>7, <2>9 DEF OpenText
  <2>11. PICK x : x = Takes(q, e)
    OBVIOUS
  <2>12. ~q.ended /\ q.begun /\ b \notin DOMAIN q.kind
    BY <1>0, <2>1, <2>4 DEF Mirrors
  <2>13. /\ Fits(q, e) /\ x.begun = q.begun /\ x.ended = q.ended /\ x.kind = KindsWith(q.kind, b, "text")
         /\ x.deltas = q.deltas /\ x.open = q.open \cup {b}
    <3>1. e.block \in Nat \ DOMAIN q.kind /\ e.kind \in Kinds
      BY <2>4, <2>8, <2>12 DEF Kinds
    <3>2. TakenStart(q, e, x)
      BY <1>0, <2>8, <2>11, <2>12, <3>1, StartTaken
    <3>3. QED
      BY <2>8, <3>2 DEF Moves, TakenStart
  <2>14. Mirrors(d, x)
    <3>1. x.begun = d.started /\ ~x.ended
      BY <1>0, <2>5, <2>13 DEF Mirrors
    <3>2. x.open = {d.textBlock} \cup { d.tools[i] : i \in DOMAIN d.tools }
      BY <1>0, <1>2, <2>5, <2>13 DEF Mirrors
    <3>3. \A c \in DOMAIN x.kind : c < d.next
      <4>1. DOMAIN x.kind = DOMAIN q.kind \cup {b} /\ d.next = n /\ DOMAIN q.kind \subseteq Nat
        BY <1>0, <2>5, <2>13 DEF KindsWith, StreamOK
      <4>2. \A c \in DOMAIN q.kind : c < b
        BY <1>0, <2>1 DEF Mirrors
      <4>3. QED
        BY <2>1, <2>2, <2>4, <4>1, <4>2
    <3>4. x.kind[d.textBlock] = "text"
      BY <2>5, <2>13 DEF KindsWith
    <3>5. \A i \in DOMAIN d.tools : x.kind[d.tools[i]] = "tool_use"
      <4>1. \A i \in DOMAIN d.tools : d.tools[i] \in DOMAIN q.kind /\ q.kind[d.tools[i]] = "tool_use"
        BY <1>0, <2>5 DEF Mirrors, StreamOK
      <4>2. QED
        BY <2>12, <2>13, <4>1 DEF KindsWith
    <3>6. QED
      BY <2>5, <3>1, <3>2, <3>3, <3>4, <3>5 DEF Mirrors
  <2>15. At(a, t, x) /\ t.dec = d
    BY <2>6, <2>8, <2>10, <2>11, <2>13, <2>14, AtThen
  <2>16. x.deltas = q.deltas + 0
    BY <1>0, <2>13
  <2>17. QED
    BY <2>5, <2>15, <2>16 DEF Leads
<1>3. QED
  BY <1>1, <1>2

\* A delta in an open block.
LEMMA DeltaAt ==
  ASSUME NEW a, NEW s, NEW q, At(a, s, q), NEW b \in q.open, NEW k \in {"text", "tool_use"}, q.kind[b] = k,
         NEW t, t = OpenAI!Then(s, <<OpenAI!BlockDelta(b, k)>>)
  PROVE  Leads(a, t, q, 1) /\ t.dec = s.dec
<1>0. StateOK(s) /\ DecOK(s.dec) /\ StreamOK(q) /\ Mirrors(s.dec, q) /\ q.deltas \in Nat
  BY DEF At, StateOK, StreamOK
<1>1. PICK e : e = OpenAI!BlockDelta(b, k)
  OBVIOUS
<1>2. e \in Events /\ e.type = "block_delta" /\ e.block = b /\ e.delta = k /\ e.usage = None /\ e \in Contents
  <2>1. b \in Nat /\ b \in Int /\ k \in Kinds
    BY <1>0 DEF StreamOK, Kinds
  <2>2. QED
    BY <1>1, <2>1, EventsMade, ContentsMade
<1>3. PICK x : x = Takes(q, e)
  OBVIOUS
<1>4. ~q.ended /\ Visible(e)
  BY <1>0, <1>2 DEF Mirrors, Visible
<1>5. /\ Fits(q, e) /\ x.begun = q.begun /\ x.ended = q.ended /\ x.kind = q.kind
      /\ x.deltas = q.deltas + (IF Visible(e) THEN 1 ELSE 0) /\ x.open = q.open
  BY <1>0, <1>2, <1>3, <1>4, DeltaTaken DEF Moves
<1>6. Mirrors(s.dec, x)
  BY <1>0, <1>5 DEF Mirrors
<1>7. t = OpenAI!Then([s EXCEPT !.dec = s.dec], <<e>>)
  <2>1. [s EXCEPT !.dec = s.dec] = s
    BY <1>0 DEF StateOK
  <2>2. QED
    BY <1>1, <2>1
<1>8. At(a, t, x) /\ t.dec = s.dec
  BY <1>0, <1>2, <1>3, <1>5, <1>6, <1>7, AtThen
<1>9. x.deltas = q.deltas + 1
  BY <1>4, <1>5
<1>10. QED
  BY <1>8, <1>9 DEF Leads

\* and goes on with one.
LEMMA textDeltaAt ==
  ASSUME NEW a, NEW s, NEW q, At(a, s, q), s.dec.started, NEW t, t = OpenAI!textDelta(s)
  PROVE  Leads(a, t, q, 1)
<1>1. PICK u : u = OpenText(s)
  OBVIOUS
<1>2. Leads(a, u, q, 0) /\ u.dec.textOpen
  BY <1>1, OpenTextAt
<1>3. PICK x : At(a, u, x) /\ x.deltas = q.deltas + 0
  BY <1>2 DEF Leads
<1>4. t = OpenAI!Then(u, <<OpenAI!BlockDelta(u.dec.textBlock, "text")>>)
  BY <1>1 DEF OpenAI!textDelta, OpenText
<1>5. u.dec.textBlock \in x.open /\ x.kind[u.dec.textBlock] = "text"
  BY <1>2, <1>3 DEF At, Mirrors
<1>6. Leads(a, t, x, 1)
  BY <1>3, <1>4, <1>5, DeltaAt
<1>7. q.deltas \in Nat
  BY DEF At, StreamOK
<1>8. QED
  BY <1>3, <1>6, <1>7 DEF Leads

\* A new call closes the text and gets the next block.
LEMMA openToolAt ==
  ASSUME NEW a, NEW s, NEW q, At(a, s, q), s.dec.started, NEW index \in {0, 1}, index \notin DOMAIN s.dec.tools,
         NEW t, t = OpenAI!openTool(s, index)
  PROVE  Leads(a, t, q, 0) /\ t.dec.started /\ index \in DOMAIN t.dec.tools
<1>1. PICK c : c = OpenAI!closeTextBlock(s)
  OBVIOUS
<1>2. Leads(a, c, q, 0) /\ ~c.dec.textOpen /\ c.dec.started = s.dec.started /\ c.dec.tools = s.dec.tools
  BY <1>1, closeTextBlockAt
<1>3. PICK y : At(a, c, y) /\ y.deltas = q.deltas + 0
  BY <1>2 DEF Leads
<1>4. StateOK(c) /\ DecOK(c.dec) /\ StreamOK(y) /\ Mirrors(c.dec, y) /\ y.deltas \in Nat /\ q.deltas \in Nat
  BY <1>3 DEF At, StateOK, StreamOK
<1>5. PICK b : b = c.dec.next
  OBVIOUS
<1>6. PICK n : n = c.dec.next + 1
  OBVIOUS
<1>7. PICK f : f = [i \in DOMAIN c.dec.tools \cup {index} |-> IF i = index THEN b ELSE c.dec.tools[i]]
  OBVIOUS
<1>8. PICK d : d = [c.dec EXCEPT !.next = n, !.tools = f]
  OBVIOUS
<1>9. /\ b \in Nat /\ n \in Nat /\ b < n /\ c.dec.started \in BOOLEAN /\ c.dec.textOpen \in BOOLEAN
      /\ c.dec.textBlock \in Nat /\ ToolsOK(c.dec.tools)
  BY <1>4, <1>5, <1>6, DecFields
<1>10. d = [started |-> c.dec.started, next |-> n, textOpen |-> c.dec.textOpen, textBlock |-> c.dec.textBlock,
            tools |-> f]
  <2>1. c.dec \in [started : BOOLEAN, next : Nat, textOpen : BOOLEAN, textBlock : Nat, tools : {c.dec.tools}]
    BY <1>4, DecFields
  <2>2. QED
    BY <1>8, <2>1
<1>11. /\ ToolsOK(f) /\ index \in DOMAIN f /\ f[index] = b /\ DOMAIN f = DOMAIN c.dec.tools \cup {index}
       /\ \A i \in DOMAIN c.dec.tools : f[i] = c.dec.tools[i]
  <2>1. index \notin DOMAIN c.dec.tools
    BY <1>2
  <2>2. QED
    BY <1>7, <1>9, <2>1 DEF ToolsOK
<1>12. DecOK(d)
  BY <1>9, <1>10, <1>11, DecMade
<1>13. PICK e : e = OpenAI!BlockStart(b, "tool_use")
  OBVIOUS
<1>14. /\ e \in Events /\ e.type = "block_start" /\ e.block = b /\ e.kind = "tool_use" /\ e.usage = None
       /\ e \in Contents
  <2>1. "tool_use" \in Kinds /\ b \in Int
    BY <1>9 DEF Kinds
  <2>2. QED
    BY <1>9, <1>13, <2>1, EventsMade, ContentsMade
<1>15. t = OpenAI!Then([c EXCEPT !.dec = d], <<e>>)
  <2>1. [c EXCEPT !.dec.next = @ + 1, !.dec.tools =
            [i \in DOMAIN @ \cup {index} |-> IF i = index THEN b ELSE @[i]]]
        = [c EXCEPT !.dec = [c.dec EXCEPT !.next = @ + 1, !.tools =
            [i \in DOMAIN @ \cup {index} |-> IF i = index THEN b ELSE @[i]]]]
    BY <1>4, DecFields DEF StateOK
  <2>2. d = [c.dec EXCEPT !.next = @ + 1, !.tools =
            [i \in DOMAIN @ \cup {index} |-> IF i = index THEN b ELSE @[i]]]
    BY <1>6, <1>7, <1>8
  <2>3. t = OpenAI!Then([c EXCEPT !.dec.next = @ + 1, !.dec.tools =
            [i \in DOMAIN @ \cup {index} |-> IF i = index THEN b ELSE @[i]]], <<OpenAI!BlockStart(b, "tool_use")>>)
    BY <1>1, <1>5 DEF OpenAI!openTool
  <2>4. QED
    BY <1>13, <2>1, <2>2, <2>3
<1>16. PICK x : x = Takes(y, e)
  OBVIOUS
<1>17. ~y.ended /\ y.begun /\ b \notin DOMAIN y.kind
  BY <1>2, <1>4, <1>5, <1>9 DEF Mirrors
<1>18. TakenStart(y, e, x)
  <2>1. e.block \in Nat \ DOMAIN y.kind /\ e.kind \in Kinds
    BY <1>9, <1>14, <1>17 DEF Kinds
  <2>2. QED
    BY <1>4, <1>14, <1>16, <1>17, <2>1, StartTaken
<1>19. /\ Fits(y, e) /\ x.begun = y.begun /\ x.ended = y.ended /\ x.kind = KindsWith(y.kind, b, "tool_use")
       /\ x.deltas = y.deltas /\ x.open = y.open \cup {b}
  BY <1>14, <1>18 DEF Moves, TakenStart
<1>20. Mirrors(d, x)
  <2>1. x.begun = d.started /\ ~x.ended /\ ~d.textOpen
    BY <1>2, <1>4, <1>10, <1>19 DEF Mirrors
  <2>2. x.open = { d.tools[i] : i \in DOMAIN d.tools }
    <3>1. y.open = { c.dec.tools[i] : i \in DOMAIN c.dec.tools }
      BY <1>2, <1>4 DEF Mirrors
    <3>2. d.tools = f
      BY <1>10
    <3>3. { f[i] : i \in DOMAIN f } = { c.dec.tools[i] : i \in DOMAIN c.dec.tools } \cup {b}
      BY <1>11
    <3>4. QED
      BY <1>19, <3>1, <3>2, <3>3
  <2>3. \A g \in DOMAIN x.kind : g < d.next
    <3>1. DOMAIN x.kind = DOMAIN y.kind \cup {b} /\ d.next = n /\ DOMAIN y.kind \subseteq Nat
      BY <1>4, <1>10, <1>19 DEF KindsWith, StreamOK
    <3>2. \A g \in DOMAIN y.kind : g < b
      BY <1>4, <1>5 DEF Mirrors
    <3>3. QED
      BY <1>5, <1>6, <1>9, <3>1, <3>2
  <2>4. \A i \in DOMAIN d.tools : x.kind[d.tools[i]] = "tool_use"
    <3>1. \A i \in DOMAIN c.dec.tools : c.dec.tools[i] \in DOMAIN y.kind /\ y.kind[c.dec.tools[i]] = "tool_use"
      BY <1>4 DEF Mirrors, StreamOK
    <3>2. d.tools = f
      BY <1>10
    <3>3. \A g \in DOMAIN y.kind : x.kind[g] = y.kind[g]
      BY <1>17, <1>19 DEF KindsWith
    <3>4. x.kind[b] = "tool_use"
      BY <1>19 DEF KindsWith
    <3>5. QED
      BY <1>11, <3>1, <3>2, <3>3, <3>4
  <2>5. QED
    BY <2>1, <2>2, <2>3, <2>4 DEF Mirrors
<1>21. At(a, t, x) /\ t.dec = d
  BY <1>3, <1>12, <1>14, <1>15, <1>16, <1>19, <1>20, AtThen
<1>22. x.deltas = q.deltas + 0
  BY <1>3, <1>4, <1>19
<1>23. QED
  BY <1>2, <1>10, <1>11, <1>21, <1>22 DEF Leads

\* What a call adds to the stream: its arguments, if it has them.
OneCall(tc) == tc.index \in {0, 1} /\ tc.args \in BOOLEAN

CallLeads(a, t, q, tc) == Leads(a, t, q, IF tc.args THEN 1 ELSE 0) /\ t.dec.started

\* Every call does, a new one or one that is known.
LEMMA handleToolCallDeltaAt ==
  ASSUME NEW a, NEW s, NEW q, At(a, s, q), s.dec.started, NEW tc, OneCall(tc),
         NEW t, t = OpenAI!handleToolCallDelta(s, tc)
  PROVE  CallLeads(a, t, q, tc)
<1>0. tc.index \in {0, 1} /\ tc.args \in BOOLEAN
  BY DEF OneCall
<1>1. PICK u : u = IF tc.index \in DOMAIN s.dec.tools THEN s ELSE OpenAI!openTool(s, tc.index)
  OBVIOUS
<1>2. q.deltas \in Nat
  BY DEF At, StreamOK
<1>3. Leads(a, u, q, 0) /\ u.dec.started /\ tc.index \in DOMAIN u.dec.tools
  <2>1. CASE tc.index \in DOMAIN s.dec.tools
    <3>1. u = s /\ q.deltas = q.deltas + 0
      BY <1>1, <1>2, <2>1
    <3>2. QED
      BY <2>1, <3>1 DEF Leads
  <2>2. CASE tc.index \notin DOMAIN s.dec.tools
    <3>1. PICK i \in {0, 1} : i = tc.index
      BY <1>0
    <3>2. u = OpenAI!openTool(s, i) /\ i \notin DOMAIN s.dec.tools
      BY <1>1, <2>2, <3>1
    <3>3. Leads(a, u, q, 0) /\ u.dec.started /\ i \in DOMAIN u.dec.tools
      BY <3>2, openToolAt
    <3>4. QED
      BY <3>1, <3>3
  <2>3. QED
    BY <2>1, <2>2
<1>4. PICK y : At(a, u, y) /\ y.deltas = q.deltas + 0
  BY <1>3 DEF Leads
<1>5. PICK b : b = u.dec.tools[tc.index]
  OBVIOUS
<1>6. t = IF tc.args THEN OpenAI!Then(u, <<OpenAI!BlockDelta(b, "tool_use")>>) ELSE u
  BY <1>1, <1>5 DEF OpenAI!handleToolCallDelta
<1>7. CASE tc.args
  <2>1. b \in y.open /\ y.kind[b] = "tool_use"
    BY <1>3, <1>4, <1>5 DEF At, Mirrors
  <2>2. t = OpenAI!Then(u, <<OpenAI!BlockDelta(b, "tool_use")>>)
    BY <1>6, <1>7
  <2>3. Leads(a, t, y, 1) /\ t.dec = u.dec
    <3>1. PICK k \in {"text", "tool_use"} : k = "tool_use"
      OBVIOUS
    <3>2. y.kind[b] = k /\ t = OpenAI!Then(u, <<OpenAI!BlockDelta(b, k)>>)
      BY <2>1, <2>2, <3>1
    <3>3. Leads(a, t, y, 1)
      BY <1>4, <2>1, <3>2, DeltaAt
    <3>4. t.dec = u.dec
      <4>1. StateOK(u)
        BY <1>4 DEF At
      <4>2. PICK evs : evs = u.events \o <<OpenAI!BlockDelta(b, k)>>
        OBVIOUS
      <4>3. t = [u EXCEPT !.events = evs]
        BY <3>2, <4>2 DEF OpenAI!Then
      <4>4. QED
        BY <4>1, <4>3 DEF StateOK
    <3>5. QED
      BY <3>3, <3>4
  <2>4. Leads(a, t, q, 1)
    BY <1>2, <1>4, <2>3 DEF Leads
  <2>5. QED
    BY <1>3, <1>7, <2>3, <2>4 DEF CallLeads
<1>8. CASE ~tc.args
  BY <1>3, <1>6, <1>8 DEF CallLeads
<1>9. QED
  BY <1>7, <1>8

\* n elements in an order, none of them twice; and every element of a set.
Orders(order, n, V) == /\ order \in [1 .. n -> V]
                       /\ \A i, j \in 1 .. n : i # j => order[i] # order[j]

Covers(order, n, V) == \A b \in V : \E i \in 1 .. n : order[i] = b

\* An order of all elements of a set leaves none of them out.
LEMMA OrderOnto ==
  ASSUME NEW V, IsFiniteSet(V), NEW n, n = Cardinality(V), NEW order, Orders(order, n, V)
  PROVE  Covers(order, n, V)
<1>0. order \in [1 .. n -> V] /\ \A i, j \in 1 .. n : i # j => order[i] # order[j]
  BY DEF Orders
<1>1. SUFFICES ASSUME NEW b \in V, \A i \in 1 .. n : order[i] # b PROVE FALSE
  BY DEF Covers
<1>2. n \in Nat
  BY FS_CardinalityType
<1>3. IsFiniteSet(V \ {b}) /\ Cardinality(V \ {b}) = n - 1
  BY FS_RemoveElement
<1>4. IsFiniteSet(1 .. n) /\ Cardinality(1 .. n) = n
  <2>1. PICK a \in Int : a = 1
    OBVIOUS
  <2>2. n \in Int
    BY <1>2
  <2>3. IsFiniteSet(a .. n)
    BY <2>2, FS_Interval
  <2>4. Cardinality(a .. n) = IF a > n THEN 0 ELSE n - a + 1
    BY <2>2, FS_Interval
  <2>5. QED
    BY <1>2, <2>1, <2>3, <2>4
<1>5. order \in [1 .. n -> V \ {b}]
  BY <1>0, <1>1
<1>6. PICK W : W = V \ {b}
  OBVIOUS
<1>7. PICK N1 : N1 = 1 .. n
  OBVIOUS
<1>8. IsFiniteSet(N1) /\ IsFiniteSet(W) /\ Cardinality(W) < Cardinality(N1) /\ order \in [N1 -> W]
  BY <1>2, <1>3, <1>4, <1>5, <1>6, <1>7
<1>9. \E i, j \in N1 : i # j /\ order[i] = order[j]
  BY <1>8, FS_PigeonHole
<1>10. QED
  BY <1>0, <1>7, <1>9

Stops(order, n) == [i \in 1 .. n |-> OpenAI!BlockStop(order[i])]

\* The stream after them, which has nothing open and is otherwise as it was.
StoppedAll(q, stops) ==
  \E x : /\ Heard(q, stops, x) /\ StreamOK(x) /\ x.open = {} /\ x.begun = q.begun /\ ~x.ended
         /\ x.kind = q.kind /\ x.deltas = q.deltas

\* Stopping all open blocks, in whatever order, leaves none open.
LEMMA StopsHeard ==
  ASSUME NEW q, StreamOK(q), ~q.ended, NEW n \in Nat, NEW order,
         Orders(order, n, q.open), Covers(order, n, q.open),
         NEW stops, stops = Stops(order, n)
  PROVE  StoppedAll(q, stops)
<1> DEFINE rest(k) == q.open \ { order[i] : i \in 1 .. k }
           L(k) == [begun |-> q.begun, kind |-> q.kind, open |-> rest(k), ended |-> q.ended, deltas |-> q.deltas,
                    usage |-> q.usage, sent |-> q.sent, told |-> q.told]
           g == [k \in 0 .. n |-> L(k)]
<1>0. /\ order \in [1 .. n -> q.open] /\ \A i, j \in 1 .. n : i # j => order[i] # order[j]
      /\ \A b \in q.open : \E i \in 1 .. n : order[i] = b
  BY DEF Orders, Covers
<1>1. Len(stops) = n /\ \A k \in 1 .. n : stops[k] = OpenAI!BlockStop(order[k])
  BY DEF Stops
<1>2. rest(0) = q.open /\ rest(n) = {}
  BY <1>0
<1>3. \A k \in 1 .. n : rest(k) = rest(k - 1) \ {order[k]} /\ order[k] \in rest(k - 1)
  <2>1. ASSUME NEW k \in 1 .. n PROVE rest(k) = rest(k - 1) \ {order[k]} /\ order[k] \in rest(k - 1)
    <3>1. \A i : i \in 1 .. k <=> i \in 1 .. (k - 1) \/ i = k
      OBVIOUS
    <3>2. order[k] \in q.open /\ \A i \in 1 .. (k - 1) : order[i] # order[k]
      BY <1>0
    <3>3. QED
      BY <3>1, <3>2
  <2>2. QED
    BY <2>1
<1>4. \A k : rest(k) \subseteq q.open
  OBVIOUS
<1>. HIDE DEF rest
<1>5. \A k \in 0 .. n : /\ L(k).begun = q.begun /\ L(k).kind = q.kind /\ L(k).open = rest(k) /\ L(k).ended = q.ended
                        /\ L(k).deltas = q.deltas /\ L(k).usage = q.usage /\ L(k).sent = q.sent /\ L(k).told = q.told
                        /\ StreamOK(L(k))
  BY <1>4 DEF StreamOK
<1>6. q = L(0)
  BY <1>2 DEF StreamOK
<1>7. g = [k \in 0 .. n |-> g[k]] /\ \A k \in 0 .. n : g[k] = L(k)
  OBVIOUS
<1>. HIDE DEF g
<1>8. ASSUME NEW k \in 1 .. n PROVE Fits(g[k - 1], stops[k]) /\ g[k] = Takes(g[k - 1], stops[k])
  <2>1. PICK p : p = L(k - 1)
    OBVIOUS
  <2>2. k - 1 \in 0 .. n /\ k \in 0 .. n
    OBVIOUS
  <2>3. /\ p.begun = q.begun /\ p.kind = q.kind /\ p.open = rest(k - 1) /\ p.ended = q.ended /\ p.deltas = q.deltas
        /\ p.usage = q.usage /\ p.sent = q.sent /\ p.told = q.told /\ StreamOK(p)
    BY <1>5, <2>1, <2>2
  <2>4. PICK e : e = stops[k]
    OBVIOUS
  <2>5. PICK b \in Nat : b = order[k]
    BY <1>0 DEF StreamOK
  <2>6. e \in Events /\ e.type = "block_stop" /\ e.block = b /\ e.usage = None
    <3>1. "text" \in Kinds
      BY DEF Kinds
    <3>2. e = OpenAI!BlockStop(b)
      BY <1>1, <2>4, <2>5
    <3>3. QED
      BY <3>1, <3>2, EventsMade
  <2>7. PICK x : x = Takes(p, e)
    OBVIOUS
  <2>8. /\ Fits(p, e) /\ Moves(p, x) /\ x.begun = p.begun /\ x.kind = p.kind /\ x.deltas = p.deltas
        /\ x.open = p.open \ {b}
    BY <1>3, <2>3, <2>5, <2>6, <2>7, StopTaken
  <2>9. x = [begun |-> x.begun, kind |-> x.kind, open |-> x.open, ended |-> x.ended, deltas |-> x.deltas,
             usage |-> x.usage, sent |-> x.sent, told |-> x.told]
    BY <2>7, TakesFields
  <2>10. x.open = rest(k)
    BY <1>3, <2>3, <2>5, <2>8
  <2>11. x = L(k)
    BY <2>3, <2>8, <2>9, <2>10 DEF Moves, Quiet
  <2>12. QED
    BY <1>7, <2>1, <2>2, <2>4, <2>7, <2>8, <2>11
<1>. HIDE DEF L
<1>9. Hears(g, q, stops, L(n))
  <2>1. 0 \in 0 .. n /\ n \in 0 .. n
    OBVIOUS
  <2>2. QED
    BY <1>1, <1>6, <1>7, <1>8, <2>1 DEF Hears
<1>10. Heard(q, stops, L(n))
  BY <1>9 DEF Heard
<1>11. n \in 0 .. n
  OBVIOUS
<1>12. QED
  BY <1>2, <1>5, <1>10, <1>11 DEF StoppedAll

\* Contents behind those before.
LEMMA AtBehind ==
  ASSUME NEW a, NEW s, NEW q, At(a, s, q), NEW d, DecOK(d), NEW evs \in Seq(Contents), NEW x, Heard(q, evs, x),
         StreamOK(x), Mirrors(d, x), NEW t, t = OpenAI!Then([s EXCEPT !.dec = d], evs)
  PROVE  At(a, t, x) /\ t.dec = d
<1>1. StateOK(s) /\ s.events \in Seq(Contents)
  BY DEF At, StateOK
<1>2. t.dec = d
  BY <1>1, ThenIs
<1>3. StateOK(t)
  BY <1>1, ThenIs
<1>4. t.events = s.events \o evs
  <2>1. PICK u : u = [s EXCEPT !.dec = d]
    OBVIOUS
  <2>2. u.events = s.events /\ u = [dec |-> d, events |-> s.events, failed |-> FALSE]
    BY <1>1, <2>1 DEF StateOK
  <2>3. PICK c : c = s.events \o evs
    OBVIOUS
  <2>4. t = [u EXCEPT !.events = u.events \o evs]
    BY <2>1 DEF OpenAI!Then
  <2>5. t = [u EXCEPT !.events = c]
    BY <2>2, <2>3, <2>4
  <2>6. QED
    BY <2>2, <2>3, <2>5
<1>5. Heard(a, t.events, x)
  <2>1. Heard(a, s.events \o evs, x)
    BY <1>1, HeardBoth DEF At
  <2>2. QED
    BY <1>4, <2>1
<1>6. QED
  BY <1>2, <1>3, <1>5 DEF At

\* An order of the blocks of the calls.
LEMMA OrderOf ==
  ASSUME NEW f, ToolsOK(f), NEW order \in OpenAI!SetToSeqs(OpenAI!Range(f)), NEW V, V = { f[i] : i \in DOMAIN f }
  PROVE  \E n \in Nat : Orders(order, n, V) /\ Covers(order, n, V)
<1>1. V = OpenAI!Range(f)
  BY DEF OpenAI!Range
<1>2. V \subseteq {f[0], f[1]}
  BY DEF ToolsOK
<1>3. IsFiniteSet(V)
  <2>1. IsFiniteSet({f[0], f[1]})
    <3>1. IsFiniteSet({f[0]})
      BY FS_Singleton
    <3>2. IsFiniteSet({f[0]} \cup {f[1]})
      BY <3>1, FS_AddElement
    <3>3. {f[0]} \cup {f[1]} = {f[0], f[1]}
      OBVIOUS
    <3>4. QED
      BY <3>2, <3>3
  <2>2. QED
    BY <1>2, <2>1, FS_Subset
<1>4. PICK n : n = Cardinality(V)
  OBVIOUS
<1>5. n \in Nat
  BY <1>3, <1>4, FS_CardinalityType
<1>6. OpenAI!Cardinality(V) = n
  BY <1>4 DEF OpenAI!Cardinality, Cardinality
<1>7. order \in OpenAI!SetToSeqs(V)
  BY <1>1
<1>8. Orders(order, n, V)
  <2>1. order \in { g \in [1 .. OpenAI!Cardinality(V) -> V] :
                      \A i, j \in 1 .. OpenAI!Cardinality(V) : i # j => g[i] # g[j] }
    BY <1>6, <1>7 DEF OpenAI!SetToSeqs
  <2>2. QED
    BY <1>6, <2>1 DEF Orders
<1>9. Covers(order, n, V)
  BY <1>3, <1>4, <1>8, OrderOnto
<1>10. QED
  BY <1>5, <1>8, <1>9

\* No block of the stream is open any more, and nothing was added to it.
LeftClosed(a, c, q) == \E x : At(a, c, x) /\ x.deltas = q.deltas /\ x.open = {}

\* That is so when the decoder has closed its blocks.
LEMMA closeOpenBlocksAt ==
  ASSUME NEW a, NEW s, NEW q, At(a, s, q), NEW c \in OpenAI!closeOpenBlocks(s)
  PROVE  LeftClosed(a, c, q) /\ c.dec.started = s.dec.started
<1>1. PICK t : t = OpenAI!closeTextBlock(s)
  OBVIOUS
<1>2. q.deltas \in Nat
  BY DEF At, StreamOK
<1>3. PICK y : At(a, t, y) /\ y.deltas = q.deltas + 0
  BY <1>1, closeTextBlockAt DEF Leads
<1>4. /\ ~t.dec.textOpen /\ t.dec.started = s.dec.started
      /\ StateOK(t) /\ DecOK(t.dec) /\ StreamOK(y) /\ Mirrors(t.dec, y)
  <2>1. ~t.dec.textOpen /\ t.dec.started = s.dec.started
    BY <1>1, closeTextBlockAt
  <2>2. QED
    BY <1>3, <2>1 DEF At, StateOK
<1>5. PICK f : f = t.dec.tools
  OBVIOUS
<1>6. ToolsOK(f) /\ y.open = { f[i] : i \in DOMAIN f } /\ ~y.ended
  BY <1>4, <1>5, DecFields DEF Mirrors
<1>7. PICK order \in OpenAI!SetToSeqs(OpenAI!Range(f)) :
        c = OpenAI!Then([t EXCEPT !.dec.tools = <<>>], [i \in DOMAIN order |-> OpenAI!BlockStop(order[i])])
  BY <1>1, <1>5 DEF OpenAI!closeOpenBlocks
<1>8. PICK n \in Nat : Orders(order, n, y.open) /\ Covers(order, n, y.open)
  BY <1>6, OrderOf
<1>9. PICK stops : stops = [i \in DOMAIN order |-> OpenAI!BlockStop(order[i])]
  OBVIOUS
<1>10. stops \in Seq(Contents)
  BY <1>6, <1>9, OrdersAre
<1>11. PICK x : /\ Heard(y, stops, x) /\ StreamOK(x) /\ x.open = {} /\ x.begun = y.begun /\ ~x.ended
                /\ x.kind = y.kind /\ x.deltas = y.deltas
  <2>1. stops = Stops(order, n)
    BY <1>8, <1>9 DEF Orders, Stops
  <2>2. StoppedAll(y, stops)
    BY <1>4, <1>6, <1>8, <2>1, StopsHeard
  <2>3. QED
    BY <2>2 DEF StoppedAll
<1>12. PICK d : d = [started |-> t.dec.started, next |-> t.dec.next, textOpen |-> t.dec.textOpen,
                     textBlock |-> t.dec.textBlock, tools |-> <<>>]
  OBVIOUS
<1>13. DecOK(d)
  <2>1. ToolsOK(<<>>)
    BY DEF ToolsOK
  <2>2. QED
    BY <1>4, <1>12, <2>1, DecFields, DecMade
<1>14. c = OpenAI!Then([t EXCEPT !.dec = d], stops)
  <2>1. [t EXCEPT !.dec.tools = <<>>] = [t EXCEPT !.dec = [t.dec EXCEPT !.tools = <<>>]]
    BY <1>4 DEF StateOK
  <2>2. t.dec \in [started : BOOLEAN, next : Nat, textOpen : BOOLEAN, textBlock : Nat, tools : {t.dec.tools}]
    BY <1>4, DecFields
  <2>3. d = [t.dec EXCEPT !.tools = <<>>]
    BY <1>12, <2>2
  <2>4. QED
    BY <1>7, <1>9, <2>1, <2>3
<1>15. Mirrors(d, x)
  <2>1. DOMAIN <<>> = {}
    OBVIOUS
  <2>2. /\ d.started = t.dec.started /\ d.next = t.dec.next /\ d.textOpen = t.dec.textOpen /\ d.tools = <<>>
    BY <1>12
  <2>3. x.begun = d.started
    BY <1>4, <1>11, <2>2 DEF Mirrors
  <2>4. QED
    BY <1>4, <1>11, <2>1, <2>2, <2>3 DEF Mirrors
<1>16. At(a, c, x) /\ c.dec = d
  BY <1>3, <1>10, <1>11, <1>13, <1>14, <1>15, AtBehind
<1>17. c.dec.started = s.dec.started
  BY <1>4, <1>12, <1>16
<1>18. x.deltas = q.deltas
  BY <1>2, <1>3, <1>11
<1>19. QED
  BY <1>11, <1>16, <1>17, <1>18 DEF LeftClosed

\* The arguments in the calls of a chunk.
CallDeltas(calls) == Cardinality({ i \in DOMAIN calls : calls[i].args })

\* What they are of no call,
LEMMA NoCallDeltas == CallDeltas(<<>>) = 0
<1>1. { i \in DOMAIN <<>> : <<>>[i].args } = {}
  OBVIOUS
<1>2. QED
  BY <1>1, FS_EmptySet DEF CallDeltas

\* and of the calls that a chunk may have.
LEMMA CallDeltasAre ==
  ASSUME NEW a, NEW b
  PROVE  /\ ~a.args => CallDeltas(<<a>>) = 0
         /\ a.args => CallDeltas(<<a>>) = 1
         /\ a.args /\ b.args => CallDeltas(<<a, b>>) = 2
<1>2. ASSUME ~a.args PROVE CallDeltas(<<a>>) = 0
  <2>1. { i \in DOMAIN <<a>> : <<a>>[i].args } = {}
    BY <1>2
  <2>2. QED
    BY <2>1, FS_EmptySet DEF CallDeltas
<1>3. ASSUME a.args PROVE CallDeltas(<<a>>) = 1
  <2>1. { i \in DOMAIN <<a>> : <<a>>[i].args } = {1}
    BY <1>3
  <2>2. QED
    BY <2>1, FS_Singleton DEF CallDeltas
<1>4. ASSUME a.args, b.args PROVE CallDeltas(<<a, b>>) = 2
  <2>1. DOMAIN <<a, b>> = {1, 2} /\ <<a, b>>[1] = a /\ <<a, b>>[2] = b
    OBVIOUS
  <2>2. { i \in DOMAIN <<a, b>> : <<a, b>>[i].args } = {1} \cup {2}
    BY <1>4, <2>1
  <2>3. IsFiniteSet({1}) /\ Cardinality({1}) = 1 /\ 2 \notin {1}
    BY FS_Singleton
  <2>4. PICK V : V = {1}
    OBVIOUS
  <2>5. IsFiniteSet(V) /\ Cardinality(V) = 1 /\ 2 \notin V
    BY <2>3, <2>4
  <2>6. Cardinality(V \cup {2}) = Cardinality(V) + 1
    BY <2>5, FS_AddElement
  <2>7. Cardinality(V \cup {2}) = 2
    BY <2>5, <2>6
  <2>8. QED
    BY <2>2, <2>4, <2>7 DEF CallDeltas
<1>5. QED
  BY <1>2, <1>3, <1>4

\* All calls of a chunk.
LEMMA handleToolCallsAt ==
  ASSUME NEW a, NEW s, NEW q, At(a, s, q), s.dec.started, NEW calls \in OpenAICalls,
         NEW t, t = OpenAI!handleToolCalls(s, calls)
  PROVE  Leads(a, t, q, CallDeltas(calls)) /\ t.dec.started
<1>1. q.deltas \in Nat
  BY DEF At, StreamOK
<1>2. PICK i, b, c : /\ i = OpenAI!ToolCall(0, TRUE, FALSE) /\ b = OpenAI!ToolCall(0, FALSE, TRUE)
                     /\ c = OpenAI!ToolCall(1, TRUE, TRUE)
  OBVIOUS
<1>3. /\ i.index \in {0, 1} /\ b.index \in {0, 1} /\ c.index \in {0, 1}
      /\ ~i.args /\ b.args /\ c.args /\ i.args \in BOOLEAN /\ b.args \in BOOLEAN /\ c.args \in BOOLEAN
  BY <1>2 DEF OpenAI!ToolCall
<1>4. calls \in {<<>>, <<i>>, <<b>>, <<b, c>>}
  BY <1>2 DEF OpenAICalls
<1>5. CASE calls = <<>>
  <2>1. OpenAI!handleToolCalls(s, <<>>) = s
    BY handleToolCallsIs
  <2>3. t = s /\ CallDeltas(calls) = 0 /\ q.deltas = q.deltas + 0
    BY <1>1, <1>5, <2>1, NoCallDeltas
  <2>2. QED
    BY <2>3 DEF Leads
<1>6. CASE calls = <<i>>
  <2>1. OpenAI!handleToolCalls(s, <<i>>) = OpenAI!handleToolCallDelta(s, i)
    BY handleToolCallsIs
  <2>2. t = OpenAI!handleToolCallDelta(s, i)
    BY <1>6, <2>1
  <2>3. CallDeltas(calls) = 0
    BY <1>3, <1>6, CallDeltasAre
  <2>6. OneCall(i)
    BY <1>3 DEF OneCall
  <2>4. CallLeads(a, t, q, i)
    BY <2>2, <2>6, handleToolCallDeltaAt
  <2>5. QED
    BY <1>3, <2>3, <2>4 DEF CallLeads
<1>7. ASSUME NEW x, NEW y, At(a, x, y), x.dec.started, NEW d \in {b, c}, NEW z, z = OpenAI!handleToolCallDelta(x, d)
      PROVE  Leads(a, z, y, 1) /\ z.dec.started
  <2>1. OneCall(d) /\ d.args
    BY <1>3 DEF OneCall
  <2>2. CallLeads(a, z, y, d)
    BY <1>7, <2>1, handleToolCallDeltaAt
  <2>3. QED
    BY <2>1, <2>2 DEF CallLeads
<1>8. CASE calls = <<b>>
  <2>1. OpenAI!handleToolCalls(s, <<b>>) = OpenAI!handleToolCallDelta(s, b)
    BY handleToolCallsIs
  <2>2. t = OpenAI!handleToolCallDelta(s, b)
    BY <1>8, <2>1
  <2>3. CallDeltas(calls) = 1
    BY <1>3, <1>8, CallDeltasAre
  <2>4. QED
    BY <1>7, <2>2, <2>3
<1>9. CASE calls = <<b, c>>
  <2>1. PICK x : x = OpenAI!handleToolCallDelta(s, b)
    OBVIOUS
  <2>2. t = OpenAI!handleToolCallDelta(x, c)
    <3>1. OpenAI!handleToolCalls(s, calls) = OpenAI!handleToolCallDelta(x, c)
      BY <1>9, <2>1, TwoCallsHandled
    <3>2. QED
      BY <3>1
  <2>3. CallDeltas(calls) = 2
    BY <1>3, <1>9, CallDeltasAre
  <2>4. Leads(a, x, q, 1) /\ x.dec.started
    BY <1>7, <2>1
  <2>5. PICK y : At(a, x, y) /\ y.deltas = q.deltas + 1
    BY <2>4 DEF Leads
  <2>7. Leads(a, t, y, 1) /\ t.dec.started
    BY <1>7, <2>2, <2>4, <2>5
  <2>8. PICK z : At(a, t, z) /\ z.deltas = y.deltas + 1
    BY <2>7 DEF Leads
  <2>9. z.deltas = q.deltas + 2
    BY <1>1, <2>5, <2>8
  <2>10. QED
    BY <2>3, <2>7, <2>8, <2>9 DEF Leads
<1>10. QED
  BY <1>4, <1>5, <1>6, <1>8, <1>9

\* A report touches nothing but the numbers.
ReportTaken(p, e, q) ==
  /\ Fits(p, e) /\ StreamOK(q) /\ q.begun = p.begun /\ q.ended = p.ended
  /\ q.kind = p.kind /\ q.open = p.open /\ q.deltas = p.deltas

\* That is so of every message_delta of a stream that has begun.
LEMMA MessageDeltaTaken ==
  ASSUME NEW p, StreamOK(p), ~p.ended, p.begun, NEW e \in Events, e.type = "message_delta", NEW q, q = Takes(p, e)
  PROVE  ReportTaken(p, e, q)
<1>1. Fits(p, e)
  BY DEF Fits
<1>2. ~Visible(e) /\ p.deltas \in Nat
  BY DEF Visible, StreamOK
<1>3. q.begun = p.begun /\ q.ended = p.ended
  BY <1>1, TakesIs
<1>4. q.kind = p.kind /\ q.open = p.open /\ q.deltas = p.deltas
  <2>1. /\ q.kind = KindThen(p, e) /\ q.open = OpenThen(p, e) /\ q.deltas = p.deltas + (IF Visible(e) THEN 1 ELSE 0)
    BY TakesFields
  <2>2. QED
    BY <1>2, <2>1 DEF KindThen, OpenThen
<1>5. StreamOK(q)
  BY <1>1, TakesOK
<1>6. QED
  BY <1>1, <1>3, <1>4, <1>5 DEF ReportTaken

\* A message_delta with a usage or none.
LEMMA MessageDeltaIs ==
  ASSUME NEW stop \in BOOLEAN, NEW u \in UsageType \cup {None}, NEW final \in BOOLEAN,
         NEW e, e = OpenAI!MessageDelta(stop, u, final)
  PROVE  e \in Events /\ e.type = "message_delta" /\ e.usage = u /\ e.final = final
BY DEF Events, OpenAI!MessageDelta, OpenAI!Event

\* An event that is nothing but its type.
LEMMA EventIs ==
  ASSUME NEW type \in {"message_start", "message_stop", "ping", "error"}, NEW e, e = OpenAI!Event(type)
  PROVE  e \in Events /\ e.type = type /\ e.usage = None
BY DEF Events, OpenAI!Event

\* The last event of a record.
LEMMA AtLast ==
  ASSUME NEW a, NEW s, NEW q, At(a, s, q), NEW e \in Events, Fits(q, e), NEW x, x = Takes(q, e),
         NEW t, t = OpenAI!Then(s, <<e>>)
  PROVE  Heard(a, t.events, x) /\ StreamOK(x) /\ t.dec = s.dec /\ DecOK(t.dec)
<1>1. StateOK(s) /\ Heard(a, s.events, q) /\ StreamOK(q)
  BY DEF At
<1>2. t.dec = s.dec /\ t.events = s.events \o <<e>> /\ s.events \in Seq(Contents) /\ DecOK(s.dec)
  BY <1>1, LastIs
<1>3. PICK V : V = Contents \cup Events
  OBVIOUS
<1>4. s.events \in Seq(V)
  BY <1>2, <1>3, SeqMonotonic
<1>5. PICK evs : evs = <<e>>
  OBVIOUS
<1>6. evs \in Seq(V)
  BY <1>3, <1>5
<1>7. Heard(q, evs, x)
  BY <1>5, HeardOne
<1>8. Heard(a, s.events \o evs, x)
  BY <1>1, <1>4, <1>6, <1>7, HeardBoth
<1>9. StreamOK(x)
  BY <1>1, TakesOK
<1>10. QED
  BY <1>2, <1>5, <1>8, <1>9

-----------------------------------------------------------------------------
(* What a provider says, as it is heard.                                   *)

\* The block an Anthropic provider is in is the one that is open, of all those it has made.
InBlock(p, d, m) ==
  /\ p.kind = d /\ DOMAIN d = { b \in Nat : b < m.next } /\ p.begun = m.started
  /\ m.open = None => p.open = {}
  /\ m.open # None => m.next > 0 /\ p.open = {m.next - 1} /\ d[m.next - 1] = m.open

\* A stream as its decoder and its provider have it.
Pictured(p, d, m) ==
  /\ StreamOK(p) /\ ~p.ended /\ p.deltas = m.deltas
  /\ channel = "openai" => DecOK(d) /\ Mirrors(d, p)
  /\ channel = "anthropic" => InBlock(p, d, m)

\* The stream after a record: at its end, or as the decoder and the provider have it now.
RecordTaken(p, s, d) ==
  \E q : /\ Heard(p, d.events, q) /\ StreamOK(q) /\ q.deltas = s.made.deltas
         /\ s.record.type \in Ends => q.ended
         /\ s.record.type \notin Ends => Pictured(q, d.dec, s.made)

\* The OpenAI decoder before a record has the picture of the stream.
LEMMA FreshAt ==
  ASSUME channel = "openai", NEW p, Pictured(p, dec, made), NEW f, f = OpenAI!Decoded(dec, <<>>)
  PROVE  At(p, f, p) /\ f.dec = dec
<1>1. DecOK(dec) /\ Mirrors(dec, p) /\ StreamOK(p)
  BY DEF Pictured
<1>2. StateOK(f) /\ f.dec = dec /\ f.events = <<>>
  BY <1>1, FreshState
<1>3. Heard(p, f.events, p)
  BY <1>2, HeardNothing
<1>4. QED
  BY <1>1, <1>2, <1>3 DEF At

\* Heartbeats, errors and the end of an OpenAI provider,
LEMMA PlainTaken ==
  ASSUME channel = "openai", NEW p, Pictured(p, dec, made), NEW s, SaysPlain(s),
         NEW d \in OpenAI!Decode(dec, s.record), ~d.failed
  PROVE  RecordTaken(p, s, d)
<1>1. PICK f : f = OpenAI!Decoded(dec, <<>>)
  OBVIOUS
<1>2. At(p, f, p) /\ f.dec = dec
  BY <1>1, FreshAt
<1>3. /\ s.made = made /\ Plain(s.record.type) /\ StreamOK(p) /\ ~p.ended /\ p.deltas = made.deltas /\ Mirrors(dec, p)
  BY DEF SaysPlain, Pictured
<1>4. CASE s.record.type = "blank"
  <2>1. d = f
    BY <1>1, <1>4 DEF OpenAI!Decode
  <2>2. Heard(p, d.events, p) /\ d.dec = dec /\ s.record.type \notin Ends
    BY <1>2, <1>4, <2>1 DEF At, Ends
  <2>3. QED
    BY <1>3, <2>2 DEF RecordTaken
<1>5. CASE s.record.type = "garbage"
  <2>1. d = [f EXCEPT !.failed = TRUE]
    BY <1>1, <1>5 DEF OpenAI!Decode
  <2>2. f \in [dec : {f.dec}, events : {f.events}, failed : {FALSE}]
    BY <1>1 DEF OpenAI!Decoded
  <2>3. d.failed = TRUE
    BY <2>1, <2>2
  <2>4. QED
    BY <2>3
<1>6. ASSUME NEW type \in {"ping", "error"}, d = OpenAI!Then(f, <<OpenAI!Event(type)>>), s.record.type \notin Ends
      PROVE  RecordTaken(p, s, d)
  <2>1. PICK e : e = OpenAI!Event(type)
    OBVIOUS
  <2>2. e \in Events /\ e.type = type /\ e.usage = None
    BY <2>1, EventIs
  <2>3. PICK x : x = Takes(p, e)
    OBVIOUS
  <2>4. TakenOther(p, e, x)
    BY <1>3, <2>2, <2>3, OtherTaken
  <2>5. /\ Fits(p, e) /\ x.kind = p.kind /\ x.open = p.open /\ x.deltas = p.deltas /\ x.begun = p.begun /\ x.ended = p.ended
    BY <2>2, <2>4 DEF TakenOther
  <2>6. d = OpenAI!Then(f, <<e>>)
    BY <1>6, <2>1
  <2>7. Heard(p, d.events, x) /\ StreamOK(x) /\ d.dec = dec /\ DecOK(d.dec)
    BY <1>2, <2>2, <2>3, <2>5, <2>6, AtLast
  <2>8. Mirrors(d.dec, x)
    BY <1>3, <2>5, <2>7 DEF Mirrors
  <2>9. Pictured(x, d.dec, s.made)
    BY <1>3, <2>5, <2>7, <2>8 DEF Pictured
  <2>10. QED
    BY <1>3, <1>6, <2>5, <2>7, <2>9 DEF RecordTaken
<1>7. CASE s.record.type = "comment"
  <2>1. d = OpenAI!Then(f, <<OpenAI!Event("ping")>>)
    BY <1>1, <1>7 DEF OpenAI!Decode
  <2>2. QED
    BY <1>6, <1>7, <2>1 DEF Ends
<1>8. CASE s.record.type = "error"
  <2>1. d = OpenAI!Then(f, <<OpenAI!Event("error")>>)
    BY <1>1, <1>8 DEF OpenAI!Decode
  <2>2. QED
    BY <1>6, <1>8, <2>1 DEF Ends
<1>9. CASE s.record.type = "done"
  <2>1. PICK c \in OpenAI!closeOpenBlocks(f) : d = OpenAI!Then(c, <<OpenAI!Event("message_stop")>>)
    BY <1>1, <1>9 DEF OpenAI!Decode
  <2>2. PICK y : At(p, c, y) /\ y.deltas = p.deltas /\ y.open = {}
    <3>1. LeftClosed(p, c, p)
      BY <1>2, <2>1, closeOpenBlocksAt
    <3>2. QED
      BY <3>1 DEF LeftClosed
  <2>3. StreamOK(y) /\ ~y.ended
    BY <2>2 DEF At, Mirrors
  <2>4. PICK e : e = OpenAI!Event("message_stop")
    OBVIOUS
  <2>5. e \in Events /\ e.type = "message_stop" /\ e.usage = None
    <3>1. PICK type \in {"message_start", "message_stop", "ping", "error"} : type = "message_stop"
      OBVIOUS
    <3>2. QED
      BY <2>4, <3>1, EventIs
  <2>6. PICK x : x = Takes(y, e)
    OBVIOUS
  <2>7. TakenOther(y, e, x)
    BY <2>2, <2>3, <2>5, <2>6, OtherTaken
  <2>8. Fits(y, e) /\ x.ended = TRUE /\ x.deltas = y.deltas
    BY <2>5, <2>7 DEF TakenOther
  <2>9. d = OpenAI!Then(c, <<e>>)
    BY <2>1, <2>4
  <2>10. Heard(p, d.events, x) /\ StreamOK(x)
    BY <2>2, <2>5, <2>6, <2>8, <2>9, AtLast
  <2>11. s.record.type \in Ends
    BY <1>9 DEF Ends
  <2>12. QED
    BY <1>3, <2>2, <2>8, <2>10, <2>11 DEF RecordTaken
<1>10. QED
  BY <1>3, <1>4, <1>5, <1>7, <1>8, <1>9 DEF Plain

\* The deltas of a chunk, which is what its calls and its text have.
DeltasSaid(s) ==
  /\ s.record.type = "chunk" /\ ~s.record.choice => s.made.deltas = made.deltas
  /\ s.record.type = "chunk" /\ s.record.choice =>
       /\ s.record.tools \in OpenAICalls
       /\ s.made.deltas = made.deltas + ((IF s.record.text THEN 1 ELSE 0) + CallDeltas(s.record.tools))

\* The provider counts them.
LEMMA OpenAIDeltas ==
  ASSUME channel = "openai", made \in MadeType, NEW s \in Sayings
  PROVE  DeltasSaid(s)
<1>1. OpenAIForms(s)
  BY OpenAISaysForms DEF Sayings
<1>2. Begun.deltas = made.deltas /\ Begun \in MadeType /\ made.deltas \in Nat
  <2>1. Begun = [made EXCEPT !.started = TRUE]
    BY DEF Begun
  <2>2. QED
    BY <2>1, BegunIs DEF MadeType
<1>3. ASSUME NEW t \in {"comment", "blank", "garbage", "error", "done"}, s = Says([type |-> t], made, None)
      PROVE  DeltasSaid(s)
  BY <1>3 DEF Says, DeltasSaid
<1>4. ASSUME NEW r \in OpenAIChunks, NEW u, s.record = r \/ s.record = [r EXCEPT !.usage = u], s.made = AfterChunk(r)
      PROVE  DeltasSaid(s)
  <2>1. PICK text \in BOOLEAN, finish \in BOOLEAN, tools \in OpenAICalls : r = OpenAIChunk(text, tools, finish)
    BY DEF OpenAIChunks
  <2>2. r = [type |-> "chunk", role |-> FALSE, choice |-> TRUE, text |-> text, tools |-> tools,
             finish |-> finish, usage |-> None]
    BY <2>1, ChunkIs
  <2>3. PICK z : z = s.record
    OBVIOUS
  <2>4. z.choice /\ z.text = text /\ z.tools = tools /\ r.text = text /\ r.tools = tools
    BY <1>4, <2>2, <2>3
  <2>5. PICK n \in Nat, d \in Nat : n = ChunkTokens(r) /\ d = ChunkDeltas(r)
    BY ChunkCounts
  <2>6. d = (IF text THEN 1 ELSE 0) + CallDeltas(tools)
    <3>1. ChunkDeltas(r) = (IF r.text THEN 1 ELSE 0) + CallDeltas(r.tools)
      BY DEF ChunkDeltas, CallDeltas
    <3>2. QED
      BY <2>4, <2>5, <3>1
  <2>7. s.made.deltas = made.deltas + d
    <3>1. PICK b : b = Begun
      OBVIOUS
    <3>2. b \in [started : BOOLEAN, tokens : Nat, deltas : {made.deltas}, open : {b.open}, next : Nat,
                 flawless : BOOLEAN, finished : BOOLEAN, told : BOOLEAN]
      <4>1. b \in MadeType /\ b.deltas = made.deltas /\ 0 .. MaxTokens \subseteq Nat
        BY <1>2, <3>1
      <4>2. QED
        BY <4>1 DEF MadeType
    <3>3. PICK y : y = AfterChunk(r)
      OBVIOUS
    <3>4. PICK tokens, deltas : tokens = b.tokens + n /\ deltas = b.deltas + d
      OBVIOUS
    <3>5. y = [b EXCEPT !.tokens = tokens, !.deltas = deltas]
      BY <2>5, <3>1, <3>3, <3>4 DEF AfterChunk
    <3>6. y.deltas = deltas /\ b.deltas = made.deltas
      BY <3>2, <3>5
    <3>7. QED
      BY <1>4, <3>3, <3>4, <3>6
  <2>8. z.tools \in OpenAICalls /\ s.made.deltas = made.deltas + ((IF z.text THEN 1 ELSE 0) + CallDeltas(z.tools))
    BY <2>1, <2>4, <2>6, <2>7
  <2>9. QED
    BY <2>3, <2>4, <2>8 DEF DeltasSaid
<1>5. ASSUME NEW r \in OpenAIChunks, s = Says(r, AfterChunk(r), None) PROVE DeltasSaid(s)
  <2>1. s.record = r /\ s.made = AfterChunk(r)
    BY <1>5 DEF Says
  <2>2. QED
    BY <1>4, <2>1
<1>6. ASSUME NEW r \in OpenAIChunks, NEW u, s = Says([r EXCEPT !.usage = u], AfterChunk(r), u) PROVE DeltasSaid(s)
  <2>1. s.record = [r EXCEPT !.usage = u] /\ s.made = AfterChunk(r)
    BY <1>6 DEF Says
  <2>2. QED
    BY <1>4, <2>1
<1>7. ASSUME NEW u, s = Says([OpenAI!Chunk EXCEPT !.choice = FALSE, !.usage = u], Begun, u) PROVE DeltasSaid(s)
  <2>1. s.record = [OpenAI!Chunk EXCEPT !.choice = FALSE, !.usage = u] /\ s.made = Begun
    BY <1>7 DEF Says
  <2>2. ~s.record.choice
    BY <2>1 DEF OpenAI!Chunk
  <2>3. QED
    BY <1>2, <2>1, <2>2 DEF DeltasSaid
<1>8. QED
  BY <1>1, <1>3, <1>5, <1>6, <1>7 DEF OpenAIForms

\* The tail that only reports, which begins the message if nothing else did,
LEMMA TailTaken ==
  ASSUME channel = "openai", NEW p, Pictured(p, dec, made), NEW s, SaysTail(s), DeltasSaid(s),
         NEW d \in OpenAI!Decode(dec, s.record)
  PROVE  RecordTaken(p, s, d)
<1>1. PICK f : f = OpenAI!Decoded(dec, <<>>)
  OBVIOUS
<1>2. At(p, f, p) /\ f.dec = dec
  BY <1>1, FreshAt
<1>3. PICK c : c = OpenAI!messageStart(f)
  OBVIOUS
<1>4. PICK y : At(p, c, y) /\ y.deltas = p.deltas + 0
  <2>1. Leads(p, c, p, 0)
    BY <1>2, <1>3, messageStartAt
  <2>2. QED
    BY <2>1 DEF Leads
<1>5. c.dec.started
  <2>1. StateOK(f)
    BY <1>2 DEF At
  <2>2. QED
    BY <1>3, <2>1, messageStartIs
<1>6. /\ s.record.type = "chunk" /\ ~s.record.choice /\ s.record.usage = s.final
      /\ s.final \in OpenAIUsages(s.made.tokens) /\ s.made.tokens \in Nat /\ s.made.deltas = made.deltas
  BY DEF SaysTail, SaidOK, MadeType, DeltasSaid
<1>7. PICK u : u = OpenAI!canonicalUsageFromWire(s.final)
  OBVIOUS
<1>8. s.final # None /\ u \in UsageType
  BY <1>6, <1>7, OpenAIReport DEF Sound
<1>9. PICK e : e = OpenAI!MessageDelta(FALSE, u, TRUE)
  OBVIOUS
<1>10. e \in Events /\ e.type = "message_delta"
  BY <1>8, <1>9, MessageDeltaIs
<1>11. d = OpenAI!Then(c, <<e>>)
  BY <1>1, <1>3, <1>6, <1>7, <1>8, <1>9 DEF OpenAI!Decode
<1>12. StreamOK(y) /\ ~y.ended /\ y.begun /\ Mirrors(c.dec, y)
  BY <1>4, <1>5 DEF At, Mirrors
<1>13. PICK x : x = Takes(y, e)
  OBVIOUS
<1>14. ReportTaken(y, e, x)
  BY <1>10, <1>12, <1>13, MessageDeltaTaken
<1>15. Heard(p, d.events, x) /\ StreamOK(x) /\ d.dec = c.dec /\ DecOK(d.dec)
  BY <1>4, <1>10, <1>11, <1>13, <1>14, AtLast DEF ReportTaken
<1>16. Mirrors(d.dec, x)
  BY <1>12, <1>14, <1>15 DEF Mirrors, ReportTaken
<1>17. x.deltas = s.made.deltas
  BY <1>4, <1>6, <1>14 DEF ReportTaken, Pictured, StreamOK
<1>18. Pictured(x, d.dec, s.made)
  BY <1>12, <1>14, <1>15, <1>16, <1>17 DEF Pictured, ReportTaken
<1>19. s.record.type \notin Ends
  BY <1>6 DEF Ends
<1>20. QED
  BY <1>15, <1>17, <1>18, <1>19 DEF RecordTaken

\* and a chunk with its text, its calls, its finish and its report.
LEMMA ChoiceTaken ==
  ASSUME channel = "openai", NEW p, Pictured(p, dec, made), NEW s, SaysChoice(s), DeltasSaid(s),
         NEW d \in OpenAI!Decode(dec, s.record)
  PROVE  RecordTaken(p, s, d)
<1>1. PICK f : f = OpenAI!Decoded(dec, <<>>)
  OBVIOUS
<1>2. At(p, f, p) /\ f.dec = dec /\ p.deltas \in Nat /\ p.deltas = made.deltas
  BY <1>1, FreshAt DEF Pictured, StreamOK
<1>3. PICK c : c = OpenAI!messageStart(f)
  OBVIOUS
<1>4. PICK y : At(p, c, y) /\ y.deltas = p.deltas + 0
  <2>1. Leads(p, c, p, 0)
    BY <1>2, <1>3, messageStartAt
  <2>2. QED
    BY <2>1 DEF Leads
<1>5. c.dec.started /\ StateOK(c)
  <2>1. StateOK(f)
    BY <1>2 DEF At
  <2>2. QED
    BY <1>3, <2>1, messageStartIs
<1>6. PICK r : r = s.record
  OBVIOUS
<1>7. /\ r.type = "chunk" /\ r.choice /\ r.usage = s.final /\ r.text \in BOOLEAN /\ r.finish \in BOOLEAN
      /\ r.tools \in OpenAICalls /\ s.made.tokens \in Nat
      /\ s.final # None => r.finish /\ s.final \in OpenAIUsages(s.made.tokens)
      /\ s.made.deltas = made.deltas + ((IF r.text THEN 1 ELSE 0) + CallDeltas(r.tools))
  <2>1. /\ r.type = "chunk" /\ r.choice /\ r.usage = s.final /\ r.text \in BOOLEAN /\ r.finish \in BOOLEAN
        /\ s.final # None => r.finish /\ s.final \in OpenAIUsages(s.made.tokens)
    BY <1>6 DEF SaysChoice
  <2>2. s.made.tokens \in Nat
    BY DEF SaysChoice, SaidOK, MadeType
  <2>3. /\ r.tools \in OpenAICalls
        /\ s.made.deltas = made.deltas + ((IF r.text THEN 1 ELSE 0) + CallDeltas(r.tools))
    BY <1>6, <2>1 DEF DeltasSaid
  <2>4. QED
    BY <2>1, <2>2, <2>3
<1>8. PICK n \in Nat : n = IF r.text THEN 1 ELSE 0
  OBVIOUS
<1>9. PICK x : x = IF r.text THEN OpenAI!textDelta(c) ELSE c
  OBVIOUS
<1>10. Leads(p, x, y, n) /\ x.dec.started
  <2>1. CASE r.text
    <3>1. x = OpenAI!textDelta(c) /\ n = 1
      BY <1>8, <1>9, <2>1
    <3>2. Leads(p, x, y, 1)
      BY <1>4, <1>5, <3>1, textDeltaAt
    <3>3. x.dec.started = c.dec.started
      BY <1>5, <3>1, textDeltaIs
    <3>4. QED
      BY <1>5, <3>1, <3>2, <3>3
  <2>2. CASE ~r.text
    <3>1. x = c /\ n = 0 /\ y.deltas = y.deltas + 0
      BY <1>2, <1>4, <1>8, <1>9, <2>2
    <3>2. QED
      BY <1>4, <1>5, <3>1 DEF Leads
  <2>3. QED
    BY <2>1, <2>2
<1>11. PICK z : At(p, x, z) /\ z.deltas = y.deltas + n
  BY <1>10 DEF Leads
<1>12. PICK t : t = OpenAI!handleToolCalls(x, r.tools)
  OBVIOUS
<1>13. PICK m : m = CallDeltas(r.tools)
  OBVIOUS
<1>14. Leads(p, t, z, m) /\ t.dec.started
  BY <1>7, <1>10, <1>11, <1>12, <1>13, handleToolCallsAt
<1>15. PICK w : At(p, t, w) /\ w.deltas = z.deltas + m
  BY <1>14 DEF Leads
<1>16. w.deltas = s.made.deltas
  <2>1. z.deltas = p.deltas + n
    BY <1>2, <1>4, <1>11
  <2>2. z.deltas \in Nat /\ w.deltas \in Nat
    BY <1>11, <1>15 DEF At, StreamOK
  <2>3. m \in Nat
    <3>1. m \in {0, 1, 2}
      <4>1. PICK i, b, j : /\ i = OpenAI!ToolCall(0, TRUE, FALSE) /\ b = OpenAI!ToolCall(0, FALSE, TRUE)
                           /\ j = OpenAI!ToolCall(1, TRUE, TRUE)
        OBVIOUS
      <4>2. ~i.args /\ b.args /\ j.args
        BY <4>1 DEF OpenAI!ToolCall
      <4>3. r.tools \in {<<>>, <<i>>, <<b>>, <<b, j>>}
        BY <1>7, <4>1 DEF OpenAICalls
      <4>4. CallDeltas(<<i>>) = 0 /\ CallDeltas(<<b>>) = 1 /\ CallDeltas(<<b, j>>) = 2
        BY <4>2, CallDeltasAre
      <4>5. QED
        BY <1>13, <4>3, <4>4, NoCallDeltas
    <3>2. QED
      BY <3>1
  <2>4. s.made.deltas = p.deltas + (n + m)
    BY <1>2, <1>7, <1>8, <1>13
  <2>5. QED
    BY <1>2, <1>15, <2>1, <2>2, <2>3, <2>4
<1>17. PICK u : u = IF r.usage = None THEN None ELSE OpenAI!canonicalUsageFromWire(r.usage)
  OBVIOUS
<1>18. u \in UsageType \cup {None}
  BY <1>7, <1>17, OpenAIReport DEF Sound
<1>19. d \in OpenAI!decodeChoice(c, r)
  BY <1>1, <1>3, <1>6, <1>7 DEF OpenAI!Decode
<1>20. PICK e : e = OpenAI!MessageDelta(TRUE, u, u # None)
  OBVIOUS
<1>21. e \in Events /\ e.type = "message_delta"
  <2>1. PICK final \in BOOLEAN : final = (u # None)
    OBVIOUS
  <2>2. PICK stop \in BOOLEAN : stop = TRUE
    OBVIOUS
  <2>3. e = OpenAI!MessageDelta(stop, u, final)
    BY <1>20, <2>1, <2>2
  <2>4. QED
    BY <1>18, <2>3, MessageDeltaIs
<1>22. d \in (IF r.finish THEN { OpenAI!Then(b, <<e>>) : b \in OpenAI!closeOpenBlocks(t) } ELSE {t})
  BY <1>9, <1>12, <1>17, <1>19, <1>20 DEF OpenAI!decodeChoice
<1>23. s.record.type \notin Ends
  BY <1>6, <1>7 DEF Ends
<1>24. CASE ~r.finish
  <2>1. d = t
    BY <1>22, <1>24
  <2>2. Heard(p, d.events, w) /\ StreamOK(w) /\ Mirrors(d.dec, w) /\ DecOK(d.dec)
    BY <1>15, <2>1 DEF At, StateOK
  <2>3. ~w.ended
    BY <2>2 DEF Mirrors
  <2>4. Pictured(w, d.dec, s.made)
    BY <1>16, <2>2, <2>3 DEF Pictured
  <2>5. QED
    BY <1>16, <1>23, <2>2, <2>4 DEF RecordTaken
<1>25. CASE r.finish
  <2>1. PICK b \in OpenAI!closeOpenBlocks(t) : d = OpenAI!Then(b, <<e>>)
    BY <1>22, <1>25
  <2>2. LeftClosed(p, b, w) /\ b.dec.started = t.dec.started
    BY <1>15, <2>1, closeOpenBlocksAt
  <2>3. PICK v : At(p, b, v) /\ v.deltas = w.deltas
    BY <2>2 DEF LeftClosed
  <2>4. StreamOK(v) /\ ~v.ended /\ v.begun /\ Mirrors(b.dec, v)
    BY <1>14, <2>2, <2>3 DEF At, Mirrors
  <2>5. PICK q : q = Takes(v, e)
    OBVIOUS
  <2>6. ReportTaken(v, e, q)
    BY <1>21, <2>4, <2>5, MessageDeltaTaken
  <2>7. Heard(p, d.events, q) /\ StreamOK(q) /\ d.dec = b.dec /\ DecOK(d.dec)
    BY <1>21, <2>1, <2>3, <2>5, <2>6, AtLast DEF ReportTaken
  <2>8. Mirrors(d.dec, q)
    BY <2>4, <2>6, <2>7 DEF Mirrors, ReportTaken
  <2>9. q.deltas = s.made.deltas /\ ~q.ended
    BY <1>16, <2>3, <2>4, <2>6 DEF ReportTaken
  <2>10. Pictured(q, d.dec, s.made)
    BY <2>7, <2>8, <2>9 DEF Pictured
  <2>11. QED
    BY <1>23, <2>7, <2>9, <2>10 DEF RecordTaken
<1>26. QED
  BY <1>7, <1>24, <1>25

\* Whatever an OpenAI provider says, its decoder has the picture of the stream it belongs to.
LEMMA OpenAITaken ==
  ASSUME channel = "openai", made \in MadeType, NEW p, Pictured(p, dec, made), NEW s \in Sayings,
         NEW d \in OpenAI!Decode(dec, s.record), ~d.failed
  PROVE  RecordTaken(p, s, d)
<1>1. DeltasSaid(s)
  BY OpenAIDeltas
<1>2. SaysPlain(s) \/ SaysChoice(s) \/ SaysTail(s)
  BY OpenAISaid
<1>3. QED
  BY <1>1, <1>2, PlainTaken, ChoiceTaken, TailTaken

\* One token more leaves the blocks and the deltas as they are.
LEMMA MoreLeaves ==
  ASSUME made \in MadeType, NEW m, m = More
  PROVE  /\ m.started = made.started /\ m.deltas = made.deltas /\ m.open = made.open /\ m.next = made.next
         /\ m = [started |-> m.started, tokens |-> m.tokens, deltas |-> m.deltas, open |-> m.open, next |-> m.next,
                 flawless |-> m.flawless, finished |-> m.finished, told |-> m.told]
<1>1. PICK n : n = made.tokens + 1
  OBVIOUS
<1>2. m = [made EXCEPT !.tokens = n]
  BY <1>1 DEF More
<1>3. m = [started |-> made.started, tokens |-> n, deltas |-> made.deltas, open |-> made.open,
           next |-> made.next, flawless |-> made.flawless, finished |-> made.finished, told |-> made.told]
  BY <1>2 DEF MadeType
<1>4. QED
  BY <1>3

\* The one event of a record.
LEMMA OneTaken ==
  ASSUME NEW p, StreamOK(p), NEW e, Fits(p, e), NEW q, q = Takes(p, e), NEW x, NEW d, d = Anthropic!Decoded(x, <<e>>)
  PROVE  Heard(p, d.events, q) /\ StreamOK(q) /\ d.dec = x
<1>1. d.events = <<e>> /\ d.dec = x
  BY DEF Anthropic!Decoded
<1>2. Heard(p, <<e>>, q)
  BY HeardOne
<1>3. QED
  BY <1>1, <1>2, TakesOK

\* The events of an Anthropic decoder.
LEMMA AnthropicEvents ==
  ASSUME NEW b \in Nat, NEW k \in Kinds
  PROVE  /\ Anthropic!BlockStop(b) \in Events /\ Anthropic!BlockStop(b).type = "block_stop"
         /\ Anthropic!BlockStop(b).block = b /\ Anthropic!BlockStop(b).usage = None
         /\ Anthropic!BlockStart(b, k) \in Events /\ Anthropic!BlockStart(b, k).type = "block_start"
         /\ Anthropic!BlockStart(b, k).block = b /\ Anthropic!BlockStart(b, k).kind = k
         /\ Anthropic!BlockStart(b, k).usage = None
         /\ Anthropic!BlockDelta(b, k) \in Events /\ Anthropic!BlockDelta(b, k).type = "block_delta"
         /\ Anthropic!BlockDelta(b, k).block = b /\ Anthropic!BlockDelta(b, k).delta = k
         /\ Anthropic!BlockDelta(b, k).usage = None
BY DEF Events, Anthropic!BlockStop, Anthropic!BlockStart, Anthropic!BlockDelta, Anthropic!Event

\* All ways a record may be decoded.
AllTaken(p, s) == \A d \in Anthropic!Decode(dec, s.record) : ~d.failed => RecordTaken(p, s, d)

\* A record whose one event changes neither the blocks nor the deltas.
LEMMA SameTaken ==
  ASSUME channel = "anthropic", NEW p, Pictured(p, dec, made), NEW s, s.record.type \notin Ends,
         NEW d, NEW q, Heard(p, d.events, q), StreamOK(q), d.dec = dec,
         q.begun = s.made.started, ~q.ended, q.kind = p.kind, q.open = p.open, q.deltas = p.deltas,
         s.made.open = made.open, s.made.next = made.next, s.made.deltas = made.deltas
  PROVE  RecordTaken(p, s, d)
<1>1. StreamOK(p) /\ p.deltas = made.deltas /\ InBlock(p, dec, made)
  BY DEF Pictured
<1>2. InBlock(q, d.dec, s.made)
  BY <1>1 DEF InBlock
<1>3. Pictured(q, d.dec, s.made)
  BY <1>1, <1>2 DEF Pictured
<1>4. QED
  BY <1>1, <1>3 DEF RecordTaken

\* Heartbeats, errors and the end of an Anthropic provider,
LEMMA QuietTaken ==
  ASSUME channel = "anthropic", made \in MadeType, NEW p, Pictured(p, dec, made), NEW s,
         NEW t \in {"comment", "ping", "blank", "garbage", "error", "message_stop"},
         s = Says(Anthropic!Record(t), made, None), t = "message_stop" => made.open = None
  PROVE  AllTaken(p, s)
<1>1. s.record.type = t /\ s.made = made
  BY RecordFields DEF Says
<1>2. StreamOK(p) /\ ~p.ended /\ p.deltas = made.deltas /\ p.begun = made.started /\ (t = "message_stop" => p.open = {})
  BY DEF Pictured, InBlock
<1>3. ASSUME NEW d \in Anthropic!Decode(dec, s.record), ~d.failed PROVE RecordTaken(p, s, d)
  <2>1. CASE t = "garbage"
    <3>1. PICK f : f = Anthropic!Decoded(dec, <<>>)
      OBVIOUS
    <3>2. f \in [dec : {dec}, events : {<<>>}, failed : {FALSE}]
      BY <3>1 DEF Anthropic!Decoded
    <3>3. d = [f EXCEPT !.failed = TRUE]
      BY <1>1, <1>3, <2>1, <3>1 DEF Anthropic!Decode
    <3>4. d.failed = TRUE
      BY <3>2, <3>3
    <3>5. QED
      BY <1>3, <3>4
  <2>2. CASE t = "blank"
    <3>1. d = Anthropic!Decoded(dec, <<>>)
      BY <1>1, <1>3, <2>2 DEF Anthropic!Decode
    <3>2. d.events = <<>> /\ d.dec = dec
      BY <3>1 DEF Anthropic!Decoded
    <3>3. Heard(p, d.events, p) /\ s.record.type \notin Ends
      BY <1>1, <2>2, <3>2, HeardNothing DEF Ends
    <3>4. QED
      BY <1>1, <1>2, <3>2, <3>3, SameTaken
  <2>3. CASE t \in {"comment", "ping", "error", "message_stop"}
    <3>1. PICK type \in {"message_start", "message_stop", "ping", "error"} : type = IF t = "comment" THEN "ping" ELSE t
      BY <2>3
    <3>2. PICK e : e = Anthropic!Event(type)
      OBVIOUS
    <3>3. d = Anthropic!Decoded(dec, <<e>>)
      BY <1>1, <1>3, <2>3, <3>1, <3>2 DEF Anthropic!Decode
    <3>4. e \in Events /\ e.type = type /\ e.usage = None
      BY <3>2, EventIs DEF Anthropic!Event, OpenAI!Event
    <3>5. PICK q : q = Takes(p, e)
      OBVIOUS
    <3>6. TakenOther(p, e, q)
      BY <1>2, <2>3, <3>1, <3>4, <3>5, OtherTaken
    <3>7. /\ Fits(p, e) /\ q.kind = p.kind /\ q.open = p.open /\ q.deltas = p.deltas /\ q.begun = p.begun
          /\ (t = "message_stop" => q.ended) /\ (t # "message_stop" => q.ended = p.ended)
      BY <2>3, <3>1, <3>4, <3>6 DEF TakenOther
    <3>8. Heard(p, d.events, q) /\ StreamOK(q) /\ d.dec = dec
      BY <1>2, <3>3, <3>5, <3>7, OneTaken
    <3>9. CASE t = "message_stop"
      <4>1. s.record.type \in Ends
        BY <1>1, <3>9 DEF Ends
      <4>2. QED
        BY <1>1, <1>2, <3>7, <3>8, <3>9, <4>1 DEF RecordTaken
    <3>10. CASE t # "message_stop"
      <4>1. s.record.type \notin Ends
        BY <1>1, <2>3, <3>10 DEF Ends
      <4>2. QED
        BY <1>1, <1>2, <3>7, <3>8, <3>10, <4>1, SameTaken
    <3>11. QED
      BY <3>9, <3>10
  <2>4. QED
    BY <2>1, <2>2, <2>3
<1>4. QED
  BY <1>3 DEF AllTaken

\* a record nobody understands,
LEMMA UnknownTaken ==
  ASSUME channel = "anthropic", made \in MadeType, NEW p, Pictured(p, dec, made),
         NEW s, s = Says(Anthropic!Record("unknown"), More, None)
  PROVE  AllTaken(p, s)
<1>1. s.record.type = "unknown" /\ s.made = More
  <2>1. s.record = Anthropic!Record("unknown") /\ s.made = More
    BY DEF Says
  <2>2. QED
    BY <2>1, RecordFields
<1>2. StreamOK(p) /\ ~p.ended /\ p.begun = made.started
  BY DEF Pictured, InBlock
<1>3. ASSUME NEW d \in Anthropic!Decode(dec, s.record), ~d.failed PROVE RecordTaken(p, s, d)
  <2>1. d = Anthropic!Decoded(dec, <<>>)
    BY <1>1, <1>3 DEF Anthropic!Decode
  <2>2. d.events = <<>> /\ d.dec = dec
    BY <2>1 DEF Anthropic!Decoded
  <2>3. Heard(p, d.events, p) /\ s.record.type \notin Ends
    BY <1>1, <2>2, HeardNothing DEF Ends
  <2>4. /\ s.made.started = made.started /\ s.made.deltas = made.deltas /\ s.made.open = made.open
        /\ s.made.next = made.next
    BY <1>1, MoreLeaves
  <2>5. QED
    BY <1>2, <2>2, <2>3, <2>4, SameTaken
<1>4. QED
  BY <1>3 DEF AllTaken

\* the start of the message,
LEMMA BeginTaken ==
  ASSUME channel = "anthropic", made \in MadeType, ~made.started, NEW p, Pictured(p, dec, made), NEW s \in SaysStart
  PROVE  AllTaken(p, s)
<1>1. PICK w \in {None} \cup AnthropicUsages({None, 0, 1}) :
        s = Says([Anthropic!Record("message_start") EXCEPT !.usage = w], [made EXCEPT !.started = TRUE], None)
  BY DEF SaysStart
<1>2. /\ s.record = [Anthropic!Record("message_start") EXCEPT !.usage = w]
      /\ s.made = [made EXCEPT !.started = TRUE]
  BY <1>1 DEF Says
<1>3. s.record.type = "message_start" /\ s.record.usage = w
  BY <1>2 DEF Anthropic!Record
<1>4. s.made.started = TRUE /\ s.made.open = made.open /\ s.made.next = made.next /\ s.made.deltas = made.deltas
  BY <1>2 DEF MadeType
<1>5. StreamOK(p) /\ ~p.ended /\ p.begun = made.started
  BY DEF Pictured, InBlock
<1>6. ASSUME NEW d \in Anthropic!Decode(dec, s.record), ~d.failed PROVE RecordTaken(p, s, d)
  <2>1. PICK u : u = Anthropic!canonicalUsageFromWire(w)
    OBVIOUS
  <2>2. u \in UsageType \cup {None}
    <3>1. CASE w = None
      BY <2>1, <3>1 DEF Anthropic!canonicalUsageFromWire
    <3>2. CASE w # None
      <4>1. PICK outputs : outputs = {None, 0, 1}
        OBVIOUS
      <4>2. outputs \subseteq Nat \cup {None} /\ w \in AnthropicUsages(outputs)
        BY <1>1, <3>2, <4>1
      <4>3. Sound(u)
        BY <2>1, <4>2, AnthropicReport
      <4>4. QED
        BY <4>3 DEF Sound
    <3>3. QED
      BY <3>1, <3>2
  <2>3. PICK e : e = [Anthropic!Event("message_start") EXCEPT !.usage = u]
    OBVIOUS
  <2>4. d = Anthropic!Decoded(dec, <<e>>)
    BY <1>3, <1>6, <2>1, <2>3 DEF Anthropic!Decode
  <2>5. e \in Events /\ e.type = "message_start" /\ e.usage = u
    BY <2>2, <2>3 DEF Anthropic!Event, Events
  <2>6. PICK q : q = Takes(p, e)
    OBVIOUS
  <2>7. TakenOther(p, e, q)
    BY <1>5, <2>5, <2>6, OtherTaken
  <2>8. /\ Fits(p, e) /\ q.kind = p.kind /\ q.open = p.open /\ q.deltas = p.deltas /\ q.begun = TRUE /\ q.ended = p.ended
    BY <2>5, <2>7 DEF TakenOther
  <2>9. Heard(p, d.events, q) /\ StreamOK(q) /\ d.dec = dec
    BY <1>5, <2>4, <2>6, <2>8, OneTaken
  <2>10. s.record.type \notin Ends
    BY <1>3 DEF Ends
  <2>11. QED
    BY <1>4, <1>5, <2>8, <2>9, <2>10, SameTaken
<1>7. QED
  BY <1>6 DEF AllTaken

\* the start of a block,
LEMMA BlockTaken ==
  ASSUME channel = "anthropic", made \in MadeType, made.started, made.open = None,
         NEW p, Pictured(p, dec, made), NEW s \in SaysBlock
  PROVE  AllTaken(p, s)
<1>1. PICK k \in Kinds :
        s = Says([Anthropic!Record("content_block_start") EXCEPT !.index = made.next, !.kind = k],
                 [More EXCEPT !.open = k, !.next = @ + 1], None)
  BY DEF SaysBlock
<1>2. /\ s.record = [Anthropic!Record("content_block_start") EXCEPT !.index = made.next, !.kind = k]
      /\ s.made = [More EXCEPT !.open = k, !.next = @ + 1]
  BY <1>1 DEF Says
<1>3. s.record.type = "content_block_start" /\ s.record.index = made.next /\ s.record.kind = k
  BY <1>2 DEF Anthropic!Record
<1>4. PICK b \in Nat : b = made.next
  BY DEF MadeType
<1>5. s.made.started = made.started /\ s.made.deltas = made.deltas /\ s.made.open = k /\ s.made.next = b + 1
  <2>1. PICK m : m = More
    OBVIOUS
  <2>2. /\ m.started = made.started /\ m.deltas = made.deltas /\ m.next = b
        /\ m = [started |-> m.started, tokens |-> m.tokens, deltas |-> m.deltas, open |-> m.open, next |-> m.next,
                flawless |-> m.flawless, finished |-> m.finished, told |-> m.told]
    BY <1>4, <2>1, MoreLeaves
  <2>3. PICK x : x = s.made
    OBVIOUS
  <2>4. PICK n : n = m.next + 1
    OBVIOUS
  <2>5. x = [m EXCEPT !.open = k, !.next = n]
    BY <1>2, <2>1, <2>3, <2>4
  <2>6. x.started = m.started /\ x.deltas = m.deltas /\ x.open = k /\ x.next = n
    BY <2>2, <2>5
  <2>7. QED
    BY <2>2, <2>3, <2>4, <2>6
<1>6. /\ StreamOK(p) /\ ~p.ended /\ p.begun /\ p.begun = made.started /\ p.kind = dec /\ p.open = {} /\ p.deltas = made.deltas
      /\ DOMAIN dec = { i \in Nat : i < b }
  BY <1>4 DEF Pictured, InBlock
<1>7. ASSUME NEW d \in Anthropic!Decode(dec, s.record), ~d.failed PROVE RecordTaken(p, s, d)
  <2>1. PICK e : e = Anthropic!BlockStart(b, k)
    OBVIOUS
  <2>2. PICK x : x = Anthropic!setBlockType(dec, b, k)
    OBVIOUS
  <2>3. d = Anthropic!Decoded(x, <<e>>)
    BY <1>3, <1>4, <1>7, <2>1, <2>2 DEF Anthropic!Decode
  <2>4. e \in Events /\ e.type = "block_start" /\ e.block = b /\ e.kind = k /\ e.usage = None
    BY <2>1, AnthropicEvents
  <2>5. PICK q : q = Takes(p, e)
    OBVIOUS
  <2>6. b \in Nat \ DOMAIN p.kind
    BY <1>6
  <2>7. TakenStart(p, e, q)
    BY <1>6, <2>4, <2>5, <2>6, StartTaken
  <2>8. /\ Fits(p, e) /\ q.ended = p.ended /\ q.begun = p.begun /\ q.kind = KindsWith(p.kind, b, k)
        /\ q.deltas = p.deltas /\ q.open = p.open \cup {b}
    BY <2>4, <2>7 DEF TakenStart, Moves
  <2>9. Heard(p, d.events, q) /\ StreamOK(q) /\ d.dec = x
    BY <1>6, <2>3, <2>5, <2>8, OneTaken
  <2>10. q.kind = x
    BY <1>6, <2>2, <2>8 DEF KindsWith, Anthropic!setBlockType
  <2>11. DOMAIN x = { i \in Nat : i < b + 1 } /\ x[b] = k
    <3>1. x = [i \in DOMAIN dec \cup {b} |-> IF i = b THEN k ELSE dec[i]]
      BY <2>2 DEF Anthropic!setBlockType
    <3>2. DOMAIN x = DOMAIN dec \cup {b} /\ x[b] = k
      BY <3>1
    <3>3. \A i : i \in DOMAIN x <=> i \in Nat /\ i < b + 1
      BY <1>6, <3>2
    <3>4. QED
      BY <3>2, <3>3
  <2>12. k # None
    BY RelayAssumption
  <2>13. b + 1 > 0 /\ b + 1 - 1 = b
    OBVIOUS
  <2>14. InBlock(q, d.dec, s.made)
    BY <1>5, <1>6, <2>8, <2>9, <2>10, <2>11, <2>12, <2>13 DEF InBlock
  <2>15. s.record.type \notin Ends
    BY <1>3 DEF Ends
  <2>16. Pictured(q, d.dec, s.made)
    BY <1>5, <1>6, <2>8, <2>9, <2>14 DEF Pictured
  <2>17. QED
    BY <1>5, <1>6, <2>8, <2>9, <2>15, <2>16 DEF RecordTaken
<1>8. QED
  BY <1>7 DEF AllTaken

\* its deltas and its stop,
LEMMA InBlockTaken ==
  ASSUME channel = "anthropic", made \in MadeType, made.open # None, NEW p, Pictured(p, dec, made),
         NEW s \in SaysInBlock
  PROVE  AllTaken(p, s)
<1>1. PICK k \in Kinds : k = made.open
  BY DEF MadeType
<1>2. PICK b \in Nat : b = made.next - 1
  BY DEF Pictured, InBlock, MadeType
<1>3. /\ StreamOK(p) /\ ~p.ended /\ p.begun = made.started /\ p.kind = dec /\ p.open = {b} /\ p.deltas = made.deltas
      /\ DOMAIN dec = { i \in Nat : i < made.next } /\ dec[b] = k /\ made.next > 0 /\ b \in DOMAIN dec
      /\ made.deltas \in Nat
  <2>1. InBlock(p, dec, made) /\ StreamOK(p) /\ ~p.ended /\ p.deltas = made.deltas /\ made.deltas \in Nat /\ made.next \in Nat
    BY DEF Pictured, MadeType
  <2>2. made.next > 0 /\ p.open = {b} /\ dec[b] = k /\ p.kind = dec /\ p.begun = made.started
        /\ DOMAIN dec = { i \in Nat : i < made.next }
    BY <1>1, <1>2, <2>1 DEF InBlock
  <2>3. b \in DOMAIN dec
    BY <1>2, <2>1, <2>2
  <2>4. QED
    BY <2>1, <2>2, <2>3
<1>4. CASE s = Says([Anthropic!Record("content_block_delta") EXCEPT !.index = made.next - 1, !.kind = made.open],
                    [More EXCEPT !.deltas = @ + (IF made.open = "thinking" /\ client = "openai" THEN 0 ELSE 1)], None)
  <2>1. PICK n \in {0, 1} : n = IF made.open = "thinking" /\ client = "openai" THEN 0 ELSE 1
    OBVIOUS
  <2>2. /\ s.record = [Anthropic!Record("content_block_delta") EXCEPT !.index = b, !.kind = k]
        /\ s.made = [More EXCEPT !.deltas = @ + n]
    BY <1>1, <1>2, <1>4, <2>1 DEF Says
  <2>3. s.record.type = "content_block_delta" /\ s.record.index = b /\ s.record.kind = k
    BY <2>2 DEF Anthropic!Record
  <2>4. /\ s.made.started = made.started /\ s.made.deltas = made.deltas + n /\ s.made.open = made.open
        /\ s.made.next = made.next
    <3>1. PICK m : m = More
      OBVIOUS
    <3>2. /\ m.started = made.started /\ m.deltas = made.deltas /\ m.open = made.open /\ m.next = made.next
          /\ m = [started |-> m.started, tokens |-> m.tokens, deltas |-> m.deltas, open |-> m.open, next |-> m.next,
                  flawless |-> m.flawless, finished |-> m.finished, told |-> m.told]
      BY <3>1, MoreLeaves
    <3>3. PICK x : x = s.made
      OBVIOUS
    <3>4. PICK j : j = m.deltas + n
      OBVIOUS
    <3>5. x = [m EXCEPT !.deltas = j]
      BY <2>2, <3>1, <3>3, <3>4
    <3>6. x.started = m.started /\ x.deltas = j /\ x.open = m.open /\ x.next = m.next
      BY <3>2, <3>5
    <3>7. QED
      BY <3>2, <3>3, <3>4, <3>6
  <2>5. ASSUME NEW d \in Anthropic!Decode(dec, s.record), ~d.failed PROVE RecordTaken(p, s, d)
    <3>1. PICK e : e = Anthropic!BlockDelta(b, k)
      OBVIOUS
    <3>2. Anthropic!decodeBlockDelta(dec, s.record) = e
      BY <1>3, <2>3, <3>1 DEF Anthropic!decodeBlockDelta, Anthropic!blockType
    <3>3. d = Anthropic!Decoded(dec, <<e>>)
      BY <2>3, <2>5, <3>2 DEF Anthropic!Decode
    <3>4. e \in Events /\ e.type = "block_delta" /\ e.block = b /\ e.delta = k /\ e.usage = None
      BY <3>1, AnthropicEvents
    <3>5. PICK q : q = Takes(p, e)
      OBVIOUS
    <3>6. e.block \in p.open /\ e.delta = p.kind[e.block]
      BY <1>3, <3>4
    <3>7. /\ Fits(p, e) /\ q.ended = p.ended /\ q.begun = p.begun /\ q.kind = p.kind /\ q.open = p.open
          /\ q.deltas = p.deltas + (IF Visible(e) THEN 1 ELSE 0)
      BY <1>3, <3>4, <3>5, <3>6, DeltaTaken DEF Moves
    <3>8. n = IF Visible(e) THEN 1 ELSE 0
      BY <1>1, <2>1, <3>4 DEF Visible
    <3>9. q.deltas = s.made.deltas
      BY <1>3, <2>4, <3>7, <3>8
    <3>10. Heard(p, d.events, q) /\ StreamOK(q) /\ d.dec = dec
      BY <1>3, <3>3, <3>5, <3>7, OneTaken
    <3>11. InBlock(q, d.dec, s.made)
      BY <1>1, <1>2, <1>3, <2>4, <3>7, <3>10 DEF InBlock
    <3>12. Pictured(q, d.dec, s.made)
      BY <1>3, <3>7, <3>9, <3>10, <3>11 DEF Pictured
    <3>13. s.record.type \notin Ends
      BY <2>3 DEF Ends
    <3>14. QED
      BY <3>9, <3>10, <3>12, <3>13 DEF RecordTaken
  <2>6. QED
    BY <2>5 DEF AllTaken
<1>5. CASE s = Says([Anthropic!Record("content_block_stop") EXCEPT !.index = made.next - 1],
                    [made EXCEPT !.open = None], None)
  <2>1. /\ s.record = [Anthropic!Record("content_block_stop") EXCEPT !.index = b]
        /\ s.made = [made EXCEPT !.open = None]
    BY <1>2, <1>5 DEF Says
  <2>2. s.record.type = "content_block_stop" /\ s.record.index = b
    BY <2>1 DEF Anthropic!Record
  <2>3. /\ s.made.started = made.started /\ s.made.deltas = made.deltas /\ s.made.open = None
        /\ s.made.next = made.next
    BY <2>1 DEF MadeType
  <2>4. ASSUME NEW d \in Anthropic!Decode(dec, s.record), ~d.failed PROVE RecordTaken(p, s, d)
    <3>1. PICK e : e = Anthropic!BlockStop(b)
      OBVIOUS
    <3>2. d = Anthropic!Decoded(dec, <<e>>)
      BY <2>2, <2>4, <3>1 DEF Anthropic!Decode
    <3>3. e \in Events /\ e.type = "block_stop" /\ e.block = b /\ e.usage = None
      BY <1>1, <3>1, AnthropicEvents
    <3>4. PICK q : q = Takes(p, e)
      OBVIOUS
    <3>5. e.block \in p.open
      BY <1>3, <3>3
    <3>6. /\ Fits(p, e) /\ q.ended = p.ended /\ q.begun = p.begun /\ q.kind = p.kind /\ q.open = p.open \ {b}
          /\ q.deltas = p.deltas
      BY <1>3, <3>3, <3>4, <3>5, StopTaken DEF Moves
    <3>7. q.open = {}
      BY <1>3, <3>6
    <3>8. Heard(p, d.events, q) /\ StreamOK(q) /\ d.dec = dec
      BY <1>3, <3>2, <3>4, <3>6, OneTaken
    <3>9. InBlock(q, d.dec, s.made)
      BY <1>3, <2>3, <3>6, <3>7, <3>8 DEF InBlock
    <3>10. Pictured(q, d.dec, s.made)
      BY <1>3, <2>3, <3>6, <3>8, <3>9 DEF Pictured
    <3>11. s.record.type \notin Ends
      BY <2>2 DEF Ends
    <3>12. QED
      BY <1>3, <2>3, <3>6, <3>8, <3>10, <3>11 DEF RecordTaken
  <2>5. QED
    BY <2>4 DEF AllTaken
<1>6. QED
  BY <1>4, <1>5 DEF SaysInBlock

\* and what comes between the blocks.
LEMMA BetweenTaken ==
  ASSUME channel = "anthropic", made \in MadeType, made.started, made.open = None,
         NEW p, Pictured(p, dec, made), NEW s \in SaysEnd
  PROVE  AllTaken(p, s)
<1>1. CASE s = Says(Anthropic!Record("message_stop"), made, None)
  <2>1. PICK t \in {"comment", "ping", "blank", "garbage", "error", "message_stop"} : t = "message_stop"
    OBVIOUS
  <2>2. QED
    BY <1>1, <2>1, QuietTaken
<1>2. StreamOK(p) /\ ~p.ended /\ p.begun /\ p.begun = made.started
  BY DEF Pictured, InBlock
<1>3. ASSUME NEW w, NEW stop \in BOOLEAN, NEW outputs,
             outputs \subseteq Nat \cup {None}, w \in {None} \cup AnthropicUsages(outputs),
             s.record.type = "message_delta", s.record.usage = w, s.record.stop = stop, s.made = made
      PROVE  AllTaken(p, s)
  <2>1. ASSUME NEW d \in Anthropic!Decode(dec, s.record), ~d.failed PROVE RecordTaken(p, s, d)
    <3>1. PICK u : u = Anthropic!canonicalUsageFromWire(w)
      OBVIOUS
    <3>2. u \in UsageType \cup {None}
      <4>1. CASE w = None
        BY <3>1, <4>1 DEF Anthropic!canonicalUsageFromWire
      <4>2. CASE w # None
        <5>1. w \in AnthropicUsages(outputs)
          BY <1>3, <4>2
        <5>2. Sound(u)
          BY <1>3, <3>1, <5>1, AnthropicReport
        <5>3. QED
          BY <5>2 DEF Sound
      <4>3. QED
        BY <4>1, <4>2
    <3>3. PICK final \in BOOLEAN : final = (w # None /\ stop)
      OBVIOUS
    <3>4. PICK e : e = Anthropic!MessageDelta(stop, u, final)
      OBVIOUS
    <3>5. d = Anthropic!Decoded(dec, <<e>>)
      BY <1>3, <2>1, <3>1, <3>3, <3>4 DEF Anthropic!Decode, Anthropic!decodeMessageDelta
    <3>6. e \in Events /\ e.type = "message_delta"
      BY <3>2, <3>4 DEF Events, Anthropic!MessageDelta, Anthropic!Event
    <3>7. PICK q : q = Takes(p, e)
      OBVIOUS
    <3>8. ReportTaken(p, e, q)
      BY <1>2, <3>6, <3>7, MessageDeltaTaken
    <3>9. Heard(p, d.events, q) /\ StreamOK(q) /\ d.dec = dec
      BY <1>2, <3>5, <3>7, <3>8, OneTaken DEF ReportTaken
    <3>10. s.record.type \notin Ends
      BY <1>3 DEF Ends
    <3>11. q.begun = p.begun /\ q.ended = p.ended /\ q.kind = p.kind /\ q.open = p.open /\ q.deltas = p.deltas
      BY <3>8 DEF ReportTaken
    <3>12. QED
      BY <1>2, <1>3, <3>9, <3>10, <3>11, SameTaken
  <2>2. QED
    BY <2>1 DEF AllTaken
<1>4. CASE s \in { Says([Anthropic!Record("message_delta") EXCEPT !.usage = u], made, None) :
                     u \in {None} \cup AnthropicUsages({None, 0, 1}) }
  <2>1. PICK w \in {None} \cup AnthropicUsages({None, 0, 1}) :
          s = Says([Anthropic!Record("message_delta") EXCEPT !.usage = w], made, None)
    BY <1>4
  <2>2. s.record = [Anthropic!Record("message_delta") EXCEPT !.usage = w] /\ s.made = made
    BY <2>1 DEF Says
  <2>3. s.record.type = "message_delta" /\ s.record.usage = w /\ s.record.stop = FALSE
    BY <2>2 DEF Anthropic!Record
  <2>4. PICK outputs : outputs = {None, 0, 1}
    OBVIOUS
  <2>5. outputs \subseteq Nat \cup {None} /\ w \in {None} \cup AnthropicUsages(outputs)
    BY <2>1, <2>4
  <2>6. PICK stop \in BOOLEAN : stop = FALSE
    OBVIOUS
  <2>7. QED
    BY <1>3, <2>2, <2>3, <2>5, <2>6
<1>5. CASE s \in { Says([Anthropic!Record("message_delta") EXCEPT !.stop = TRUE, !.usage = u], made, u) :
                     u \in {None} \cup AnthropicUsages(OrNone(made.tokens)) }
  <2>1. PICK w \in {None} \cup AnthropicUsages(OrNone(made.tokens)) :
          s = Says([Anthropic!Record("message_delta") EXCEPT !.stop = TRUE, !.usage = w], made, w)
    BY <1>5
  <2>2. s.record = [Anthropic!Record("message_delta") EXCEPT !.stop = TRUE, !.usage = w] /\ s.made = made
    BY <2>1 DEF Says
  <2>3. s.record.type = "message_delta" /\ s.record.usage = w /\ s.record.stop = TRUE
    BY <2>2 DEF Anthropic!Record
  <2>4. PICK outputs : outputs = OrNone(made.tokens)
    OBVIOUS
  <2>5. outputs \subseteq Nat \cup {None} /\ w \in {None} \cup AnthropicUsages(outputs)
    BY <2>1, <2>4 DEF OrNone, MadeType
  <2>6. PICK stop \in BOOLEAN : stop = TRUE
    OBVIOUS
  <2>7. QED
    BY <1>3, <2>2, <2>3, <2>5, <2>6
<1>6. QED
  BY <1>1, <1>4, <1>5 DEF SaysEnd

\* Whatever an Anthropic provider says, it is heard.
LEMMA AnthropicTaken ==
  ASSUME channel = "anthropic", made \in MadeType, NEW p, Pictured(p, dec, made), NEW s \in Sayings
  PROVE  AllTaken(p, s)
<1>1. s \in AnthropicSays
  BY DEF Sayings
<1> DEFINE A == { Says(Anthropic!Record(t), made, None) : t \in {"comment", "ping", "blank", "garbage", "error"} }
           U == { Says(Anthropic!Record("unknown"), More, None) }
<1>2. \/ s \in A \/ s \in U \/ (~made.started /\ s \in SaysStart)
      \/ (made.started /\ made.open = None /\ s \in SaysBlock) \/ (made.started /\ made.open = None /\ s \in SaysEnd)
      \/ (made.open # None /\ s \in SaysInBlock)
  <2>1. AnthropicSays = A \cup U \cup (IF made.started THEN {} ELSE SaysStart)
                        \cup (IF made.started /\ made.open = None THEN SaysBlock \cup SaysEnd ELSE {})
                        \cup (IF made.open # None THEN SaysInBlock ELSE {})
    BY DEF AnthropicSays
  <2>. HIDE DEF A, U
  <2>2. QED
    BY <1>1, <2>1
<1>3. CASE s \in A
  <2>1. PICK t \in {"comment", "ping", "blank", "garbage", "error"} : s = Says(Anthropic!Record(t), made, None)
    BY <1>3
  <2>2. t \in {"comment", "ping", "blank", "garbage", "error", "message_stop"} /\ t # "message_stop"
    OBVIOUS
  <2>3. QED
    BY <2>1, <2>2, QuietTaken
<1>4. CASE s \in U
  BY <1>4, UnknownTaken
<1>. HIDE DEF A, U
<1>5. QED
  BY <1>2, <1>3, <1>4, BeginTaken, BlockTaken, BetweenTaken, InBlockTaken

\* Whatever the provider says, the stream goes on as its decoder has it, or ends.
LEMMA SaidTaken ==
  ASSUME channel \in Formats, made \in MadeType, NEW p, Pictured(p, dec, made), NEW s \in Sayings,
         NEW d \in Decode(s.record), ~d.failed
  PROVE  RecordTaken(p, s, d)
<1>1. CASE channel = "openai"
  <2>1. d \in OpenAI!Decode(dec, s.record)
    BY <1>1 DEF Decode
  <2>2. QED
    BY <1>1, <2>1, OpenAITaken
<1>2. CASE channel = "anthropic"
  <2>1. d \in Anthropic!Decode(dec, s.record)
    BY <1>2 DEF Decode
  <2>2. AllTaken(p, s)
    BY <1>2, AnthropicTaken
  <2>3. QED
    BY <2>1, <2>2 DEF AllTaken
<1>3. QED
  BY <1>1, <1>2 DEF Formats
=============================================================================

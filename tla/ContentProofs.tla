---------------------------- MODULE ContentProofs ---------------------------
(***************************************************************************)
(* Proofs about what is carried through module Exchange.                   *)
(*                                                                         *)
(* SSEReader: the records of an answer are those of its bytes, for any     *)
(* bytes, any size of a record and any way in which they come and stop.    *)
(* First what a record is and what is told by some of them, then what a    *)
(* line end does, then the steps.                                          *)
(*                                                                         *)
(* Messages: what was said is what is told, for any conversation.  What    *)
(* becomes of OpenAI's messages, one after the other, is in                *)
(* ExchangeProofs; what becomes of Anthropic's, block by block, is here:   *)
(* what is built is read again, and compared to what was meant.            *)
(***************************************************************************)
EXTENDS ExchangeProofs

\* The members of a sequence, of two, and of many put together.
LEMMA MembersOf ==
  ASSUME NEW V, NEW s \in Seq(V), NEW x
  PROVE  x \in S!ToSet(s) <=> \E i \in 1 .. Len(s) : x = s[i]
BY DEF S!ToSet

\* The members of two sequences.
LEMMA MembersBoth ==
  ASSUME NEW V, NEW s \in Seq(V), NEW t \in Seq(V)
  PROVE  S!ToSet(s \o t) = S!ToSet(s) \cup S!ToSet(t)
<1>1. PICK c : c = s \o t
  OBVIOUS
<1>2. PICK m, n \in Nat : m = Len(s) /\ n = Len(t)
  OBVIOUS
<1>3. c \in Seq(V) /\ Len(c) = m + n
  BY <1>1, <1>2, ConcatProperties
<1>4. \A i \in 1 .. m + n : c[i] = IF i <= m THEN s[i] ELSE t[i - m]
  BY <1>1, <1>2, ConcatProperties
<1>5. ASSUME NEW x PROVE x \in S!ToSet(c) <=> x \in S!ToSet(s) \cup S!ToSet(t)
  <2>1. ASSUME NEW i \in 1 .. m + n PROVE c[i] \in S!ToSet(s) \cup S!ToSet(t)
    <3>1. CASE i <= m
      <4>1. i \in 1 .. m /\ c[i] = s[i]
        BY <1>2, <1>4, <3>1
      <4>2. QED
        BY <1>2, <4>1, MembersOf
    <3>2. CASE ~(i <= m)
      <4>1. i - m \in 1 .. n /\ c[i] = t[i - m]
        BY <1>2, <1>4, <3>2
      <4>2. QED
        BY <1>2, <4>1, MembersOf
    <3>3. QED
      BY <3>1, <3>2
  <2>2. ASSUME NEW i \in 1 .. m PROVE s[i] \in S!ToSet(c)
    <3>1. i \in 1 .. m + n /\ c[i] = s[i]
      BY <1>2, <1>4
    <3>2. QED
      BY <1>3, <3>1, MembersOf
  <2>3. ASSUME NEW i \in 1 .. n PROVE t[i] \in S!ToSet(c)
    <3>1. m + i \in 1 .. m + n /\ ~(m + i <= m) /\ (m + i) - m = i
      BY <1>2
    <3>2. c[m + i] = t[i]
      BY <1>4, <3>1
    <3>3. QED
      BY <1>3, <3>1, <3>2, MembersOf
  <2>4. /\ x \in S!ToSet(c) <=> \E i \in 1 .. m + n : x = c[i]
        /\ x \in S!ToSet(s) <=> \E i \in 1 .. m : x = s[i]
        /\ x \in S!ToSet(t) <=> \E i \in 1 .. n : x = t[i]
    BY <1>2, <1>3, MembersOf
  <2>5. QED
    BY <2>1, <2>2, <2>3, <2>4
<1>6. QED
  BY <1>1, <1>5

\* One after the other, all pairs of which are in R.
Ordered(s, R)   == \A a, b \in 1 .. Len(s) : a < b => <<s[a], s[b]>> \in R
Precedes(s, t, R) == \A x \in S!ToSet(s), y \in S!ToSet(t) : <<x, y>> \in R

\* Two ordered sequences, one before the other, are ordered together,
LEMMA OrderedBoth ==
  ASSUME NEW V, NEW R, NEW s \in Seq(V), NEW t \in Seq(V), Ordered(s, R), Ordered(t, R), Precedes(s, t, R)
  PROVE  Ordered(s \o t, R)
<1>1. PICK c : c = s \o t
  OBVIOUS
<1>2. PICK m, n \in Nat : m = Len(s) /\ n = Len(t)
  OBVIOUS
<1>3. Len(c) = m + n
  BY <1>1, <1>2, ConcatProperties
<1>4. \A i \in 1 .. m + n : c[i] = IF i <= m THEN s[i] ELSE t[i - m]
  BY <1>1, <1>2, ConcatProperties
<1>5. ASSUME NEW a \in 1 .. m + n, NEW b \in 1 .. m + n, a < b PROVE <<c[a], c[b]>> \in R
  <2>1. CASE b <= m
    <3>1. a \in 1 .. m /\ b \in 1 .. m /\ c[a] = s[a] /\ c[b] = s[b]
      BY <1>2, <1>4, <1>5, <2>1
    <3>2. QED
      BY <1>2, <1>5, <3>1 DEF Ordered
  <2>2. CASE ~(a <= m)
    <3>1. a - m \in 1 .. n /\ b - m \in 1 .. n /\ a - m < b - m /\ c[a] = t[a - m] /\ c[b] = t[b - m]
      BY <1>2, <1>4, <1>5, <2>2
    <3>2. QED
      BY <1>2, <1>5, <3>1 DEF Ordered
  <2>3. CASE a <= m /\ ~(b <= m)
    <3>1. a \in 1 .. m /\ b - m \in 1 .. n /\ c[a] = s[a] /\ c[b] = t[b - m]
      BY <1>2, <1>4, <1>5, <2>3
    <3>2. c[a] \in S!ToSet(s) /\ c[b] \in S!ToSet(t)
      BY <1>2, <3>1, MembersOf
    <3>3. QED
      BY <3>2 DEF Precedes
  <2>4. QED
    BY <2>1, <2>2, <2>3, <1>2, <1>5
<1>6. QED
  BY <1>1, <1>3, <1>5 DEF Ordered

\* Members and order of what is put together of many.
LEMMA FlattenMembers ==
  ASSUME NEW V, NEW ss \in Seq(Seq(V))
  PROVE  S!ToSet(S!FlattenSeq(ss)) = UNION { S!ToSet(ss[i]) : i \in 1 .. Len(ss) }
<1>1. PICK f : Joined(f, ss, V)
  BY JoinedExists
<1>2. PICK n \in Nat : n = Len(ss)
  OBVIOUS
<1>3. /\ f \in [0 .. n -> Seq(V)] /\ f[0] = <<>>
      /\ \A k \in 1 .. n : f[k] = f[k - 1] \o ss[k] /\ ss[k] \in Seq(V)
  <2>1. \A k \in 1 .. n : ss[k] \in Seq(V)
    BY <1>2
  <2>2. QED
    BY <1>1, <1>2, <2>1 DEF Joined
<1> DEFINE Of(k) == UNION { S!ToSet(ss[i]) : i \in 1 .. k }
           D == { k \in 0 .. n : S!ToSet(f[k]) = Of(k) }
<1>4. 0 \in D
  <2>1. S!ToSet(<<>>) = {} /\ Of(0) = {}
    BY DEF S!ToSet
  <2>2. QED
    BY <1>2, <1>3, <2>1
<1>5. ASSUME NEW k \in 0 .. n - 1, k \in D PROVE k + 1 \in D
  <2>1. k + 1 \in 1 .. n /\ (k + 1) - 1 = k /\ k \in 0 .. n /\ k + 1 \in 0 .. n
    BY <1>2
  <2>2. f[k + 1] = f[k] \o ss[k + 1] /\ f[k] \in Seq(V) /\ ss[k + 1] \in Seq(V)
    BY <1>3, <2>1
  <2>3. S!ToSet(f[k + 1]) = S!ToSet(f[k]) \cup S!ToSet(ss[k + 1])
    BY <2>2, MembersBoth
  <2>4. 1 .. k + 1 = (1 .. k) \cup {k + 1}
    BY <1>2
  <2>5. Of(k + 1) = Of(k) \cup S!ToSet(ss[k + 1])
    BY <2>4
  <2>6. QED
    BY <1>5, <2>1, <2>3, <2>5
<1>. HIDE DEF D
<1>6. n \in D
  <2>1. \A k \in 0 .. n : k \in D
    BY <1>4, <1>5, Counting
  <2>2. QED
    BY <1>2, <2>1
<1>7. S!FlattenSeq(ss) = f[n]
  BY <1>1, <1>2, JoinedIs
<1>8. QED
  BY <1>2, <1>6, <1>7 DEF D

\* and so are many.
LEMMA FlattenOrder ==
  ASSUME NEW V, NEW R, NEW ss \in Seq(Seq(V)), \A i \in 1 .. Len(ss) : Ordered(ss[i], R),
         \A i, j \in 1 .. Len(ss) : i < j => Precedes(ss[i], ss[j], R)
  PROVE  Ordered(S!FlattenSeq(ss), R)
<1>1. PICK f : Joined(f, ss, V)
  BY JoinedExists
<1>2. PICK n \in Nat : n = Len(ss)
  OBVIOUS
<1>3. /\ f \in [0 .. n -> Seq(V)] /\ f[0] = <<>>
      /\ \A k \in 1 .. n : f[k] = f[k - 1] \o ss[k] /\ ss[k] \in Seq(V)
  <2>1. \A k \in 1 .. n : ss[k] \in Seq(V)
    BY <1>2
  <2>2. QED
    BY <1>1, <1>2, <2>1 DEF Joined
<1> DEFINE D == { k \in 0 .. n : Ordered(f[k], R) /\ \A j \in k + 1 .. n : Precedes(f[k], ss[j], R) }
<1>4. 0 \in D
  <2>1. S!ToSet(<<>>) = {} /\ Len(<<>>) = 0
    BY DEF S!ToSet
  <2>2. Ordered(<<>>, R) /\ \A j \in 1 .. n : Precedes(<<>>, ss[j], R)
    BY <2>1 DEF Ordered, Precedes
  <2>3. QED
    BY <1>2, <1>3, <2>2
<1>5. ASSUME NEW k \in 0 .. n - 1, k \in D PROVE k + 1 \in D
  <2>1. k + 1 \in 1 .. n /\ (k + 1) - 1 = k /\ k \in 0 .. n /\ k + 1 \in 0 .. n /\ k + 1 \in k + 1 .. n
    BY <1>2
  <2>2. f[k + 1] = f[k] \o ss[k + 1] /\ f[k] \in Seq(V) /\ ss[k + 1] \in Seq(V)
    BY <1>3, <2>1
  <2>3. S!ToSet(f[k + 1]) = S!ToSet(f[k]) \cup S!ToSet(ss[k + 1])
    BY <2>2, MembersBoth
  <2>4. Ordered(f[k], R) /\ \A j \in k + 1 .. n : Precedes(f[k], ss[j], R)
    BY <1>5
  <2>5. Ordered(ss[k + 1], R) /\ Precedes(f[k], ss[k + 1], R)
    BY <1>2, <2>1, <2>4
  <2>6. Ordered(f[k + 1], R)
    BY <2>2, <2>4, <2>5, OrderedBoth
  <2>7. ASSUME NEW j \in (k + 1) + 1 .. n PROVE Precedes(f[k + 1], ss[j], R)
    <3>1. j \in k + 1 .. n /\ j \in 1 .. n /\ k + 1 < j
      BY <1>2
    <3>2. Precedes(f[k], ss[j], R) /\ Precedes(ss[k + 1], ss[j], R)
      BY <1>2, <2>1, <2>4, <3>1
    <3>3. QED
      BY <2>3, <3>2 DEF Precedes
  <2>8. QED
    BY <2>1, <2>6, <2>7
<1>. HIDE DEF D
<1>6. n \in D
  <2>1. \A k \in 0 .. n : k \in D
    BY <1>4, <1>5, Counting
  <2>2. QED
    BY <1>2, <2>1
<1>7. S!FlattenSeq(ss) = f[n]
  BY <1>1, <1>2, JoinedIs
<1>8. QED
  BY <1>6, <1>7 DEF D

\* A feed: bytes, and a mark nowhere but at its beginning.
Bytes  == {"text", "mark", "lf", "cr"}
FeedOK == feed \in Seq(Bytes) /\ \A i \in 1 .. Len(feed) : feed[i] = "mark" => i = 1

\* A line ends between two bytes; so does a record.
Cut(s, t)    == \E e \in S!LineEnds : s < e /\ e < t
Parted(s, t) == \E e \in S!Blanks : s < e /\ e < t

\* The bytes of a record, and those told by some of them.
In(R)      == S!ToSet(S!FlattenSeq(R))
ToldBy(o)  == S!ToSet(S!FlattenSeq(S!FlattenSeq(o)))

\* A line is some text without a gap; the lines of a record follow one another, and so do records.
Stretch(a, b) == [i \in 1 .. b - a |-> a + i]
LineOK(l) == \E a, b \in 0 .. Len(feed) : /\ a < b /\ l = Stretch(a, b)
                                          /\ \A i \in a + 1 .. b : feed[i] = "text"
RecordOK(R) ==
  /\ R \in Seq(Seq(Nat)) /\ R # <<>> /\ \A i \in 1 .. Len(R) : LineOK(R[i])
  /\ \A i, j \in 1 .. Len(R) : i < j =>
       \A s \in S!ToSet(R[i]), t \in S!ToSet(R[j]) : s < t /\ Cut(s, t) /\ ~Parted(s, t)
OutOK(o) ==
  /\ o \in Seq(Seq(Seq(Nat)))
  /\ \A r \in 1 .. Len(o) : RecordOK(o[r]) /\ S!Size(o[r]) <= MaxSize
  /\ \A r, q \in 1 .. Len(o) : r < q => \A s \in In(o[r]), t \in In(o[q]) : Parted(s, t)

\* Up to the end of a line everything is told or held; what is held goes on, what is told is over.
HeldOK(o, R, base) ==
  /\ R = <<>> \/ (RecordOK(R) /\ S!Size(R) <= MaxSize)
  /\ ToldBy(o) \cup In(R) = S!Text \cap 1 .. base
  /\ \A s \in ToldBy(o) : \E e \in S!Blanks : s < e /\ e <= base /\ \A t \in In(R) : e < t
  /\ \A s \in In(R), e \in S!Blanks : ~(s < e /\ e <= base)

\* The line under way is what came behind it.
Taken == IF peeking THEN pos - 1 ELSE pos
LineAt(base) ==
  /\ base \in 0 .. Taken /\ (base > 0 => feed[base] \in {"lf", "cr"})
  /\ \A i \in base + 1 .. Taken : feed[i] \notin {"lf", "cr"}
  /\ line = Stretch(base, Taken) /\ first = (base = 0)
  /\ peeking => pos > 0 /\ feed[pos] = "cr"
  /\ ~peeking /\ pos > 0 /\ feed[pos] = "cr" => IF pos < fetched THEN feed[pos + 1] # "lf" ELSE failed # "no"

Reading == \E base \in 0 .. pos : LineAt(base) /\ HeldOK(out, buf, base)
Drained == /\ failed # "no" /\ pos = fetched /\ ~peeking /\ line = <<>> /\ buf = <<>>
           /\ ToldBy(out) = S!Text \cap 1 .. fetched

\* What is told when the reader stops.
Stopped(err, o) ==
  /\ err \in {"eof", "broken", "idle"} => ToldBy(o) = S!Text \cap 1 .. fetched
  /\ err = "too_large" =>
       /\ \A t \in ToldBy(o), s \in S!Text : s < t => s \in ToldBy(o)
       /\ \E t \in S!Text \ ToldBy(o) : t <= pos /\ S!TooLarge(t)

FramesInv == kind = "stream" /\ ~S!Misread =>
  /\ OutOK(out)
  /\ ended = "no" => Reading \/ Drained
  /\ ended # "no" => Stopped(ended, out)

WholeInv ==
  /\ ending # "open" => arrived = Len(feed)
  /\ kind = "whole" /\ out # <<>> =>
       ending = "eof" /\ Len(out[1][1]) = Len(feed) /\ Len(feed) <= MaxSize

\* Smaller numbers come first.
Less == { x \in Nat \X Nat : x[1] < x[2] }

\* The bytes of a stretch, in their order.
LEMMA StretchIs ==
  ASSUME NEW a \in Nat, NEW b \in Nat, a <= b
  PROVE  /\ Stretch(a, b) \in Seq(Nat) /\ Len(Stretch(a, b)) = b - a
         /\ \A i \in 1 .. b - a : Stretch(a, b)[i] = a + i
         /\ S!ToSet(Stretch(a, b)) = a + 1 .. b
         /\ Ordered(Stretch(a, b), Less)
         /\ a = b <=> Stretch(a, b) = <<>>
<1>1. PICK n \in Nat : n = b - a
  OBVIOUS
<1>2. PICK s : s = [i \in 1 .. n |-> a + i]
  OBVIOUS
<1>3. Stretch(a, b) = s
  BY <1>1, <1>2 DEF Stretch
<1>4. s \in Seq(Nat) /\ Len(s) = n /\ \A i \in 1 .. n : s[i] = a + i
  BY <1>2
<1>5. S!ToSet(s) = a + 1 .. b
  <2>1. \A x : x \in S!ToSet(s) <=> \E i \in 1 .. n : x = s[i]
    BY <1>4, MembersOf
  <2>2. ASSUME NEW i \in 1 .. n PROVE s[i] \in a + 1 .. b
    BY <1>1, <1>4
  <2>3. ASSUME NEW x \in a + 1 .. b PROVE x \in S!ToSet(s)
    <3>1. x - a \in 1 .. n /\ a + (x - a) = x
      BY <1>1
    <3>2. QED
      BY <1>4, <2>1, <3>1
  <2>4. QED
    BY <2>1, <2>2, <2>3
<1>6. Ordered(s, Less)
  BY <1>4 DEF Ordered, Less
<1>7. a = b <=> s = <<>>
  BY <1>1, <1>4
<1>8. QED
  BY <1>1, <1>3, <1>4, <1>5, <1>6, <1>7

\* The text and the line ends of a feed.
LEMMA FeedIs ==
  ASSUME FeedOK
  PROVE  /\ Len(feed) \in Nat /\ \A i \in 1 .. Len(feed) : feed[i] \in Bytes /\ (feed[i] = "mark" => i = 1)
         /\ \A t : t \in S!Text <=> t \in 1 .. Len(feed) /\ feed[t] = "text"
         /\ \A e \in S!LineEnds : e \in 1 .. Len(feed) /\ feed[e] \in {"lf", "cr"}
         /\ \A e \in 1 .. Len(feed) : feed[e] = "cr" => e \in S!LineEnds
         /\ \A e \in 1 .. Len(feed) : feed[e] = "lf" =>
              (e \in S!LineEnds <=> (e > 1 => feed[e - 1] # "cr"))
         /\ S!Blanks \subseteq S!LineEnds
<1>1. Len(feed) \in Nat /\ DOMAIN feed = 1 .. Len(feed) /\ \A i \in 1 .. Len(feed) : feed[i] \in Bytes
  BY DEF FeedOK
<1>2. \A i \in 1 .. Len(feed) : feed[i] = "mark" => i = 1
  BY DEF FeedOK
<1>3. \A t : t \in S!Text <=> t \in 1 .. Len(feed) /\ feed[t] = "text"
  BY <1>1 DEF S!Text
<1>4. \A e : e \in S!LineEnds <=> /\ e \in 1 .. Len(feed)
                                  /\ feed[e] = "cr" \/ (feed[e] = "lf" /\ (e > 1 => feed[e - 1] # "cr"))
  BY <1>1 DEF S!LineEnds
<1>5. S!Blanks \subseteq S!LineEnds
  BY DEF S!Blanks
<1>6. QED
  BY <1>1, <1>2, <1>3, <1>4, <1>5

\* Where a line is over, a line end stands behind all its text.
LEMMA EndNear ==
  ASSUME FeedOK, NEW base \in 1 .. Len(feed), feed[base] \in {"lf", "cr"}
  PROVE  \E d \in S!LineEnds : d <= base /\ \A t \in S!Text : t <= base => t < d
<1>1. CASE base \in S!LineEnds
  <2>1. \A t \in S!Text : t <= base => t < base
    BY FeedIs
  <2>2. QED
    BY <1>1, <2>1, FeedIs
<1>2. CASE base \notin S!LineEnds
  <2>1. base > 1 /\ feed[base - 1] = "cr" /\ base - 1 \in 1 .. Len(feed)
    BY <1>2, FeedIs
  <2>2. base - 1 \in S!LineEnds
    BY <2>1, FeedIs
  <2>3. ASSUME NEW t \in S!Text, t <= base PROVE t < base - 1
    <3>1. t \in 1 .. Len(feed) /\ feed[t] = "text"
      BY FeedIs
    <3>2. t # base /\ t # base - 1
      BY <2>1, <3>1
    <3>3. QED
      BY <2>3, <3>1, <3>2, FeedIs
  <2>4. QED
    BY <2>1, <2>2, <2>3, FeedIs
<1>3. QED
  BY <1>1, <1>2

\* What is known of a line,
LEMMA LineIs ==
  ASSUME FeedOK, NEW l, LineOK(l)
  PROVE  /\ l \in Seq(Nat) /\ l # <<>> /\ Ordered(l, Less) /\ S!ToSet(l) \subseteq S!Text
         /\ S!ToSet(l) # {} /\ \A s, t \in S!ToSet(l) : ~Cut(s, t)
<1>1. PICK a, b \in 0 .. Len(feed) : a < b /\ l = Stretch(a, b) /\ \A i \in a + 1 .. b : feed[i] = "text"
  BY DEF LineOK
<1>2. a \in Nat /\ b \in Nat /\ a <= b /\ Len(feed) \in Nat
  BY <1>1, FeedIs
<1>3. l \in Seq(Nat) /\ Ordered(l, Less) /\ S!ToSet(l) = a + 1 .. b /\ l # <<>>
  BY <1>1, <1>2, StretchIs
<1>4. S!ToSet(l) \subseteq S!Text
  <2>1. \A i \in a + 1 .. b : i \in 1 .. Len(feed) /\ feed[i] = "text"
    BY <1>1, <1>2
  <2>2. QED
    BY <1>3, <2>1, FeedIs
<1>5. b \in S!ToSet(l)
  BY <1>1, <1>2, <1>3
<1>6. ASSUME NEW s \in S!ToSet(l), NEW t \in S!ToSet(l) PROVE ~Cut(s, t)
  <2>1. ASSUME NEW e \in S!LineEnds, s < e, e < t PROVE FALSE
    <3>1. e \in 1 .. Len(feed) /\ feed[e] \in {"lf", "cr"}
      BY FeedIs
    <3>2. e \in a + 1 .. b
      BY <1>2, <1>3, <2>1, <3>1
    <3>3. QED
      BY <1>1, <3>1, <3>2
  <2>2. QED
    BY <2>1 DEF Cut
<1>7. QED
  BY <1>3, <1>4, <1>5, <1>6

\* and of a record.
LEMMA RecordIs ==
  ASSUME FeedOK, NEW R, RecordOK(R)
  PROVE  /\ S!FlattenSeq(R) \in Seq(Nat) /\ Ordered(S!FlattenSeq(R), Less)
         /\ In(R) = UNION { S!ToSet(R[i]) : i \in 1 .. Len(R) }
         /\ In(R) \subseteq S!Text /\ In(R) # {}
         /\ \A s, t \in In(R) : ~Parted(s, t)
<1>1. R \in Seq(Seq(Nat)) /\ R # <<>> /\ \A i \in 1 .. Len(R) : LineOK(R[i])
  BY DEF RecordOK
<1>2. \A i \in 1 .. Len(R) : /\ R[i] \in Seq(Nat) /\ Ordered(R[i], Less) /\ S!ToSet(R[i]) \subseteq S!Text
                             /\ S!ToSet(R[i]) # {} /\ \A s, t \in S!ToSet(R[i]) : ~Cut(s, t)
  BY <1>1, LineIs
<1>3. \A i, j \in 1 .. Len(R) : i < j =>
        \A s \in S!ToSet(R[i]), t \in S!ToSet(R[j]) : s < t /\ Cut(s, t) /\ ~Parted(s, t)
  BY DEF RecordOK
<1>4. \A t \in S!Text : t \in Nat
  BY FeedIs
<1>5. \A i, j \in 1 .. Len(R) : i < j => Precedes(R[i], R[j], Less)
  <2>1. ASSUME NEW i \in 1 .. Len(R), NEW j \in 1 .. Len(R), i < j, NEW s \in S!ToSet(R[i]), NEW t \in S!ToSet(R[j])
        PROVE  <<s, t>> \in Less
    <3>1. s < t /\ s \in Nat /\ t \in Nat
      BY <1>2, <1>3, <1>4, <2>1
    <3>2. QED
      BY <3>1 DEF Less
  <2>2. QED
    BY <2>1 DEF Precedes
<1>6. S!FlattenSeq(R) \in Seq(Nat) /\ Ordered(S!FlattenSeq(R), Less)
  <2>1. \A i \in 1 .. Len(R) : Ordered(R[i], Less)
    BY <1>2
  <2>2. QED
    BY <1>1, <1>5, <2>1, FlattenType, FlattenOrder
<1>7. In(R) = UNION { S!ToSet(R[i]) : i \in 1 .. Len(R) }
  BY <1>1, FlattenMembers DEF In
<1>8. In(R) # {}
  <2>1. 1 \in 1 .. Len(R)
    BY <1>1
  <2>2. QED
    BY <1>2, <1>7, <2>1
<1>9. In(R) \subseteq S!Text
  BY <1>2, <1>7
<1>10. ASSUME NEW s \in In(R), NEW t \in In(R) PROVE ~Parted(s, t)
  <2>1. PICK i, j \in 1 .. Len(R) : s \in S!ToSet(R[i]) /\ t \in S!ToSet(R[j])
    BY <1>7
  <2>2. s \in Nat /\ t \in Nat
    BY <1>4, <1>9
  <2>3. \A e \in S!Blanks : e \in S!LineEnds /\ e \in Nat
    BY FeedIs
  <2>4. CASE i = j
    <3>1. ~Cut(s, t)
      BY <1>2, <2>1, <2>4
    <3>2. QED
      BY <2>3, <3>1 DEF Cut, Parted
  <2>5. CASE i < j
    BY <1>3, <2>1, <2>5
  <2>6. CASE j < i
    <3>1. t < s
      BY <1>3, <2>1, <2>6
    <3>2. QED
      BY <2>2, <2>3, <3>1 DEF Parted
  <2>7. QED
    BY <2>4, <2>5, <2>6
<1>11. QED
  BY <1>6, <1>7, <1>8, <1>9, <1>10

\* One sequence more.
LEMMA FlattenMore ==
  ASSUME NEW V, NEW ss \in Seq(Seq(V)), NEW s \in Seq(V)
  PROVE  /\ Append(ss, s) \in Seq(Seq(V)) /\ S!FlattenSeq(Append(ss, s)) = S!FlattenSeq(ss) \o s
         /\ Len(Append(ss, s)) = Len(ss) + 1 /\ Append(ss, s)[Len(ss) + 1] = s
         /\ \A i \in 1 .. Len(ss) : Append(ss, s)[i] = ss[i]
<1>1. <<s>> \in Seq(Seq(V)) /\ Append(ss, s) = ss \o <<s>> /\ Append(ss, s) \in Seq(Seq(V))
  BY AppendIsConcat
<1>2. S!FlattenSeq(ss \o <<s>>) = S!FlattenSeq(ss) \o S!FlattenSeq(<<s>>)
  BY <1>1, FlattenBoth
<1>3. S!FlattenSeq(<<s>>) = s
  BY FlattenOne
<1>4. /\ Len(Append(ss, s)) = Len(ss) + 1 /\ Append(ss, s)[Len(ss) + 1] = s
      /\ \A i \in 1 .. Len(ss) : Append(ss, s)[i] = ss[i]
  BY AppendProperties
<1>5. QED
  BY <1>1, <1>2, <1>3, <1>4

\* A record with one line more.
LEMMA RecordWith ==
  ASSUME FeedOK, NEW R \in Seq(Seq(Nat)), R = <<>> \/ RecordOK(R), NEW l, LineOK(l),
         \A s \in In(R), t \in S!ToSet(l) : s < t /\ Cut(s, t) /\ ~Parted(s, t)
  PROVE  RecordOK(Append(R, l)) /\ In(Append(R, l)) = In(R) \cup S!ToSet(l)
<1>1. PICK Q : Q = Append(R, l)
  OBVIOUS
<1>2. l \in Seq(Nat)
  BY LineIs
<1>3. PICK n \in Nat : n = Len(R)
  OBVIOUS
<1>4. /\ Q \in Seq(Seq(Nat)) /\ S!FlattenSeq(Q) = S!FlattenSeq(R) \o l /\ Len(Q) = n + 1 /\ Q[n + 1] = l
      /\ \A i \in 1 .. n : Q[i] = R[i]
  BY <1>1, <1>2, <1>3, FlattenMore
<1>5. In(Q) = In(R) \cup S!ToSet(l)
  <2>1. S!FlattenSeq(R) \in Seq(Nat)
    BY FlattenType
  <2>2. QED
    BY <1>2, <1>4, <2>1, MembersBoth DEF In
<1>6. \A i \in 1 .. n + 1 : i = n + 1 \/ i \in 1 .. n
  BY <1>3
<1>7. \A i \in 1 .. n : LineOK(R[i])
  BY <1>3 DEF RecordOK
<1>8. \A i \in 1 .. n + 1 : LineOK(Q[i])
  BY <1>4, <1>6, <1>7
<1>9. ASSUME NEW i \in 1 .. n + 1, NEW j \in 1 .. n + 1, i < j, NEW s \in S!ToSet(Q[i]), NEW t \in S!ToSet(Q[j])
      PROVE  s < t /\ Cut(s, t) /\ ~Parted(s, t)
  <2>1. i \in 1 .. n /\ Q[i] = R[i]
    BY <1>3, <1>4, <1>9
  <2>2. CASE j = n + 1
    <3>1. s \in In(R)
      <4>1. In(R) = UNION { S!ToSet(R[k]) : k \in 1 .. n }
        BY <1>3, FlattenMembers DEF In
      <4>2. QED
        BY <1>9, <2>1, <4>1
    <3>2. t \in S!ToSet(l)
      BY <1>4, <1>9, <2>2
    <3>3. QED
      BY <3>1, <3>2
  <2>3. CASE j # n + 1
    <3>1. j \in 1 .. n /\ Q[j] = R[j]
      BY <1>4, <1>6, <2>3
    <3>2. RecordOK(R)
      BY <1>3, <2>1
    <3>3. QED
      BY <1>3, <1>9, <2>1, <3>1, <3>2 DEF RecordOK
  <2>4. QED
    BY <2>2, <2>3
<1>10. Q # <<>>
  BY <1>3, <1>4
<1>11. RecordOK(Q)
  BY <1>4, <1>8, <1>9, <1>10 DEF RecordOK
<1>12. QED
  BY <1>1, <1>5, <1>11

\* The records that are told, and one more.
LEMMA ToldIs ==
  ASSUME NEW o \in Seq(Seq(Seq(Nat)))
  PROVE  ToldBy(o) = UNION { In(o[r]) : r \in 1 .. Len(o) }
<1>1. S!FlattenSeq(o) \in Seq(Seq(Nat))
  BY FlattenType
<1>2. PICK F \in Seq(Seq(Nat)) : F = S!FlattenSeq(o)
  BY <1>1
<1>3. ToldBy(o) = UNION { S!ToSet(F[i]) : i \in 1 .. Len(F) }
  BY <1>2, FlattenMembers DEF ToldBy
<1>4. S!ToSet(F) = UNION { S!ToSet(o[r]) : r \in 1 .. Len(o) }
  BY <1>2, FlattenMembers
<1>5. ASSUME NEW r \in 1 .. Len(o), NEW x
      PROVE  x \in In(o[r]) <=> \E i \in 1 .. Len(o[r]) : x \in S!ToSet(o[r][i])
  <2>1. PICK R \in Seq(Seq(Nat)) : R = o[r]
    OBVIOUS
  <2>2. In(R) = UNION { S!ToSet(R[i]) : i \in 1 .. Len(R) }
    BY <2>1, FlattenMembers DEF In
  <2>3. x \in In(R) <=> \E i \in 1 .. Len(R) : x \in S!ToSet(R[i])
    BY <2>2
  <2>4. QED
    BY <2>1, <2>3
<1>6. \A x : x \in S!ToSet(F) <=> \E i \in 1 .. Len(F) : x = F[i]
  BY MembersOf
<1>7. \A r \in 1 .. Len(o) : \A x : x \in S!ToSet(o[r]) <=> \E i \in 1 .. Len(o[r]) : x = o[r][i]
  <2>1. ASSUME NEW r \in 1 .. Len(o), NEW x PROVE x \in S!ToSet(o[r]) <=> \E i \in 1 .. Len(o[r]) : x = o[r][i]
    <3>1. o[r] \in Seq(Seq(Nat))
      OBVIOUS
    <3>2. QED
      BY <3>1, MembersOf
  <2>2. QED
    BY <2>1
<1>8. ASSUME NEW x, x \in ToldBy(o) PROVE \E r \in 1 .. Len(o) : x \in In(o[r])
  <2>1. PICK i \in 1 .. Len(F) : x \in S!ToSet(F[i])
    BY <1>3, <1>8
  <2>2. F[i] \in S!ToSet(F)
    BY <1>6
  <2>3. PICK r \in 1 .. Len(o) : F[i] \in S!ToSet(o[r])
    BY <1>4, <2>2
  <2>4. PICK j \in 1 .. Len(o[r]) : F[i] = o[r][j]
    BY <1>7, <2>3
  <2>5. QED
    BY <1>5, <2>1, <2>4
<1>9. ASSUME NEW r \in 1 .. Len(o), NEW x \in In(o[r]) PROVE x \in ToldBy(o)
  <2>1. PICK i \in 1 .. Len(o[r]) : x \in S!ToSet(o[r][i])
    BY <1>5
  <2>2. o[r][i] \in S!ToSet(F)
    BY <1>4, <1>7
  <2>3. QED
    BY <1>3, <1>6, <2>1, <2>2
<1>10. QED
  BY <1>8, <1>9

\* One record more tells what is in it.
LEMMA ToldMore ==
  ASSUME NEW o \in Seq(Seq(Seq(Nat))), NEW R \in Seq(Seq(Nat))
  PROVE  ToldBy(Append(o, R)) = ToldBy(o) \cup In(R)
<1>1. PICK V : V = Seq(Nat)
  OBVIOUS
<1>2. o \in Seq(Seq(V)) /\ R \in Seq(V)
  BY <1>1
<1>3. S!FlattenSeq(Append(o, R)) = S!FlattenSeq(o) \o R
  BY <1>2, FlattenMore
<1>4. S!FlattenSeq(o) \in Seq(Seq(Nat))
  BY FlattenType
<1>5. S!FlattenSeq(S!FlattenSeq(o) \o R) = S!FlattenSeq(S!FlattenSeq(o)) \o S!FlattenSeq(R)
  BY <1>4, FlattenBoth
<1>6. S!FlattenSeq(S!FlattenSeq(o)) \in Seq(Nat) /\ S!FlattenSeq(R) \in Seq(Nat)
  BY <1>4, FlattenType
<1>7. QED
  BY <1>3, <1>5, <1>6, MembersBoth DEF ToldBy, In

\* All of it is text, of one record each, and in its order.
LEMMA ToldText ==
  ASSUME FeedOK, NEW o, OutOK(o)
  PROVE  /\ ToldBy(o) = UNION { In(o[r]) : r \in 1 .. Len(o) } /\ ToldBy(o) \subseteq S!Text
         /\ Ordered(S!FlattenSeq(S!FlattenSeq(o)), Less)
         /\ \A r, q \in 1 .. Len(o) : \A s \in In(o[r]), t \in In(o[q]) :
              IF r = q THEN ~Parted(s, t) ELSE s # t /\ (Parted(s, t) \/ Parted(t, s))
<1>1. /\ o \in Seq(Seq(Seq(Nat))) /\ \A r \in 1 .. Len(o) : RecordOK(o[r])
      /\ \A r, q \in 1 .. Len(o) : r < q => \A s \in In(o[r]), t \in In(o[q]) : Parted(s, t)
  BY DEF OutOK
<1>2. \A r \in 1 .. Len(o) : /\ S!FlattenSeq(o[r]) \in Seq(Nat) /\ Ordered(S!FlattenSeq(o[r]), Less)
                             /\ In(o[r]) = UNION { S!ToSet(o[r][i]) : i \in 1 .. Len(o[r]) }
                             /\ In(o[r]) \subseteq S!Text /\ \A s, t \in In(o[r]) : ~Parted(s, t)
  BY <1>1, RecordIs
<1>3. ToldBy(o) = UNION { In(o[r]) : r \in 1 .. Len(o) } /\ ToldBy(o) \subseteq S!Text
  BY <1>1, <1>2, ToldIs
<1>4. /\ \A t \in S!Text : t \in Nat
      /\ \A e \in S!Blanks : e \in Nat
  BY FeedIs
<1>5. \A s, t \in S!Text : Parted(s, t) => s < t
  BY <1>4 DEF Parted
<1> DEFINE Lines == { x \in Seq(Nat) \X Seq(Nat) : Precedes(x[1], x[2], Less) }
<1>6. \A x, y \in Seq(Nat) : Precedes(x, y, Less) => <<x, y>> \in Lines
  <2>1. ASSUME NEW x \in Seq(Nat), NEW y \in Seq(Nat), Precedes(x, y, Less) PROVE <<x, y>> \in Lines
    <3>1. <<x, y>> \in Seq(Nat) \X Seq(Nat) /\ <<x, y>>[1] = x /\ <<x, y>>[2] = y
      OBVIOUS
    <3>2. QED
      BY <2>1, <3>1
  <2>2. QED
    BY <2>1
<1>7. \A x, y \in Seq(Nat) : <<x, y>> \in Lines => Precedes(x, y, Less)
  OBVIOUS
<1>. HIDE DEF Lines
<1>8. ASSUME NEW r \in 1 .. Len(o) PROVE Ordered(o[r], Lines) /\ o[r] \in Seq(Seq(Nat))
  <2>1. o[r] \in Seq(Seq(Nat)) /\ RecordOK(o[r])
    BY <1>1
  <2>2. ASSUME NEW i \in 1 .. Len(o[r]), NEW j \in 1 .. Len(o[r]), i < j PROVE <<o[r][i], o[r][j]>> \in Lines
    <3>1. \A s \in S!ToSet(o[r][i]), t \in S!ToSet(o[r][j]) : s < t
      BY <2>1, <2>2 DEF RecordOK
    <3>2. S!ToSet(o[r][i]) \subseteq Nat /\ S!ToSet(o[r][j]) \subseteq Nat
      BY <1>2, <1>4
    <3>3. Precedes(o[r][i], o[r][j], Less)
      BY <3>1, <3>2 DEF Precedes, Less
    <3>4. o[r][i] \in Seq(Nat) /\ o[r][j] \in Seq(Nat)
      BY <2>1
    <3>5. QED
      BY <1>6, <3>3, <3>4
  <2>3. QED
    BY <2>1, <2>2 DEF Ordered
<1>9. ASSUME NEW r \in 1 .. Len(o), NEW q \in 1 .. Len(o), r < q PROVE Precedes(o[r], o[q], Lines)
  <2>1. ASSUME NEW x \in S!ToSet(o[r]), NEW y \in S!ToSet(o[q]) PROVE <<x, y>> \in Lines
    <3>1. PICK i \in 1 .. Len(o[r]) : x = o[r][i]
      BY <1>8, MembersOf
    <3>2. PICK j \in 1 .. Len(o[q]) : y = o[q][j]
      BY <1>8, MembersOf
    <3>3. x \in Seq(Nat) /\ y \in Seq(Nat)
      BY <1>8, <3>1, <3>2
    <3>4. S!ToSet(x) \subseteq In(o[r]) /\ S!ToSet(y) \subseteq In(o[q])
      BY <1>2, <3>1, <3>2
    <3>5. \A s \in S!ToSet(x), t \in S!ToSet(y) : s < t /\ s \in Nat /\ t \in Nat
      BY <1>1, <1>2, <1>4, <1>5, <1>9, <3>4
    <3>6. Precedes(x, y, Less)
      BY <3>5 DEF Precedes, Less
    <3>7. QED
      BY <1>6, <3>3, <3>6
  <2>2. QED
    BY <2>1 DEF Precedes
<1>10. PICK F : F = S!FlattenSeq(o)
  OBVIOUS
<1>11. F \in Seq(Seq(Nat)) /\ Ordered(F, Lines)
  <2>1. PICK V : V = Seq(Nat)
    OBVIOUS
  <2>2. o \in Seq(Seq(V))
    BY <1>1, <2>1
  <2>3. \A r \in 1 .. Len(o) : Ordered(o[r], Lines)
    BY <1>8
  <2>4. F \in Seq(V) /\ Ordered(F, Lines)
    BY <1>9, <1>10, <2>2, <2>3, FlattenType, FlattenOrder
  <2>5. QED
    BY <2>1, <2>4
<1>12. \A i, j \in 1 .. Len(F) : i < j => Precedes(F[i], F[j], Less)
  <2>1. ASSUME NEW i \in 1 .. Len(F), NEW j \in 1 .. Len(F), i < j PROVE Precedes(F[i], F[j], Less)
    <3>1. <<F[i], F[j]>> \in Lines /\ F[i] \in Seq(Nat) /\ F[j] \in Seq(Nat)
      BY <1>11, <2>1 DEF Ordered
    <3>2. QED
      BY <1>7, <3>1
  <2>2. QED
    BY <2>1
<1>13. ASSUME NEW i \in 1 .. Len(F) PROVE Ordered(F[i], Less)
  <2>1. F[i] \in S!ToSet(F)
    BY <1>11, MembersOf
  <2>2. PICK r \in 1 .. Len(o) : F[i] \in S!ToSet(o[r])
    BY <1>1, <1>10, <2>1, FlattenMembers
  <2>3. PICK k \in 1 .. Len(o[r]) : F[i] = o[r][k]
    BY <1>8, <2>2, MembersOf
  <2>4. LineOK(F[i])
    BY <1>1, <2>3 DEF RecordOK
  <2>5. QED
    BY <2>4, LineIs
<1>14. Ordered(S!FlattenSeq(F), Less)
  BY <1>11, <1>12, <1>13, FlattenOrder
<1>15. ASSUME NEW r \in 1 .. Len(o), NEW q \in 1 .. Len(o), NEW s \in In(o[r]), NEW t \in In(o[q])
       PROVE  IF r = q THEN ~Parted(s, t) ELSE s # t /\ (Parted(s, t) \/ Parted(t, s))
  <2>1. CASE r = q
    BY <1>2, <2>1
  <2>2. CASE r # q
    <3>1. Parted(s, t) \/ Parted(t, s)
      <4>1. r < q \/ q < r
        BY <2>2
      <4>2. QED
        BY <1>1, <4>1
    <3>2. s \in S!Text /\ t \in S!Text /\ s \in Nat /\ t \in Nat
      BY <1>2, <1>4
    <3>3. s # t
      BY <1>5, <3>1, <3>2
    <3>4. QED
      BY <2>2, <3>1, <3>3
  <2>3. QED
    BY <2>1, <2>2
<1>16. QED
  BY <1>3, <1>10, <1>14, <1>15

\* A record more.
LEMMA OutWith ==
  ASSUME FeedOK, NEW o, OutOK(o), NEW R, RecordOK(R), S!Size(R) <= MaxSize,
         \A s \in ToldBy(o), t \in In(R) : Parted(s, t)
  PROVE  OutOK(Append(o, R)) /\ ToldBy(Append(o, R)) = ToldBy(o) \cup In(R)
<1>1. o \in Seq(Seq(Seq(Nat))) /\ R \in Seq(Seq(Nat))
  BY DEF OutOK, RecordOK
<1>2. PICK p : p = Append(o, R)
  OBVIOUS
<1>3. PICK n \in Nat : n = Len(o)
  BY <1>1
<1>4. /\ p \in Seq(Seq(Seq(Nat))) /\ Len(p) = n + 1 /\ p[n + 1] = R
      /\ \A i \in 1 .. n : p[i] = o[i]
  BY <1>1, <1>2, <1>3, AppendProperties
<1>5. ToldBy(p) = ToldBy(o) \cup In(R)
  BY <1>1, <1>2, ToldMore
<1>6. \A i \in 1 .. n + 1 : i = n + 1 \/ i \in 1 .. n
  BY <1>3
<1>7. \A r \in 1 .. n + 1 : RecordOK(p[r]) /\ S!Size(p[r]) <= MaxSize
  BY <1>3, <1>4, <1>6 DEF OutOK
<1>8. ASSUME NEW r \in 1 .. n + 1, NEW q \in 1 .. n + 1, r < q, NEW s \in In(p[r]), NEW t \in In(p[q])
      PROVE  Parted(s, t)
  <2>1. r \in 1 .. n /\ p[r] = o[r]
    BY <1>3, <1>4, <1>8
  <2>2. CASE q = n + 1
    <3>1. s \in ToldBy(o)
      BY <1>1, <1>3, <1>8, <2>1, ToldIs
    <3>2. QED
      BY <1>4, <1>8, <2>2, <3>1
  <2>3. CASE q # n + 1
    <3>1. q \in 1 .. n /\ p[q] = o[q]
      BY <1>4, <1>6, <2>3
    <3>2. QED
      BY <1>3, <1>8, <2>1, <3>1 DEF OutOK
  <2>4. QED
    BY <2>2, <2>3
<1>9. OutOK(p)
  BY <1>4, <1>7, <1>8 DEF OutOK
<1>10. QED
  BY <1>2, <1>5, <1>9

\* The reader counts as everybody does.
LEMMA SameCount == ASSUME NEW X PROVE S!Cardinality(X) = Cardinality(X)
BY DEF S!Cardinality, Cardinality, S!IsFiniteSet, IsFiniteSet

\* Different members of a set are no more than it has.
LEMMA CountAtLeast ==
  ASSUME NEW X, IsFiniteSet(X), NEW n \in Nat, NEW s, \A a \in 1 .. n : s[a] \in X,
         \A a, b \in 1 .. n : a < b => s[a] # s[b]
  PROVE  n <= Cardinality(X) /\ Cardinality(X) \in Nat
<1> DEFINE f == [i \in 1 .. n |-> s[i]]
<1>1. f \in [1 .. n -> X]
  OBVIOUS
<1>2. \A a, b \in 1 .. n : f[a] = f[b] => a = b
  <2>1. ASSUME NEW a \in 1 .. n, NEW b \in 1 .. n, a # b PROVE s[a] # s[b]
    <3>1. a < b \/ b < a
      BY <2>1
    <3>2. QED
      BY <3>1
  <2>2. QED
    BY <2>1
<1>. HIDE DEF f
<1>3. f \in Injection(1 .. n, X)
  BY <1>1, <1>2 DEF Injection, IsInjective
<1>4. Cardinality(1 .. n) = n
  BY FS_Interval
<1>5. Cardinality(1 .. n) <= Cardinality(X)
  BY <1>3, FS_Injection
<1>6. Cardinality(X) \in Nat
  BY FS_CardinalityType
<1>7. QED
  BY <1>4, <1>5, <1>6

\* What a record that has grown too large is found by.
LEMMA TooLargeIs ==
  ASSUME FeedOK, NEW R, RecordOK(R), MaxSize \in Nat, ~(S!Size(R) <= MaxSize), NEW t \in In(R)
  PROVE  S!TooLarge(t)
<1> DEFINE texts == { s \in S!Text : S!SameRecord(s, t) }
           lines == { { s \in texts : S!SameLine(s, u) } : u \in texts }
<1>1. texts = { s \in S!Text : S!SameRecord(s, t) }
  OBVIOUS
<1>2. lines = { { s \in texts : S!SameLine(s, u) } : u \in texts }
  OBVIOUS
<1>. HIDE DEF texts, lines
<1>3. /\ S!FlattenSeq(R) \in Seq(Nat) /\ Ordered(S!FlattenSeq(R), Less)
      /\ In(R) = UNION { S!ToSet(R[i]) : i \in 1 .. Len(R) }
      /\ In(R) \subseteq S!Text /\ \A s, u \in In(R) : ~Parted(s, u)
  BY RecordIs
<1>4. PICK F \in Seq(Nat) : F = S!FlattenSeq(R)
  BY <1>3
<1>5. R \in Seq(Seq(Nat)) /\ R # <<>>
  BY DEF RecordOK
<1>6. PICK m, n \in Nat : m = Len(F) /\ n = Len(R) /\ S!Size(R) = m + n - 1
  BY <1>4, <1>5 DEF S!Size
<1>7. In(R) \subseteq texts
  BY <1>1, <1>3 DEF S!SameRecord, Parted
<1>8. IsFiniteSet(texts)
  <2>1. IsFiniteSet(1 .. Len(feed)) /\ texts \subseteq 1 .. Len(feed)
    BY <1>1, FeedIs, FS_Interval
  <2>2. QED
    BY <2>1, FS_Subset
<1>9. m <= Cardinality(texts) /\ Cardinality(texts) \in Nat
  <2>1. ASSUME NEW a \in 1 .. m PROVE F[a] \in texts
    <3>1. F[a] \in In(R)
      BY <1>4, <1>6, MembersOf DEF In
    <3>2. QED
      BY <1>7, <3>1
  <2>2. ASSUME NEW a \in 1 .. m, NEW b \in 1 .. m, a < b PROVE F[a] # F[b]
    <3>1. <<F[a], F[b]>> \in Less /\ F[a] \in Nat /\ F[b] \in Nat
      BY <1>3, <1>4, <1>6, <2>2 DEF Ordered
    <3>2. F[a] < F[b]
      BY <3>1 DEF Less
    <3>3. QED
      BY <3>1, <3>2
  <2>3. QED
    BY <1>8, <2>1, <2>2, CountAtLeast
<1> DEFINE Class(u) == { s \in texts : S!SameLine(s, u) }
           classes == [u \in texts |-> Class(u)]
           c == [i \in 1 .. n |-> Class(R[i][1])]
<1>10. IsFiniteSet(lines)
  <2>1. lines = { classes[u] : u \in texts } /\ classes = [u \in texts |-> classes[u]]
    BY <1>2
  <2>. HIDE DEF classes
  <2>2. classes \in [texts -> lines] /\ \A x \in lines : \E u \in texts : classes[u] = x
    BY <2>1
  <2>3. classes \in Surjection(texts, lines)
    BY <2>2 DEF Surjection
  <2>4. QED
    BY <1>8, <2>3, FS_Surjection
<1>11. \A i \in 1 .. n : R[i][1] \in S!ToSet(R[i]) /\ R[i][1] \in texts
  <2>1. ASSUME NEW i \in 1 .. n PROVE R[i][1] \in S!ToSet(R[i]) /\ R[i][1] \in texts
    <3>1. LineOK(R[i])
      BY <1>6 DEF RecordOK
    <3>2. R[i] \in Seq(Nat) /\ R[i] # <<>>
      BY <3>1, LineIs
    <3>3. R[i][1] \in S!ToSet(R[i])
      <4>1. 1 \in 1 .. Len(R[i])
        BY <3>2
      <4>2. QED
        BY <3>2, <4>1, MembersOf
    <3>4. QED
      BY <1>3, <1>6, <1>7, <3>3
  <2>2. QED
    BY <2>1
<1>12. \A u \in texts : u \in Class(u)
  <2>1. \A u \in texts : S!SameLine(u, u)
    <3>1. ASSUME NEW u \in texts, NEW e \in S!LineEnds PROVE ~(u < e /\ e < u)
      BY <1>1, FeedIs
    <3>2. QED
      BY <3>1 DEF S!SameLine
  <2>2. QED
    BY <2>1
<1>13. \A i \in 1 .. n : c[i] \in lines
  BY <1>2, <1>11
<1>14. ASSUME NEW i \in 1 .. n, NEW j \in 1 .. n, i < j PROVE c[i] # c[j]
  <2>1. Cut(R[i][1], R[j][1])
    BY <1>6, <1>11, <1>14 DEF RecordOK
  <2>2. ~S!SameLine(R[i][1], R[j][1])
    BY <2>1 DEF Cut, S!SameLine
  <2>3. R[i][1] \in Class(R[i][1]) /\ R[i][1] \notin Class(R[j][1])
    BY <1>11, <1>12, <2>2
  <2>4. QED
    BY <2>3
<1>15. n <= Cardinality(lines) /\ Cardinality(lines) \in Nat
  <2>. HIDE DEF c
  <2>1. QED
    BY <1>10, <1>13, <1>14, CountAtLeast
<1>16. Cardinality(texts) + Cardinality(lines) - 1 > MaxSize
  BY <1>6, <1>9, <1>15
<1>17. QED
  BY <1>16, SameCount DEF S!TooLarge, texts, lines

\* A line that is too long.
LEMMA LongLineIs ==
  ASSUME FeedOK, NEW base, LineAt(base), ~peeking, pos \in Nat, MaxSize \in Nat, Len(line) >= MaxSize,
         NEW t, t = pos + 1, t \in 1 .. Len(feed), feed[t] = "text"
  PROVE  t \in S!Text /\ S!LongLine(t) /\ S!TooLarge(t) /\ \A e \in S!LineEnds : ~(base < e /\ e < t)
<1>1. /\ base \in 0 .. pos /\ \A i \in base + 1 .. pos : feed[i] \notin {"lf", "cr"}
      /\ line = Stretch(base, pos)
  BY DEF LineAt, Taken
<1>2. Len(line) = pos - base
  <2>1. base \in Nat /\ base <= pos
    BY <1>1
  <2>2. QED
    BY <1>1, <2>1, StretchIs
<1>3. Len(feed) \in Nat /\ DOMAIN feed = 1 .. Len(feed)
  BY FeedIs DEF FeedOK
<1>4. t \in S!Text
  BY FeedIs
<1> DEFINE L == { s \in DOMAIN feed \ S!LineEnds : feed[s] # "lf" /\ S!SameLine(s, t) }
<1>5. L = { s \in DOMAIN feed \ S!LineEnds : feed[s] # "lf" /\ S!SameLine(s, t) }
  OBVIOUS
<1>. HIDE DEF L
<1>6. \A i \in base + 1 .. t : i \in 1 .. Len(feed) /\ feed[i] \notin {"lf", "cr"}
  BY <1>1, <1>3
<1>7. \A e \in S!LineEnds : e \in Nat /\ feed[e] \in {"lf", "cr"}
  BY FeedIs
<1>8. \A e \in S!LineEnds : ~(base < e /\ e <= t)
  <2>1. ASSUME NEW e \in S!LineEnds, base < e, e <= t PROVE e \in base + 1 .. t
    BY <1>1, <1>7, <2>1
  <2>2. QED
    BY <1>6, <1>7, <2>1
<1>9. ASSUME NEW i \in base + 1 .. t PROVE i \in L
  <2>1. i \in DOMAIN feed /\ i \notin S!LineEnds /\ feed[i] # "lf"
    BY <1>3, <1>6, <1>7
  <2>2. ASSUME NEW e \in S!LineEnds PROVE ~((i < e /\ e < t) \/ (t < e /\ e < i))
    <3>1. e \in Nat /\ i \in Nat /\ t \in Nat /\ base \in Nat /\ base < i /\ i <= t /\ ~(base < e /\ e <= t)
      BY <1>1, <1>7, <1>8
    <3>2. QED
      BY <3>1
  <2>3. S!SameLine(i, t)
    BY <2>2 DEF S!SameLine
  <2>4. QED
    BY <1>5, <2>1, <2>3
<1>10. IsFiniteSet(L)
  <2>1. IsFiniteSet(1 .. Len(feed)) /\ L \subseteq 1 .. Len(feed)
    BY <1>3, <1>5, FS_Interval
  <2>2. QED
    BY <2>1, FS_Subset
<1>11. Cardinality(base + 1 .. t) <= Cardinality(L) /\ Cardinality(L) \in Nat
  <2>1. base + 1 .. t \subseteq L
    BY <1>9
  <2>2. QED
    BY <1>10, <2>1, FS_Subset, FS_CardinalityType
<1>12. Cardinality(base + 1 .. t) = t - base
  BY <1>1, FS_Interval
<1>13. S!LongLine(t)
  <2>1. Cardinality(L) > MaxSize
    BY <1>1, <1>2, <1>11, <1>12
  <2>2. QED
    BY <2>1, SameCount DEF S!LongLine, L
<1>14. S!SameRecord(t, t)
  BY <1>7, FeedIs DEF S!SameRecord
<1>15. S!TooLarge(t)
  BY <1>4, <1>13, <1>14 DEF S!TooLarge
<1>16. \A e \in S!LineEnds : ~(base < e /\ e < t)
  <2>1. \A e \in S!LineEnds : e < t => e <= t
    BY <1>7
  <2>2. QED
    BY <1>8, <2>1
<1>17. QED
  BY <1>4, <1>13, <1>15, <1>16

\* The line under way without the mark.
TrimmedTo(base, c) ==
  /\ c \in base .. Taken /\ S!Trimmed(line) = Stretch(c, Taken)
  /\ \A i \in c + 1 .. Taken : feed[i] = "text"
  /\ \A t \in S!Text : base < t /\ t <= Taken => c < t

\* Only a mark can be missing, and it is no text.
LEMMA TrimmedIs ==
  ASSUME FeedOK, Taken \in 0 .. Len(feed), NEW base, LineAt(base)
  PROVE  \E c : TrimmedTo(base, c)
<1>1. PICK p \in Nat : p = Taken
  BY FeedIs
<1>2. base \in Nat /\ base <= p /\ p \in 0 .. Len(feed) /\ Len(feed) \in Nat
  BY <1>1, FeedIs DEF LineAt
<1>3. /\ line = Stretch(base, p) /\ first = (base = 0)
      /\ \A i \in base + 1 .. p : feed[i] \notin {"lf", "cr"}
  BY <1>1 DEF LineAt
<1>4. \A i \in base + 1 .. p : i \in 1 .. Len(feed) /\ (feed[i] = "text" \/ (feed[i] = "mark" /\ i = 1))
  <2>1. ASSUME NEW i \in base + 1 .. p PROVE i \in 1 .. Len(feed)
    BY <1>2
  <2>2. QED
    BY <1>3, <2>1, FeedIs DEF Bytes
<1>5. /\ line \in Seq(Nat) /\ Len(line) = p - base /\ \A i \in 1 .. p - base : line[i] = base + i
      /\ base = p <=> line = <<>>
  BY <1>2, <1>3, StretchIs
<1>6. CASE first /\ line # <<>> /\ feed[Head(line)] = "mark"
  <2>a. base = 0
    BY <1>3, <1>6, Zenon
  <2>1. base = 0 /\ p >= 1
    BY <1>2, <1>5, <1>6, <2>a
  <2>2. line[1] = 1
    BY <1>5, <2>1
  <2>3. feed[1] = "mark"
    BY <1>6, <2>2, <1>5
  <2>4. Tail(line) \in Seq(Nat) /\ Len(Tail(line)) = p - 1 /\ \A i \in 1 .. p - 1 : Tail(line)[i] = line[i + 1]
    BY <1>5, <1>6, <2>1, HeadTailProperties
  <2>5. Stretch(1, p) \in Seq(Nat) /\ Len(Stretch(1, p)) = p - 1 /\ \A i \in 1 .. p - 1 : Stretch(1, p)[i] = 1 + i
    BY <1>1, <2>1, StretchIs
  <2>6. \A i \in 1 .. p - 1 : Tail(line)[i] = Stretch(1, p)[i]
    <3>1. ASSUME NEW i \in 1 .. p - 1 PROVE Tail(line)[i] = Stretch(1, p)[i]
      <4>1. i + 1 \in 1 .. p - base /\ base + (i + 1) = 1 + i
        BY <1>1, <2>1
      <4>2. QED
        BY <1>5, <2>4, <2>5, <4>1
    <3>2. QED
      BY <3>1
  <2>7. Tail(line) = Stretch(1, p)
    BY <2>4, <2>5, <2>6, SeqEqual
  <2>8. S!Trimmed(line) = Stretch(1, p)
    BY <1>6, <2>7 DEF S!Trimmed
  <2>9. \A i \in 1 + 1 .. p : feed[i] = "text"
    <3>1. \A i \in 1 + 1 .. p : i \in base + 1 .. p /\ i # 1
      BY <1>1, <2>1
    <3>2. QED
      BY <1>4, <3>1
  <2>10. ASSUME NEW t \in S!Text PROVE 1 < t
    <3>1. t \in 1 .. Len(feed) /\ feed[t] = "text"
      BY FeedIs
    <3>2. t # 1
      BY <2>3, <3>1
    <3>3. QED
      BY <3>1, <3>2
  <2>11. 1 \in base .. p
    BY <1>1, <2>1
  <2>12. TrimmedTo(base, 1)
    BY <1>1, <2>8, <2>9, <2>10, <2>11 DEF TrimmedTo
  <2>13. QED
    BY <2>12
<1>7. CASE ~(first /\ line # <<>> /\ feed[Head(line)] = "mark")
  <2>1. S!Trimmed(line) = Stretch(base, p)
    BY <1>3, <1>7 DEF S!Trimmed
  <2>2. ASSUME NEW i \in base + 1 .. p PROVE feed[i] = "text"
    <3>1. SUFFICES ASSUME feed[i] = "mark" PROVE FALSE
      BY <1>4
    <3>2. i = 1 /\ base = 0 /\ p >= 1
      BY <1>2, <1>4, <3>1
    <3>3. line # <<>> /\ line[1] = 1
      BY <1>1, <1>5, <3>2
    <3>4. Head(line) = 1
      BY <1>5, <3>3
    <3>5. QED
      BY <1>3, <1>7, <3>1, <3>2, <3>3, <3>4
  <2>3. TrimmedTo(base, base)
    BY <1>1, <1>2, <2>1, <2>2 DEF TrimmedTo
  <2>4. QED
    BY <2>3
<1>8. QED
  BY <1>6, <1>7

\* Nothing is told out of order.
LEMMA HeldClosed ==
  ASSUME FeedOK, NEW o, NEW R, NEW base \in Nat, HeldOK(o, R, base)
  PROVE  \A t \in ToldBy(o), s \in S!Text : s < t => s \in ToldBy(o)
<1>1. SUFFICES ASSUME NEW t \in ToldBy(o), NEW s \in S!Text, s < t, s \in In(R) PROVE FALSE
  <2>1. ToldBy(o) \cup In(R) = S!Text \cap 1 .. base
    BY DEF HeldOK
  <2>2. \A t \in S!Text : t \in Nat /\ t >= 1
    BY FeedIs
  <2>3. QED
    BY <2>1, <2>2
<1>2. PICK e \in S!Blanks : t < e /\ \A u \in In(R) : e < u
  BY DEF HeldOK
<1>3. t \in S!Text
  BY DEF HeldOK
<1>4. e < s /\ e \in Nat /\ s \in Nat /\ t \in Nat
  BY <1>1, <1>2, <1>3, FeedIs
<1>5. QED
  BY <1>1, <1>2, <1>4

\* What is held once the line under way joins it.
TakenOK(o, Q, base) ==
  /\ RecordOK(Q) /\ Taken \in In(Q) \ ToldBy(o) /\ Taken \in S!Text
  /\ ToldBy(o) \cup In(Q) = S!Text \cap 1 .. Taken
  /\ \A s \in ToldBy(o) : \E e \in S!Blanks : s < e /\ e <= base /\ \A t \in In(Q) : e < t
  /\ \A s \in In(Q), e \in S!Blanks : ~(s < e /\ e <= Taken)

\* The line under way joins what is held.
LEMMA LineTaken ==
  ASSUME FeedOK, Taken \in 0 .. Len(feed), NEW base, LineAt(base), NEW o, NEW R, HeldOK(o, R, base),
         NEW c, TrimmedTo(base, c), c # Taken, NEW Q, Q = Append(R, Stretch(c, Taken))
  PROVE  TakenOK(o, Q, base)
<1>1. PICK p \in Nat : p = Taken
  BY FeedIs
<1>2. /\ base \in Nat /\ c \in Nat /\ base <= c /\ c < p /\ Len(feed) \in Nat /\ p <= Len(feed)
  BY <1>1, FeedIs DEF LineAt, TrimmedTo
<1>3. /\ \A i \in base + 1 .. p : feed[i] \notin {"lf", "cr"}
      /\ base > 0 => feed[base] \in {"lf", "cr"}
      /\ \A i \in c + 1 .. p : feed[i] = "text"
      /\ \A t \in S!Text : base < t /\ t <= p => c < t
  BY <1>1 DEF LineAt, TrimmedTo
<1>4. PICK l : l = Stretch(c, p)
  OBVIOUS
<1>5. LineOK(l)
  <2>1. c \in 0 .. Len(feed) /\ p \in 0 .. Len(feed)
    BY <1>1, <1>2
  <2>2. QED
    BY <1>2, <1>3, <1>4, <2>1 DEF LineOK
<1>6. S!ToSet(l) = c + 1 .. p
  BY <1>1, <1>2, <1>4, StretchIs
<1>7. /\ R = <<>> \/ RecordOK(R)
      /\ ToldBy(o) \cup In(R) = S!Text \cap 1 .. base
      /\ \A s \in ToldBy(o) : \E e \in S!Blanks : s < e /\ e <= base /\ \A t \in In(R) : e < t
      /\ \A s \in In(R), e \in S!Blanks : ~(s < e /\ e <= base)
  BY DEF HeldOK
<1>8. R \in Seq(Seq(Nat))
  <2>1. <<>> \in Seq(Seq(Nat))
    BY EmptySeq
  <2>2. RecordOK(R) => R \in Seq(Seq(Nat))
    BY DEF RecordOK
  <2>3. QED
    BY <1>7, <2>1, <2>2
<1>9. /\ \A e \in S!Blanks : e \in S!LineEnds /\ e \in Nat
      /\ \A t \in S!Text : t \in Nat /\ t >= 1 /\ t <= Len(feed)
      /\ \A e \in S!LineEnds : e \in Nat /\ feed[e] \in {"lf", "cr"}
  BY FeedIs
<1>10. \A e \in S!LineEnds : ~(base < e /\ e <= p)
  BY <1>2, <1>3, <1>9
<1>11. ASSUME NEW s \in In(R), NEW t \in S!ToSet(l) PROVE s < t /\ Cut(s, t) /\ ~Parted(s, t)
  <2>1. s \in S!Text /\ s \in 1 .. base /\ t \in c + 1 .. p
    BY <1>6, <1>7
  <2>2. base \in 1 .. Len(feed) /\ feed[base] \in {"lf", "cr"}
    BY <1>2, <1>3, <2>1
  <2>3. PICK d \in S!LineEnds : d <= base /\ \A u \in S!Text : u <= base => u < d
    BY <2>2, EndNear
  <2>4. s < d /\ d < t /\ s < t
    BY <1>2, <1>9, <2>1, <2>3
  <2>5. ASSUME NEW e \in S!Blanks, s < e, e < t PROVE FALSE
    <3>1. e \in S!LineEnds /\ e \in Nat /\ t \in Nat /\ t <= p
      BY <1>2, <1>9, <2>1
    <3>2. CASE e <= base
      BY <1>7, <2>5, <3>2
    <3>3. CASE ~(e <= base)
      BY <1>2, <1>10, <2>5, <3>1, <3>3
    <3>4. QED
      BY <3>2, <3>3
  <2>6. QED
    BY <2>3, <2>4, <2>5 DEF Cut, Parted
<1>12. RecordOK(Q) /\ In(Q) = In(R) \cup (c + 1 .. p)
  BY <1>1, <1>4, <1>5, <1>6, <1>7, <1>8, <1>11, RecordWith
<1>13. \A t \in c + 1 .. p : t \in S!Text /\ t \in Nat /\ base < t /\ t <= p
  <2>1. \A t \in c + 1 .. p : t \in 1 .. Len(feed) /\ feed[t] = "text" /\ t \in Nat /\ base < t /\ t <= p
    BY <1>2, <1>3
  <2>2. QED
    BY <2>1, FeedIs
<1>14. p \in c + 1 .. p /\ p \in S!Text /\ p \in In(Q)
  <2>1. p \in c + 1 .. p
    BY <1>2
  <2>2. QED
    BY <1>12, <1>13, <2>1
<1>15. p \notin ToldBy(o)
  BY <1>2, <1>7
<1>16. ToldBy(o) \cup In(Q) = S!Text \cap 1 .. p
  <2>1. \A t \in S!Text : t \in 1 .. p => t \in 1 .. base \/ t \in c + 1 .. p
    BY <1>2, <1>3, <1>9
  <2>2. \A t \in c + 1 .. p : t \in S!Text /\ t \in 1 .. p
    BY <1>2, <1>13
  <2>3. 1 .. base \subseteq 1 .. p
    BY <1>2
  <2>4. QED
    BY <1>7, <1>12, <2>1, <2>2, <2>3
<1>17. ASSUME NEW s \in ToldBy(o) PROVE \E e \in S!Blanks : s < e /\ e <= base /\ \A t \in In(Q) : e < t
  <2>1. PICK e \in S!Blanks : s < e /\ e <= base /\ \A t \in In(R) : e < t
    BY <1>7
  <2>2. \A t \in c + 1 .. p : e < t
    BY <1>2, <1>9, <2>1
  <2>3. QED
    BY <1>12, <2>1, <2>2
<1>18. ASSUME NEW s \in In(Q), NEW e \in S!Blanks, s < e, e <= p PROVE FALSE
  <2>1. e \in S!LineEnds /\ e \in Nat /\ e <= base
    BY <1>2, <1>9, <1>10, <1>18
  <2>2. CASE s \in In(R)
    BY <1>7, <1>18, <2>1, <2>2
  <2>3. CASE s \in c + 1 .. p
    BY <1>2, <1>18, <2>1, <2>3
  <2>4. QED
    BY <1>12, <2>2, <2>3
<1>19. QED
  BY <1>1, <1>12, <1>14, <1>15, <1>16, <1>17, <1>18 DEF TakenOK

\* What a line end does: a line joins the record, unless it is empty and the record is over, or it
\* makes the record too large.
LineEnd(base, e, nb) ==
  /\ e = Taken + 1 /\ e \in S!LineEnds /\ nb \in e .. Len(feed)
  /\ \A d \in S!LineEnds : ~(e < d /\ d <= nb)
  /\ \A t \in S!Text : ~(e <= t /\ t <= nb)

Refused(o) == /\ \A t \in ToldBy(o), s \in S!Text : s < t => s \in ToldBy(o)
              /\ \E t \in S!Text \ ToldBy(o) : t <= Taken /\ S!TooLarge(t)

\* After a line end the line is held, refused, or the record it ends is told.
LEMMA LineEnded ==
  ASSUME FeedOK, Taken \in 0 .. Len(feed), MaxSize \in Nat \ {0}, OutOK(out), ended = "no",
         NEW base, LineAt(base), HeldOK(out, buf, base), NEW e, NEW nb, LineEnd(base, e, nb), S!NextLine(line)
  PROVE  /\ line' = <<>> /\ first' = FALSE
         /\ \E o, R : /\ o = out' /\ R = buf' /\ OutOK(o)
                      /\ \/ ended' = "no" /\ HeldOK(o, R, nb)
                         \/ ended' = "too_large" /\ Refused(o)
<1>1. PICK c : TrimmedTo(base, c)
  BY TrimmedIs
<1>2. PICK p \in Nat : p = Taken
  BY FeedIs
<1>3. /\ base \in Nat /\ c \in Nat /\ base <= c /\ c <= p /\ Len(feed) \in Nat /\ p <= Len(feed)
      /\ nb \in Nat /\ e = p + 1 /\ e <= nb /\ nb <= Len(feed) /\ e \in S!LineEnds
  BY <1>1, <1>2, FeedIs DEF LineAt, TrimmedTo, LineEnd
<1>4. /\ \A d \in S!LineEnds : ~(e < d /\ d <= nb)
      /\ \A t \in S!Text : ~(e <= t /\ t <= nb)
      /\ \A t \in S!Text : base < t /\ t <= p => c < t
      /\ base > 0 => feed[base] \in {"lf", "cr"}
      /\ \A i \in base + 1 .. p : feed[i] \notin {"lf", "cr"}
  BY <1>1, <1>2 DEF LineEnd, TrimmedTo, LineAt
<1>5. /\ buf = <<>> \/ (RecordOK(buf) /\ S!Size(buf) <= MaxSize)
      /\ ToldBy(out) \cup In(buf) = S!Text \cap 1 .. base
      /\ \A s \in ToldBy(out) : \E d \in S!Blanks : s < d /\ d <= base /\ \A t \in In(buf) : d < t
      /\ \A s \in In(buf), d \in S!Blanks : ~(s < d /\ d <= base)
  BY DEF HeldOK
<1>6. /\ \A d \in S!Blanks : d \in S!LineEnds /\ d \in Nat
      /\ \A t \in S!Text : t \in Nat /\ t >= 1 /\ t <= Len(feed)
      /\ \A d \in S!LineEnds : d \in Nat /\ feed[d] \in {"lf", "cr"}
  BY FeedIs
<1>7. line' = <<>> /\ first' = FALSE
  BY DEF S!NextLine
<1>8. PICK l : l = S!Trimmed(line)
  OBVIOUS
<1>9. l = Stretch(c, p) /\ (c = p <=> l = <<>>)
  BY <1>1, <1>2, <1>3, <1>8, StretchIs DEF TrimmedTo
<1>10. S!Text \cap 1 .. p = S!Text \cap 1 .. nb
  <2>1. \A t \in S!Text : t \in 1 .. p <=> t \in 1 .. nb
    BY <1>3, <1>4, <1>6
  <2>2. QED
    BY <2>1
<1>11. CASE c # p
  <2>1. PICK Q : Q = Append(buf, l)
    OBVIOUS
  <2>2. /\ RecordOK(Q) /\ p \in In(Q) \ ToldBy(out) /\ p \in S!Text
        /\ ToldBy(out) \cup In(Q) = S!Text \cap 1 .. p
        /\ \A s \in ToldBy(out) : \E d \in S!Blanks : s < d /\ d <= base /\ \A t \in In(Q) : d < t
        /\ \A s \in In(Q), d \in S!Blanks : ~(s < d /\ d <= p)
    <3>1. Q = Append(buf, Stretch(c, Taken)) /\ c # Taken
      BY <1>2, <1>9, <1>11, <2>1
    <3>2. TakenOK(out, Q, base)
      BY <1>1, <3>1, LineTaken
    <3>3. QED
      BY <1>2, <3>2 DEF TakenOK
  <2>3. S!Joins(l)
    BY <1>8, <1>9, <1>11 DEF S!NextLine
  <2>s. S!Size(Q) \in Int
    <3>1. Len(S!FlattenSeq(Q)) \in Nat /\ Len(Q) \in Nat
      BY <2>2, RecordIs DEF RecordOK
    <3>2. QED
      BY <3>1 DEF S!Size
  <2>4. CASE S!Size(Q) <= MaxSize
    <3>1. buf' = Q /\ out' = out /\ ended' = "no"
      <4>1. ~(S!Size(Append(buf, l)) > MaxSize)
        BY <2>1, <2>4, <2>s
      <4>2. buf' = Append(buf, l) /\ UNCHANGED <<out, ended>>
        BY <2>3, <4>1 DEF S!Joins
      <4>3. QED
        BY <2>1, <4>2
    <3>2. e \notin S!Blanks
      <4>1. SUFFICES ASSUME e \in S!Blanks PROVE FALSE
        OBVIOUS
      <4>2. \A t \in S!Text : t < e => \E d \in S!LineEnds : t < d /\ d < e
        BY <4>1 DEF S!Blanks
      <4>3. PICK d \in S!LineEnds : p < d /\ d < e
        BY <1>3, <2>2, <4>2
      <4>4. QED
        BY <1>3, <1>6, <4>3
    <3>3. ASSUME NEW s \in In(Q), NEW d \in S!Blanks, s < d, d <= nb PROVE FALSE
      <4>1. ~(d <= p)
        BY <2>2, <3>3
      <4>2. d # e /\ d \in S!LineEnds /\ d \in Nat
        BY <1>6, <3>2
      <4>3. e < d
        BY <1>3, <4>1, <4>2
      <4>4. QED
        BY <1>4, <3>3, <4>2, <4>3
    <3>4. ASSUME NEW s \in ToldBy(out) PROVE \E d \in S!Blanks : s < d /\ d <= nb /\ \A t \in In(Q) : d < t
      <4>1. PICK d \in S!Blanks : s < d /\ d <= base /\ \A t \in In(Q) : d < t
        BY <2>2
      <4>2. d <= nb
        BY <1>3, <1>6, <4>1
      <4>3. QED
        BY <4>1, <4>2
    <3>5. HeldOK(out, Q, nb)
      BY <1>10, <2>2, <2>4, <3>3, <3>4 DEF HeldOK
    <3>6. QED
      BY <1>7, <3>1, <3>5
  <2>5. CASE ~(S!Size(Q) <= MaxSize)
    <3>1. buf' = buf /\ out' = out /\ ended' = "too_large"
      <4>1. S!Size(Q) > MaxSize
        BY <2>5, <2>s
      <4>2. S!Fails("too_large")
        BY <2>1, <2>3, <4>1 DEF S!Joins
      <4>3. QED
        BY <4>2 DEF S!Fails
    <3>2. S!TooLarge(p)
      BY <2>2, <2>5, TooLargeIs
    <3>3. Refused(out)
      BY <1>2, <1>3, <2>2, <3>2, HeldClosed DEF Refused
    <3>4. QED
      BY <1>7, <3>1, <3>3
  <2>6. QED
    BY <2>4, <2>5
<1>12. CASE c = p
  <2>1. \A t \in S!Text : t <= nb => t <= base
    BY <1>3, <1>4, <1>6, <1>12
  <2>2. S!Text \cap 1 .. base = S!Text \cap 1 .. nb
    <3>1. \A t \in S!Text : t \in 1 .. base <=> t \in 1 .. nb
      BY <1>3, <1>6, <2>1
    <3>2. QED
      BY <3>1
  <2>3. l = <<>>
    BY <1>9, <1>12
  <2>4. In(<<>>) = {}
    <3>1. S!FlattenSeq(<<>>) = <<>>
      BY DEF S!FlattenSeq
    <3>2. QED
      BY <3>1 DEF In, S!ToSet
  <2>5. CASE buf = <<>>
    <3>1. out' = out /\ buf' = <<>> /\ ended' = "no"
      BY <1>8, <2>3, <2>5 DEF S!NextLine
    <3>2. ASSUME NEW s \in ToldBy(out) PROVE \E d \in S!Blanks : s < d /\ d <= nb
      <4>1. PICK d \in S!Blanks : s < d /\ d <= base
        BY <1>5
      <4>2. d <= nb
        BY <1>3, <1>6, <4>1
      <4>3. QED
        BY <4>1, <4>2
    <3>3. HeldOK(out, <<>>, nb)
      BY <1>5, <2>2, <2>4, <2>5, <3>2 DEF HeldOK
    <3>4. QED
      BY <1>7, <3>1, <3>3
  <2>6. CASE buf # <<>>
    <3>1. PICK o : o = Append(out, buf)
      OBVIOUS
    <3>2. out' = o /\ buf' = <<>> /\ ended' = "no"
      <4>1. S!Returns(buf)
        BY <1>8, <2>3, <2>6 DEF S!NextLine
      <4>2. QED
        BY <3>1, <4>1 DEF S!Returns
    <3>3. \A s \in ToldBy(out), t \in In(buf) : Parted(s, t)
      BY <1>5 DEF Parted
    <3>4. OutOK(o) /\ ToldBy(o) = ToldBy(out) \cup In(buf)
      BY <1>5, <2>6, <3>1, <3>3, OutWith
    <3>5. ASSUME NEW t \in S!Text, t < e PROVE \E d \in S!LineEnds : t < d /\ d < e
      <4>1. t <= base /\ base >= 1
        BY <1>3, <1>6, <2>1, <3>5
      <4>2. base \in 1 .. Len(feed) /\ feed[base] \in {"lf", "cr"}
        BY <1>3, <1>4, <4>1
      <4>3. PICK d \in S!LineEnds : d <= base /\ \A u \in S!Text : u <= base => u < d
        BY <4>2, EndNear
      <4>4. d < e
        BY <1>3, <1>6, <4>3
      <4>5. QED
        BY <4>1, <4>3, <4>4
    <3>6. e \in S!Blanks
      BY <1>3, <3>5 DEF S!Blanks
    <3>7. ASSUME NEW s \in ToldBy(o) PROVE s < e /\ e <= nb
      <4>1. s \in S!Text \cap 1 .. base
        BY <1>5, <3>4
      <4>2. QED
        BY <1>3, <4>1
    <3>8. HeldOK(o, <<>>, nb)
      BY <1>5, <2>2, <2>4, <3>4, <3>6, <3>7 DEF HeldOK
    <3>9. QED
      BY <1>7, <3>2, <3>4, <3>8
  <2>7. QED
    BY <2>5, <2>6
<1>13. QED
  BY <1>11, <1>12

\* A step that leaves the feed alone leaves its lines and its records alone,
LEMMA FeedStill ==
  ASSUME feed' = feed
  PROVE  /\ FeedOK' = FeedOK /\ S!Text' = S!Text /\ S!LineEnds' = S!LineEnds /\ S!Blanks' = S!Blanks
         /\ Len(feed)' = Len(feed)
<1>1. S!Text' = S!Text /\ S!LineEnds' = S!LineEnds
  BY DEF S!Text, S!LineEnds
<1>2. S!Blanks' = S!Blanks
  BY <1>1 DEF S!Blanks
<1>3. QED
  BY <1>1, <1>2 DEF FeedOK, Bytes

\* a record stays a record,
LEMMA RecordStill ==
  ASSUME feed' = feed, NEW R
  PROVE  RecordOK(R)' = RecordOK(R)
BY FeedStill DEF RecordOK, LineOK, Stretch, Cut, Parted, S!ToSet

\* what is told stays in order,
LEMMA OutStill ==
  ASSUME feed' = feed, NEW o
  PROVE  OutOK(o)' = OutOK(o)
<1>1. \A r \in 1 .. Len(o) : RecordOK(o[r])' = RecordOK(o[r])
  BY RecordStill
<1>2. (\A r, q \in 1 .. Len(o) : r < q => \A s \in In(o[r]), t \in In(o[q]) : Parted(s, t))'
      = (\A r, q \in 1 .. Len(o) : r < q => \A s \in In(o[r]), t \in In(o[q]) : Parted(s, t))
  BY FeedStill DEF Parted
<1>3. (\A r \in 1 .. Len(o) : RecordOK(o[r]) /\ S!Size(o[r]) <= MaxSize)'
      = (\A r \in 1 .. Len(o) : RecordOK(o[r]) /\ S!Size(o[r]) <= MaxSize)
  BY <1>1
<1>4. QED
  BY <1>2, <1>3 DEF OutOK

\* what is held is still what was to be told,
LEMMA HeldStill ==
  ASSUME feed' = feed, NEW o, NEW R, NEW base
  PROVE  HeldOK(o, R, base)' = HeldOK(o, R, base)
<1>1. RecordOK(R)' = RecordOK(R)
  BY RecordStill
<1>2. QED
  BY <1>1, FeedStill DEF HeldOK

\* and what is too large remains so.
LEMMA LargeStill ==
  ASSUME feed' = feed, NEW t
  PROVE  S!TooLarge(t)' = S!TooLarge(t)
BY FeedStill DEF S!TooLarge, S!SameRecord, S!SameLine, S!LongLine

\* What was misread stays misread.
LEMMA MisreadStill ==
  ASSUME feed' = feed, pos' \in Nat, pos \in Nat, pos <= pos', FeedOK, S!Misread
  PROVE  S!Misread'
<1>1. PICK s, t \in S!Text : s < t /\ t <= pos /\ S!SameRecord(s, t) /\ ~S!SameLine(s, t) /\ S!LongLine(t)
  BY DEF S!Misread
<1>2. t <= pos'
  BY <1>1, FeedIs
<1>3. S!SameRecord(s, t)' /\ ~S!SameLine(s, t)' /\ S!LongLine(t)'
  BY <1>1, FeedStill DEF S!SameRecord, S!SameLine, S!LongLine
<1>4. QED
  BY <1>1, <1>2, <1>3, FeedStill DEF S!Misread

\* Nothing is between a place and itself.
LEMMA NoneBetween == ASSUME NEW n \in Nat PROVE n + 1 .. n = {}
OBVIOUS

\* What is said of the records and the lines in hand holds of the variables after a step.
LEMMA OutThen ==
  ASSUME feed' = feed, NEW o, o = out', OutOK(o)
  PROVE  OutOK(out)'
<1>1. OutOK(o)'
  BY OutStill
<1>2. QED
  BY <1>1 DEF OutOK, RecordOK

\* The same of what is held.
LEMMA HeldThen ==
  ASSUME feed' = feed, NEW o, NEW R, o = out', R = buf', NEW base, HeldOK(o, R, base)
  PROVE  HeldOK(out, buf, base)'
<1>1. HeldOK(o, R, base)'
  BY HeldStill
<1>2. QED
  BY <1>1 DEF HeldOK, In, ToldBy

\* What a step leaves behind.
LEMMA FramesThen ==
  ASSUME feed' = feed, NEW o, NEW R, o = out', R = buf', OutOK(o),
         \/ ended' = "no" /\ \E base : base \in 0 .. pos' /\ LineAt(base)' /\ HeldOK(o, R, base)
         \/ ended' = "no" /\ Drained'
         \/ ended' \in {"eof", "broken", "idle"} /\ ToldBy(o) = S!Text \cap 1 .. fetched'
         \/ /\ ended' = "too_large"
            /\ \A t \in ToldBy(o), s \in S!Text : s < t => s \in ToldBy(o)
            /\ \E t \in S!Text \ ToldBy(o) : t <= pos' /\ S!TooLarge(t)
  PROVE  FramesInv'
<1>1. OutOK(out)'
  BY OutThen
<1>2. ToldBy(out)' = ToldBy(o)
  BY DEF ToldBy
<1>3. CASE ended' = "no" /\ \E base : base \in 0 .. pos' /\ LineAt(base)' /\ HeldOK(o, R, base)
  <2>1. PICK base \in 0 .. pos' : LineAt(base)' /\ HeldOK(o, R, base)
    BY <1>3
  <2>2. HeldOK(out, buf, base)'
    BY <2>1, HeldThen
  <2>3. Reading'
    BY <2>1, <2>2 DEF Reading
  <2>4. QED
    BY <1>1, <1>3, <2>3 DEF FramesInv
<1>4. CASE ended' = "no" /\ Drained'
  BY <1>1, <1>4 DEF FramesInv
<1>5. CASE ended' \in {"eof", "broken", "idle"} /\ ToldBy(o) = S!Text \cap 1 .. fetched'
  <2>1. ended' # "no" /\ ended' # "too_large"
    BY <1>5
  <2>2. Stopped(ended, out)'
    BY <1>2, <1>5, <2>1, FeedStill DEF Stopped
  <2>3. QED
    BY <1>1, <2>1, <2>2 DEF FramesInv
<1>6. CASE /\ ended' = "too_large"
           /\ \A t \in ToldBy(o), s \in S!Text : s < t => s \in ToldBy(o)
           /\ \E t \in S!Text \ ToldBy(o) : t <= pos' /\ S!TooLarge(t)
  <2>1. ended' \notin {"no", "eof", "broken", "idle"}
    BY <1>6
  <2>2. PICK t \in S!Text \ ToldBy(o) : t <= pos' /\ S!TooLarge(t)
    BY <1>6
  <2>3. S!TooLarge(t)'
    BY <2>2, LargeStill
  <2>4. Stopped(ended, out)'
    BY <1>2, <1>6, <2>1, <2>2, <2>3, FeedStill DEF Stopped
  <2>5. QED
    BY <1>1, <2>1, <2>4 DEF FramesInv
<1>7. QED
  BY <1>3, <1>4, <1>5, <1>6

\* A line is over at place nb.
LEMMA LineThen ==
  ASSUME FeedOK, feed' = feed, NEW o, NEW R, o = out', R = buf', OutOK(o), Taken \in Nat,
         NEW nb \in Nat, nb = pos', nb > 0, Taken <= nb, feed[nb] \in {"lf", "cr"}, peeking' = FALSE,
         feed[nb] = "cr" => IF nb < fetched' THEN feed[nb + 1] # "lf" ELSE failed' # "no",
         line' = <<>>, first' = FALSE,
         \/ ended' = "no" /\ HeldOK(o, R, nb)
         \/ ended' = "too_large" /\ Refused(o)
  PROVE  FramesInv'
<1>1. ASSUME ended' = "no", HeldOK(o, R, nb) PROVE FramesInv'
  <2>1. Stretch(nb, nb) = <<>>
    BY StretchIs
  <2>2. Taken' = nb /\ nb \in 0 .. pos'
    BY DEF Taken
  <2>3. LineAt(nb)'
    <3>1. \A i \in nb + 1 .. nb : feed[i] \notin {"lf", "cr"}
      <4>1. nb + 1 .. nb = {}
        BY NoneBetween
      <4>2. QED
        BY <4>1
    <3>2. first' = (nb = 0)
      <4>1. nb # 0
        OBVIOUS
      <4>2. QED
        BY <4>1, Zenon
    <3>3. nb \in 0 .. nb
      OBVIOUS
    <3>4. QED
      BY <2>1, <2>2, <3>1, <3>2, <3>3 DEF LineAt, Stretch
  <2>4. QED
    BY <1>1, <2>2, <2>3, FramesThen
<1>2. ASSUME ended' = "too_large", Refused(o) PROVE FramesInv'
  <2>1. PICK t \in S!Text \ ToldBy(o) : t <= Taken /\ S!TooLarge(t)
    BY <1>2 DEF Refused
  <2>2. t <= pos'
    BY <2>1, FeedIs
  <2>3. QED
    BY <1>2, <2>1, <2>2, FramesThen DEF Refused
<1>3. QED
  BY <1>1, <1>2

\* The next byte makes a stretch longer.
LEMMA StretchMore ==
  ASSUME NEW a \in Nat, NEW b \in Nat, a <= b
  PROVE  Append(Stretch(a, b), b + 1) = Stretch(a, b + 1)
<1>1. /\ Stretch(a, b) \in Seq(Nat) /\ Len(Stretch(a, b)) = b - a
      /\ \A i \in 1 .. b - a : Stretch(a, b)[i] = a + i
  BY StretchIs
<1>2. /\ Stretch(a, b + 1) \in Seq(Nat) /\ Len(Stretch(a, b + 1)) = b + 1 - a
      /\ \A i \in 1 .. b + 1 - a : Stretch(a, b + 1)[i] = a + i
  BY StretchIs
<1>3. PICK s : s = Stretch(a, b)
  OBVIOUS
<1>4. PICK p : p = Append(s, b + 1)
  OBVIOUS
<1>5. p \in Seq(Nat) /\ Len(p) = b - a + 1 /\ p[b - a + 1] = b + 1 /\ \A i \in 1 .. b - a : p[i] = s[i]
  <2>1. s \in Seq(Nat) /\ b + 1 \in Nat /\ Len(s) = b - a
    BY <1>1, <1>3
  <2>2. p \in Seq(Nat) /\ Len(p) = Len(s) + 1 /\ p[Len(s) + 1] = b + 1 /\ \A i \in 1 .. Len(s) : p[i] = s[i]
    BY <1>4, <2>1, AppendProperties
  <2>3. QED
    BY <2>1, <2>2
<1>6. ASSUME NEW i \in 1 .. b + 1 - a PROVE p[i] = Stretch(a, b + 1)[i]
  <2>1. CASE i = b - a + 1
    BY <1>2, <1>5, <2>1
  <2>2. CASE i # b - a + 1
    <3>1. i \in 1 .. b - a
      BY <2>2
    <3>2. QED
      BY <1>1, <1>2, <1>3, <1>5, <3>1
  <2>3. QED
    BY <2>1, <2>2
<1>7. Len(p) = b + 1 - a
  BY <1>5
<1>8. p = Stretch(a, b + 1)
  BY <1>2, <1>5, <1>6, <1>7, SeqEqual
<1>9. QED
  BY <1>3, <1>4, <1>8

\* A long line on its own: it is refused, or it is misread.
LEMMA LongFrames ==
  ASSUME FeedOK, ReaderInv, MaxSize \in Nat \ {0}, OutOK(out), ended = "no", feed' = feed, pos' = pos + 1,
         pos < fetched, ~peeking, NEW base, LineAt(base), HeldOK(out, buf, base),
         feed[pos + 1] \in {"text", "mark"}, Len(line) >= MaxSize, S!NextError(<<>>, "too_large"), ~(S!Misread')
  PROVE  FramesInv'
<1>1. pos \in Nat /\ fetched \in Nat /\ Len(feed) \in Nat /\ pos + 1 \in 1 .. Len(feed) /\ MaxSize \in Nat
  BY DEF ReaderInv, S!TypeOK
<1>2. base \in Nat /\ base <= pos /\ line = Stretch(base, pos) /\ (base > 0 => feed[base] \in {"lf", "cr"})
  BY <1>1 DEF LineAt, Taken
<1>3. Len(line) = pos - base
  BY <1>1, <1>2, StretchIs
<1>4. PICK t : t = pos + 1
  OBVIOUS
<1>5. t \in Nat /\ t \in 1 .. Len(feed) /\ base < t /\ feed[t] = "text"
  <2>1. t # 1
    BY <1>1, <1>2, <1>3, <1>4
  <2>2. feed[t] # "mark"
    BY <1>1, <1>4, <2>1, FeedIs
  <2>3. QED
    BY <1>1, <1>2, <1>4, <2>2
<1>6. t \in S!Text /\ S!LongLine(t) /\ S!TooLarge(t) /\ \A e \in S!LineEnds : ~(base < e /\ e < t)
  BY <1>1, <1>4, <1>5, LongLineIs
<1>7. S!Trimmed(<<>>) = <<>>
  BY DEF S!Trimmed
<1>8. buf = <<>> \/ (RecordOK(buf) /\ S!Size(buf) <= MaxSize)
  BY DEF HeldOK
<1>9. ToldBy(out) \cup In(buf) = S!Text \cap 1 .. base
  BY DEF HeldOK
<1>10. CASE buf = <<>>
  <2>1. ended' = "too_large" /\ out' = out /\ buf' = buf
    BY <1>7, <1>10 DEF S!NextError, S!Fails
  <2>2. t \notin ToldBy(out)
    BY <1>2, <1>5, <1>9
  <2>3. \A u \in ToldBy(out), s \in S!Text : s < u => s \in ToldBy(out)
    BY <1>2, HeldClosed
  <2>4. PICK o, R : o = out' /\ R = buf' /\ o = out
    BY <2>1
  <2>5. t <= pos' /\ t \in S!Text \ ToldBy(o) /\ OutOK(o)
    BY <1>1, <1>4, <1>6, <2>2, <2>4
  <2>6. \A u \in ToldBy(o), s \in S!Text : s < u => s \in ToldBy(o)
    BY <2>3, <2>4
  <2>7. QED
    BY <1>6, <2>1, <2>4, <2>5, <2>6, FramesThen
<1>11. CASE buf # <<>>
  <2>1. PICK s : s \in In(buf)
    BY <1>8, <1>11, RecordIs
  <2>2. s \in S!Text /\ s \in Nat /\ s <= base /\ base \in 1 .. Len(feed)
    BY <1>1, <1>2, <1>9, <2>1
  <2>3. PICK d \in S!LineEnds : d <= base /\ \A u \in S!Text : u <= base => u < d
    BY <1>2, <2>2, EndNear
  <2>4. d \in Nat /\ s < d /\ d < t
    BY <1>2, <1>5, <2>2, <2>3, FeedIs
  <2>5. ~S!SameLine(s, t)
    BY <2>4 DEF S!SameLine
  <2>6. \A e \in S!Blanks : ~(s < e /\ e <= base)
    BY <2>1 DEF HeldOK
  <2>7. ASSUME NEW e \in S!Blanks, (s < e /\ e < t) \/ (t < e /\ e < s) PROVE FALSE
    <3>1. e \in S!LineEnds /\ e \in Nat
      BY FeedIs
    <3>2. s < e /\ e < t
      BY <1>2, <1>5, <2>2, <2>7, <3>1
    <3>3. CASE e <= base
      BY <2>6, <3>2, <3>3
    <3>4. CASE ~(e <= base)
      BY <1>2, <1>6, <3>1, <3>2, <3>4
    <3>5. QED
      BY <3>3, <3>4
  <2>8. S!SameRecord(s, t)
    BY <2>7 DEF S!SameRecord
  <2>9. s < t /\ t <= pos'
    BY <1>1, <1>4, <1>5, <2>2, <2>4
  <2>10. (S!SameRecord(s, t) /\ ~S!SameLine(s, t) /\ S!LongLine(t))'
    BY <1>6, <2>5, <2>8, FeedStill DEF S!SameRecord, S!SameLine, S!LongLine
  <2>11. S!Misread'
    BY <1>6, <2>2, <2>9, <2>10, FeedStill DEF S!Misread
  <2>12. QED
    BY <2>11
<1>12. QED
  BY <1>10, <1>11

\* ReadByte: a byte joins the line, or ends it.
LEMMA ByteFrames ==
  ASSUME FeedOK, ReaderInv, MaxSize \in Nat \ {0}, OutOK(out), Reading, S!ReadByte, ~(S!Misread')
  PROVE  FramesInv'
<1>1. /\ pos \in Nat /\ fetched \in Nat /\ Len(feed) \in Nat /\ pos + 1 \in 1 .. Len(feed) /\ MaxSize \in Nat
      /\ pos < fetched /\ pos' = pos + 1 /\ ended = "no" /\ ~peeking
      /\ feed' = feed /\ fetched' = fetched /\ failed' = failed
  BY DEF ReaderInv, S!TypeOK, S!ReadByte, S!source
<1>2. PICK base \in 0 .. pos : LineAt(base) /\ HeldOK(out, buf, base)
  BY DEF Reading
<1>3. /\ base \in Nat /\ base <= pos /\ line = Stretch(base, pos) /\ first = (base = 0)
      /\ base > 0 => feed[base] \in {"lf", "cr"}
      /\ \A i \in base + 1 .. pos : feed[i] \notin {"lf", "cr"}
      /\ pos > 0 /\ feed[pos] = "cr" => feed[pos + 1] # "lf"
  <2>1. base \in Nat /\ base <= pos
    BY <1>1
  <2>2. Taken = pos
    BY <1>1 DEF Taken
  <2>3. QED
    BY <1>1, <1>2, <2>1, <2>2 DEF LineAt
<1>4. Taken = pos /\ Taken \in 0 .. Len(feed) /\ Taken \in Nat
  BY <1>1 DEF Taken
<1>5. PICK b \in Bytes : b = feed[pos + 1]
  BY <1>1, FeedIs
<1>6. PICK o, R : o = out /\ R = buf /\ OutOK(o) /\ HeldOK(o, R, base)
  BY <1>2
<1>7. CASE b = "lf"
  <2>1. S!NextLine(line) /\ peeking' = FALSE
    BY <1>1, <1>5, <1>7 DEF S!ReadByte
  <2>2. pos + 1 \in S!LineEnds
    <3>1. pos + 1 > 1 => feed[pos] # "cr"
      BY <1>1, <1>3, <1>5, <1>7
    <3>2. (pos + 1) - 1 = pos
      BY <1>1
    <3>3. QED
      BY <1>1, <1>5, <1>7, <3>1, <3>2, FeedIs
  <2>3. LineEnd(base, pos + 1, pos + 1)
    <3>1. \A d \in S!LineEnds : ~(pos + 1 < d /\ d <= pos + 1)
      BY <1>1, FeedIs
    <3>2. \A t \in S!Text : ~(pos + 1 <= t /\ t <= pos + 1)
      <4>1. ASSUME NEW t \in S!Text PROVE t \in Nat /\ t # pos + 1
        <5>1. t \in 1 .. Len(feed) /\ feed[t] = "text"
          BY FeedIs
        <5>2. feed[pos + 1] # "text"
          BY <1>5, <1>7
        <5>3. QED
          BY <1>1, <5>1, <5>2
      <4>2. QED
        BY <1>1, <4>1
    <3>3. pos + 1 \in pos + 1 .. Len(feed)
      BY <1>1
    <3>4. QED
      BY <1>4, <2>2, <3>1, <3>2, <3>3 DEF LineEnd
  <2>4. line' = <<>> /\ first' = FALSE
    BY <1>1, <1>2, <1>4, <2>1, <2>3, LineEnded
  <2>5. PICK p, Q : /\ p = out' /\ Q = buf' /\ OutOK(p)
                    /\ \/ ended' = "no" /\ HeldOK(p, Q, pos + 1)
                       \/ ended' = "too_large" /\ Refused(p)
    BY <1>1, <1>2, <1>4, <2>1, <2>3, LineEnded
  <2>6. PICK n \in Nat : n = pos + 1
    BY <1>1
  <2>7. n = pos' /\ n > 0 /\ Taken <= n /\ feed[n] = "lf"
    <3>1. n = pos' /\ n > 0 /\ Taken <= n
      BY <1>1, <1>4, <2>6
    <3>2. feed[n] = "lf"
      BY <1>5, <1>7, <2>6
    <3>3. QED
      BY <3>1, <3>2
  <2>8. \/ ended' = "no" /\ HeldOK(p, Q, n)
        \/ ended' = "too_large" /\ Refused(p)
    BY <2>5, <2>6
  <2>9. feed[n] \in {"lf", "cr"} /\ feed[n] # "cr"
    BY <2>7
  <2>10. QED
    BY <1>1, <1>4, <2>1, <2>4, <2>5, <2>7, <2>8, <2>9, LineThen
<1>8. CASE b = "cr"
  <2>1. peeking' = TRUE /\ line' = line /\ buf' = buf /\ first' = first /\ out' = out /\ ended' = "no"
    BY <1>1, <1>5, <1>8 DEF S!ReadByte
  <2>2. Taken' = pos /\ pos' > 0 /\ feed[pos'] = "cr" /\ base \in 0 .. pos' /\ base \in 0 .. pos
    BY <1>1, <1>2, <1>5, <1>8, <2>1 DEF Taken
  <2>3. LineAt(base)'
    BY <1>1, <1>3, <2>1, <2>2 DEF LineAt, Stretch
  <2>4. o = out' /\ R = buf'
    BY <1>6, <2>1
  <2>5. QED
    BY <1>1, <1>6, <2>1, <2>2, <2>3, <2>4, FramesThen
<1>9. CASE b \in {"text", "mark"}
  <2>1. peeking' = peeking
    BY <1>5, <1>9 DEF S!ReadByte
  <2>2. CASE Len(line) >= MaxSize
    <3>1. S!NextError(<<>>, "too_large")
      BY <1>5, <1>9, <2>2 DEF S!ReadByte
    <3>2. QED
      BY <1>1, <1>2, <1>5, <1>9, <2>2, <3>1, LongFrames
  <2>3. CASE ~(Len(line) >= MaxSize)
    <3>1. line' = Append(line, pos + 1) /\ buf' = buf /\ first' = first /\ out' = out /\ ended' = "no"
      BY <1>1, <1>5, <1>9, <2>3 DEF S!ReadByte
    <3>2. line' = Stretch(base, pos + 1)
      BY <1>1, <1>3, <3>1, StretchMore
    <3>3. Taken' = pos + 1 /\ base \in 0 .. pos' /\ base \in 0 .. pos + 1
      BY <1>1, <1>3, <2>1 DEF Taken
    <3>4. ASSUME NEW i \in base + 1 .. pos + 1 PROVE feed[i] \notin {"lf", "cr"}
      <4>1. CASE i = pos + 1
        BY <1>5, <1>9, <4>1
      <4>2. CASE i # pos + 1
        <5>1. i \in base + 1 .. pos
          BY <1>1, <1>3, <4>2
        <5>2. QED
          BY <1>3, <5>1
      <4>3. QED
        BY <4>1, <4>2
    <3>5. feed[pos'] # "cr"
      BY <1>1, <1>5, <1>9
    <3>6. LineAt(base)'
      <4>1. first' = (base = 0)
        BY <1>3, <3>1, Zenon
      <4>2. QED
        BY <1>1, <1>3, <2>1, <3>2, <3>3, <3>4, <3>5, <4>1 DEF LineAt, Stretch
    <3>7. o = out' /\ R = buf'
      BY <1>6, <3>1
    <3>8. QED
      BY <1>1, <1>6, <3>1, <3>3, <3>6, <3>7, FramesThen
  <2>4. QED
    BY <2>2, <2>3
<1>10. QED
  BY <1>5, <1>7, <1>8, <1>9 DEF Bytes

\* PeekLF: a line feed behind a carriage return belongs to it.
LEMMA PeekFrames ==
  ASSUME FeedOK, ReaderInv, MaxSize \in Nat \ {0}, OutOK(out), Reading, S!PeekLF
  PROVE  FramesInv'
<1>1. /\ pos \in Nat /\ fetched \in Nat /\ Len(feed) \in Nat /\ pos <= fetched /\ fetched <= Len(feed)
      /\ ended = "no" /\ peeking /\ (pos < fetched \/ failed # "no")
      /\ pos' = IF pos < fetched /\ feed[pos + 1] = "lf" THEN pos + 1 ELSE pos
      /\ peeking' = FALSE /\ S!NextLine(line)
      /\ feed' = feed /\ fetched' = fetched /\ failed' = failed
  BY DEF ReaderInv, S!TypeOK, S!PeekLF, S!source
<1>2. PICK base \in 0 .. pos : LineAt(base) /\ HeldOK(out, buf, base)
  BY DEF Reading
<1>3. pos > 0 /\ feed[pos] = "cr" /\ Taken = pos - 1
  BY <1>1, <1>2 DEF LineAt, Taken
<1>4. Taken \in 0 .. Len(feed) /\ Taken \in Nat /\ pos = Taken + 1 /\ pos \in 1 .. Len(feed)
  BY <1>1, <1>3
<1>5. PICK nb \in Nat : nb = pos'
  BY <1>1
<1>6. /\ pos <= nb /\ nb <= Len(feed) /\ nb > 0 /\ Taken <= nb
      /\ nb = pos \/ (nb = pos + 1 /\ pos < fetched /\ feed[nb] = "lf")
      /\ nb = pos => ~(pos < fetched /\ feed[pos + 1] = "lf")
  <2>1. CASE pos < fetched /\ feed[pos + 1] = "lf"
    BY <1>1, <1>3, <1>4, <1>5, <2>1
  <2>2. CASE ~(pos < fetched /\ feed[pos + 1] = "lf")
    BY <1>1, <1>3, <1>4, <1>5, <2>2
  <2>3. QED
    BY <2>1, <2>2
<1>7. LineEnd(base, pos, nb)
  <2>1. pos \in S!LineEnds
    BY <1>3, <1>4, FeedIs
  <2>2. ASSUME NEW d \in S!LineEnds, pos < d, d <= nb PROVE FALSE
    <3>1. d \in 1 .. Len(feed)
      BY FeedIs
    <3>2. d = nb /\ d = pos + 1 /\ feed[d] = "lf" /\ d > 1 /\ d - 1 = pos
      BY <1>1, <1>3, <1>6, <2>2, <3>1
    <3>3. feed[d - 1] # "cr"
      BY <3>1, <3>2, FeedIs
    <3>4. QED
      BY <1>3, <3>2, <3>3
  <2>3. ASSUME NEW t \in S!Text, pos <= t, t <= nb PROVE FALSE
    <3>1. t \in 1 .. Len(feed) /\ feed[t] = "text"
      BY FeedIs
    <3>2. t # pos
      BY <1>3, <3>1
    <3>3. t = nb /\ feed[nb] = "lf"
      BY <1>1, <1>6, <2>3, <3>1, <3>2
    <3>4. QED
      BY <3>1, <3>3
  <2>4. nb \in pos .. Len(feed)
    BY <1>1, <1>5, <1>6
  <2>5. QED
    BY <1>4, <2>1, <2>2, <2>3, <2>4 DEF LineEnd
<1>8. line' = <<>> /\ first' = FALSE
  BY <1>1, <1>2, <1>4, <1>7, LineEnded
<1>9. PICK p, Q : /\ p = out' /\ Q = buf' /\ OutOK(p)
                  /\ \/ ended' = "no" /\ HeldOK(p, Q, nb)
                     \/ ended' = "too_large" /\ Refused(p)
  BY <1>1, <1>2, <1>4, <1>7, LineEnded
<1>10. feed[nb] \in {"lf", "cr"}
  BY <1>3, <1>6
<1>11. feed[nb] = "cr" => IF nb < fetched' THEN feed[nb + 1] # "lf" ELSE failed' # "no"
  <2>1. SUFFICES ASSUME feed[nb] = "cr" PROVE IF nb < fetched' THEN feed[nb + 1] # "lf" ELSE failed' # "no"
    OBVIOUS
  <2>2. nb = pos
    BY <1>6, <2>1
  <2>3. CASE pos < fetched
    BY <1>1, <1>6, <2>2, <2>3
  <2>4. CASE ~(pos < fetched)
    BY <1>1, <2>2, <2>4
  <2>5. QED
    BY <2>3, <2>4
<1>12. QED
  BY <1>1, <1>4, <1>5, <1>6, <1>8, <1>9, <1>10, <1>11, LineThen

\* ReadError: what there is of a record is told before the error,
LEMMA ErrorFrames ==
  ASSUME FeedOK, ReaderInv, MaxSize \in Nat \ {0}, OutOK(out), Reading, S!ReadError
  PROVE  FramesInv'
<1>1. /\ pos \in Nat /\ fetched \in Nat /\ Len(feed) \in Nat /\ pos = fetched /\ fetched <= Len(feed)
      /\ ended = "no" /\ ~peeking /\ failed # "no" /\ failed \in {"eof", "broken", "idle"}
      /\ pos' = pos /\ peeking' = FALSE /\ S!NextError(line, failed)
      /\ feed' = feed /\ fetched' = fetched /\ failed' = failed
  BY DEF ReaderInv, S!TypeOK, S!ReadError, S!source
<1>2. PICK base \in 0 .. pos : LineAt(base) /\ HeldOK(out, buf, base)
  BY DEF Reading
<1>3. Taken = pos /\ Taken \in 0 .. Len(feed) /\ base \in Nat /\ base <= pos
  BY <1>1 DEF Taken
<1>4. PICK c : TrimmedTo(base, c)
  BY <1>2, <1>3, TrimmedIs
<1>5. /\ c \in Nat /\ base <= c /\ c <= pos
      /\ \A t \in S!Text : base < t /\ t <= pos => c < t
  BY <1>1, <1>3, <1>4 DEF TrimmedTo
<1>6. PICK l : l = S!Trimmed(line)
  OBVIOUS
<1>7. l = Stretch(c, pos) /\ (c = pos <=> l = <<>>)
  BY <1>1, <1>3, <1>4, <1>5, <1>6, StretchIs DEF TrimmedTo
<1>8. PICK L : L = IF l = <<>> THEN buf ELSE Append(buf, l)
  OBVIOUS
<1>9. /\ CASE L = <<>> -> S!Fails(failed)
           [] L # <<>> /\ S!Size(L) > MaxSize -> S!Fails("too_large")
           [] OTHER -> S!Returns(L)
      /\ line' = <<>> /\ first' = FALSE
  BY <1>1, <1>6, <1>8 DEF S!NextError
<1>10. /\ buf = <<>> \/ (RecordOK(buf) /\ S!Size(buf) <= MaxSize)
       /\ ToldBy(out) \cup In(buf) = S!Text \cap 1 .. base
       /\ \A s \in ToldBy(out) : \E d \in S!Blanks : s < d /\ d <= base /\ \A t \in In(buf) : d < t
  BY <1>2 DEF HeldOK
<1>11. /\ L = <<>> \/ RecordOK(L)
       /\ ToldBy(out) \cup In(L) = S!Text \cap 1 .. pos
       /\ \A s \in ToldBy(out), t \in In(L) : Parted(s, t)
       /\ S!Size(L) \in Int
       /\ L # <<>> => \E t \in In(L) : t <= pos /\ t \in S!Text \ ToldBy(out) /\ (l = <<>> => S!Size(L) <= MaxSize)
  <2>0. \A R : RecordOK(R) => S!Size(R) \in Int
    <3>1. SUFFICES ASSUME NEW R, RecordOK(R) PROVE S!Size(R) \in Int
      OBVIOUS
    <3>2. Len(S!FlattenSeq(R)) \in Nat /\ Len(R) \in Nat
      BY <3>1, RecordIs DEF RecordOK
    <3>3. QED
      BY <3>2 DEF S!Size
  <2>1. CASE l = <<>>
    <3>1. L = buf /\ c = pos
      BY <1>7, <1>8, <2>1
    <3>2. S!Text \cap 1 .. base = S!Text \cap 1 .. pos
      <4>1. \A t \in S!Text : t \in 1 .. base <=> t \in 1 .. pos
        <5>1. \A t \in S!Text : t \in Nat
          BY FeedIs
        <5>2. QED
          BY <1>1, <1>3, <1>5, <3>1, <5>1
      <4>2. QED
        BY <4>1
    <3>3. \A s \in ToldBy(out), t \in In(buf) : Parted(s, t)
      BY <1>10 DEF Parted
    <3>4. ASSUME buf # <<>> PROVE \E t \in In(buf) : t <= pos /\ t \in S!Text \ ToldBy(out)
      <4>1. RecordOK(buf)
        BY <1>10, <3>4
      <4>2. PICK t : t \in In(buf)
        BY <4>1, RecordIs
      <4>3. t \in S!Text /\ t \in 1 .. base
        BY <1>10, <4>2
      <4>4. t \notin ToldBy(out)
        <5>1. SUFFICES ASSUME t \in ToldBy(out) PROVE FALSE
          OBVIOUS
        <5>2. PICK d \in S!Blanks : t < d /\ d < t
          BY <1>10, <4>2, <5>1
        <5>3. d \in Nat /\ t \in Nat
          BY <4>3, FeedIs
        <5>4. QED
          BY <5>2, <5>3
      <4>5. t <= pos
        BY <1>1, <1>3, <4>3
      <4>6. QED
        BY <4>2, <4>3, <4>4, <4>5
    <3>5. S!Size(buf) \in Int
      <4>1. CASE buf = <<>>
        <5>1. S!FlattenSeq(<<>>) = <<>>
          BY DEF S!FlattenSeq
        <5>2. QED
          BY <4>1, <5>1 DEF S!Size
      <4>2. CASE RecordOK(buf)
        BY <2>0, <4>2
      <4>3. QED
        BY <1>10, <4>1, <4>2
    <3>6. QED
      BY <1>10, <3>1, <3>2, <3>3, <3>4, <3>5
  <2>2. CASE l # <<>>
    <3>1. L = Append(buf, Stretch(c, Taken)) /\ c # Taken
      BY <1>3, <1>7, <1>8, <2>2
    <3>2. TakenOK(out, L, base)
      BY <1>2, <1>3, <1>4, <3>1, LineTaken
    <3>3. /\ RecordOK(L) /\ pos \in In(L) \ ToldBy(out) /\ pos \in S!Text
          /\ ToldBy(out) \cup In(L) = S!Text \cap 1 .. pos
          /\ \A s \in ToldBy(out) : \E e \in S!Blanks : s < e /\ e <= base /\ \A t \in In(L) : e < t
      BY <1>3, <3>2 DEF TakenOK
    <3>4. \A s \in ToldBy(out), t \in In(L) : Parted(s, t)
      BY <3>3 DEF Parted
    <3>5. pos <= pos /\ S!Size(L) \in Int
      BY <1>1, <2>0, <3>3
    <3>6. QED
      BY <2>2, <3>3, <3>4, <3>5
  <2>3. QED
    BY <2>1, <2>2
<1>12. CASE L = <<>>
  <2>1. ended' = failed /\ out' = out
    BY <1>9, <1>12 DEF S!Fails
  <2>2. In(<<>>) = {}
    <3>1. S!FlattenSeq(<<>>) = <<>>
      BY DEF S!FlattenSeq
    <3>2. QED
      BY <3>1 DEF In, S!ToSet
  <2>3. PICK o, R : o = out' /\ R = buf' /\ o = out
    BY <2>1
  <2>4. ToldBy(o) = S!Text \cap 1 .. fetched' /\ OutOK(o) /\ ended' \in {"eof", "broken", "idle"}
    BY <1>1, <1>11, <1>12, <2>1, <2>2, <2>3
  <2>5. QED
    BY <1>1, <2>3, <2>4, FramesThen
<1>13. CASE L # <<>> /\ S!Size(L) > MaxSize
  <2>1. ended' = "too_large" /\ out' = out
    BY <1>9, <1>13 DEF S!Fails
  <2>2. PICK t \in In(L) : t <= pos /\ t \in S!Text \ ToldBy(out)
    BY <1>11, <1>13
  <2>3. S!TooLarge(t)
    <3>1. ~(S!Size(L) <= MaxSize) /\ RecordOK(L) /\ MaxSize \in Nat
      BY <1>11, <1>13
    <3>2. QED
      BY <2>2, <3>1, TooLargeIs
  <2>4. \A u \in ToldBy(out), s \in S!Text : s < u => s \in ToldBy(out)
    BY <1>2, <1>3, HeldClosed
  <2>5. PICK o, R : o = out' /\ R = buf' /\ o = out
    BY <2>1
  <2>6. t <= pos' /\ t \in S!Text \ ToldBy(o) /\ OutOK(o)
    BY <1>1, <2>2, <2>5
  <2>7. \A u \in ToldBy(o), s \in S!Text : s < u => s \in ToldBy(o)
    BY <2>4, <2>5
  <2>8. QED
    BY <1>1, <2>1, <2>3, <2>5, <2>6, <2>7, FramesThen
<1>14. CASE L # <<>> /\ ~(S!Size(L) > MaxSize)
  <2>1. out' = Append(out, L) /\ buf' = <<>> /\ ended' = "no"
    BY <1>1, <1>9, <1>14 DEF S!Returns
  <2>2. PICK o, R : o = out' /\ R = buf'
    OBVIOUS
  <2>3. RecordOK(L) /\ S!Size(L) <= MaxSize
    BY <1>11, <1>14
  <2>4. OutOK(Append(out, L)) /\ ToldBy(Append(out, L)) = ToldBy(out) \cup In(L)
    BY <1>11, <2>3, OutWith
  <2>5. OutOK(o) /\ ToldBy(o) = S!Text \cap 1 .. pos
    BY <1>11, <2>1, <2>2, <2>4
  <2>6. ToldBy(out)' = ToldBy(o)
    BY <2>2 DEF ToldBy
  <2>7. Drained'
    BY <1>1, <1>9, <2>1, <2>5, <2>6, FeedStill DEF Drained
  <2>8. QED
    BY <1>1, <2>1, <2>2, <2>5, <2>7, FramesThen
<1>15. QED
  BY <1>12, <1>13, <1>14

\* and then the error.
LEMMA DrainedFrames ==
  ASSUME FeedOK, ReaderInv, OutOK(out), Drained, S!ReadError
  PROVE  FramesInv'
<1>1. /\ failed \in {"eof", "broken", "idle"} /\ line = <<>> /\ buf = <<>> /\ S!NextError(line, failed)
      /\ feed' = feed /\ fetched' = fetched /\ ToldBy(out) = S!Text \cap 1 .. fetched
  BY DEF ReaderInv, S!TypeOK, S!ReadError, S!source, Drained
<1>2. S!Trimmed(line) = <<>>
  BY <1>1 DEF S!Trimmed
<1>3. ended' = failed /\ out' = out
  BY <1>1, <1>2 DEF S!NextError, S!Fails
<1>4. PICK o, R : o = out' /\ R = buf' /\ o = out
  BY <1>3
<1>5. ToldBy(o) = S!Text \cap 1 .. fetched' /\ OutOK(o) /\ ended' \in {"eof", "broken", "idle"}
  BY <1>1, <1>3, <1>4
<1>6. QED
  BY <1>1, <1>4, <1>5, FramesThen

\* Read: a carriage return at the end of the buffer was looked behind only at an error.
LEMMA ReadFrames ==
  ASSUME FeedOK, ReaderInv, OutOK(out), Reading, S!Read
  PROVE  FramesInv'
<1>1. /\ pos \in Nat /\ pos = fetched /\ failed = "no" /\ ended = "no"
      /\ feed' = feed /\ UNCHANGED <<pos, peeking, line, buf, first, out, ended>>
  BY DEF ReaderInv, S!TypeOK, S!Read, S!source, S!reader
<1>2. PICK base \in 0 .. pos : LineAt(base) /\ HeldOK(out, buf, base)
  BY DEF Reading
<1>3. ~(~peeking /\ pos > 0 /\ feed[pos] = "cr")
  BY <1>1, <1>2 DEF LineAt
<1>4. Taken' = Taken
  BY <1>1 DEF Taken
<1>5. LineAt(base)'
  BY <1>1, <1>2, <1>3, <1>4 DEF LineAt, Stretch
<1>6. PICK o, R : o = out' /\ R = buf' /\ o = out /\ R = buf
  BY <1>1
<1>7. HeldOK(o, R, base) /\ OutOK(o) /\ base \in 0 .. pos' /\ ended' = "no"
  BY <1>1, <1>2, <1>6
<1>8. QED
  BY <1>1, <1>5, <1>6, <1>7, FramesThen

\* A step that leaves the reader alone leaves this alone.
LEMMA FramesStill ==
  ASSUME FramesInv, UNCHANGED <<kind, feed, fetched, failed, pos, peeking, line, buf, first, out, ended>>
  PROVE  FramesInv'
<1>1. kind = "stream" /\ ~(S!Misread') => kind = "stream" /\ ~S!Misread
  BY FeedStill DEF S!Misread, S!SameRecord, S!SameLine, S!LongLine
<1>2. SUFFICES ASSUME kind = "stream", ~(S!Misread') PROVE FramesInv'
  BY DEF FramesInv
<1>3. /\ OutOK(out) /\ (ended = "no" => Reading \/ Drained) /\ (ended # "no" => Stopped(ended, out))
  BY <1>1, <1>2 DEF FramesInv
<1>4. OutOK(out)'
  <2>1. PICK o : o = out' /\ o = out
    OBVIOUS
  <2>2. QED
    BY <1>3, <2>1, OutThen
<1>5. ASSUME Reading PROVE Reading'
  <2>1. PICK base \in 0 .. pos : LineAt(base) /\ HeldOK(out, buf, base)
    BY <1>5 DEF Reading
  <2>2. LineAt(base)' /\ base \in 0 .. pos'
    BY <2>1 DEF LineAt, Stretch, Taken
  <2>3. PICK o, R : o = out' /\ R = buf' /\ o = out /\ R = buf
    OBVIOUS
  <2>4. HeldOK(out, buf, base)'
    BY <2>1, <2>3, HeldThen
  <2>5. QED
    BY <2>2, <2>4 DEF Reading
<1>6. ToldBy(out)' = ToldBy(out)
  BY DEF ToldBy
<1>7. Drained => Drained'
  BY <1>6, FeedStill DEF Drained
<1>8. ASSUME Stopped(ended, out) PROVE Stopped(ended, out)'
  <2>1. \A t : S!TooLarge(t) => S!TooLarge(t)'
    BY LargeStill
  <2>2. CASE ended = "too_large"
    <3>1. PICK t \in S!Text \ ToldBy(out) : t <= pos /\ S!TooLarge(t)
      BY <1>8, <2>2 DEF Stopped
    <3>2. S!TooLarge(t)'
      BY <3>1, LargeStill
    <3>3. QED
      BY <1>6, <1>8, <2>2, <3>1, <3>2, FeedStill DEF Stopped
  <2>3. CASE ended # "too_large"
    BY <1>6, <1>8, <2>3, FeedStill DEF Stopped
  <2>4. QED
    BY <2>2, <2>3
<1>9. QED
  BY <1>3, <1>4, <1>5, <1>7, <1>8 DEF FramesInv

FrameInv == FeedOK /\ FramesInv /\ WholeInv

\* Every step of the reader keeps what is true of it.
LEMMA NextFrames ==
  ASSUME MaxSize \in Nat \ {0}, ReaderInv, FrameInv, [S!Next]_(S!vars)
  PROVE  FeedOK' /\ FramesInv'
<1>1. feed' = feed /\ kind' = kind
  BY DEF S!Next, S!Arrive, S!End, S!Read, S!ReadByte, S!PeekLF, S!ReadError, S!ReadAtMost, S!source, S!vars
<1>2. FeedOK'
  BY <1>1, FeedStill DEF FrameInv
<1>3. FeedOK /\ FramesInv
  BY DEF FrameInv
<1>4. SUFFICES ASSUME kind = "stream", ~(S!Misread') PROVE FramesInv'
  BY <1>1, <1>2 DEF FramesInv
<1>5. ASSUME ended = "no", pos' \in Nat, pos <= pos'
      PROVE  OutOK(out) /\ (Reading \/ Drained)
  <2>1. pos \in Nat
    BY DEF ReaderInv, S!TypeOK
  <2>2. ~S!Misread
    BY <1>1, <1>3, <1>4, <1>5, <2>1, MisreadStill
  <2>3. QED
    BY <1>3, <1>4, <1>5, <2>2 DEF FramesInv
<1>6. pos \in Nat
  BY DEF ReaderInv, S!TypeOK
<1>7. CASE S!Arrive \/ S!End \/ UNCHANGED S!vars
  <2>1. UNCHANGED <<kind, feed, fetched, failed, pos, peeking, line, buf, first, out, ended>>
    BY <1>7 DEF S!Arrive, S!End, S!vars, S!source, S!reader
  <2>2. QED
    BY <1>3, <2>1, FramesStill
<1>8. CASE S!Read
  <2>1. ended = "no" /\ pos' = pos /\ failed = "no"
    BY <1>8 DEF S!Read, S!reader
  <2>2. OutOK(out) /\ Reading
    BY <1>5, <1>6, <2>1 DEF Drained
  <2>3. QED
    BY <1>3, <1>8, <2>2, ReadFrames
<1>9. CASE S!ReadByte
  <2>1. ended = "no" /\ pos' = pos + 1 /\ pos < fetched
    BY <1>9 DEF S!ReadByte
  <2>2. pos # fetched
    BY <1>6, <2>1 DEF ReaderInv, S!TypeOK
  <2>3. OutOK(out) /\ Reading
    <3>1. pos' \in Nat /\ pos <= pos'
      BY <1>6, <2>1
    <3>2. QED
      BY <1>5, <2>1, <2>2, <3>1 DEF Drained
  <2>4. QED
    BY <1>3, <1>4, <1>9, <2>3, ByteFrames
<1>10. CASE S!PeekLF
  <2>1. ended = "no" /\ (pos' = pos + 1 \/ pos' = pos) /\ peeking
    BY <1>10 DEF S!PeekLF
  <2>2. OutOK(out) /\ Reading
    <3>1. pos' \in Nat /\ pos <= pos'
      BY <1>6, <2>1
    <3>2. QED
      BY <1>5, <2>1, <3>1 DEF Drained
  <2>3. QED
    BY <1>3, <1>10, <2>2, PeekFrames
<1>11. CASE S!ReadError
  <2>1. ended = "no" /\ pos' = pos
    BY <1>11 DEF S!ReadError
  <2>2. OutOK(out) /\ (Reading \/ Drained)
    BY <1>5, <1>6, <2>1
  <2>3. CASE Reading
    BY <1>3, <1>11, <2>2, <2>3, ErrorFrames
  <2>4. CASE Drained
    BY <1>3, <1>11, <2>2, <2>4, DrainedFrames
  <2>5. QED
    BY <2>2, <2>3, <2>4
<1>12. CASE S!ReadAtMost
  BY <1>4, <1>12 DEF S!ReadAtMost
<1>13. QED
  BY <1>2, <1>7, <1>8, <1>9, <1>10, <1>11, <1>12 DEF S!Next

\* Two bytes of a record are in one of its lines if no line ends between them.
LEMMA LinesApart ==
  ASSUME FeedOK, NEW R, RecordOK(R), NEW s \in In(R), NEW t \in In(R)
  PROVE  S!SameLine(s, t) <=> \E i \in 1 .. Len(R) : s \in S!ToSet(R[i]) /\ t \in S!ToSet(R[i])
<1>1. In(R) = UNION { S!ToSet(R[i]) : i \in 1 .. Len(R) }
  BY RecordIs
<1>2. /\ Len(R) \in Nat /\ \A i \in 1 .. Len(R) : LineOK(R[i])
      /\ \A i, j \in 1 .. Len(R) : i < j => \A x \in S!ToSet(R[i]), y \in S!ToSet(R[j]) : Cut(x, y)
  BY DEF RecordOK
<1>3. S!SameLine(s, t) <=> ~Cut(s, t) /\ ~Cut(t, s)
  BY DEF S!SameLine, Cut
<1>4. PICK i \in 1 .. Len(R) : s \in S!ToSet(R[i])
  BY <1>1
<1>5. PICK j \in 1 .. Len(R) : t \in S!ToSet(R[j])
  BY <1>1
<1>6. ASSUME NEW k \in 1 .. Len(R), s \in S!ToSet(R[k]), t \in S!ToSet(R[k]) PROVE S!SameLine(s, t)
  <2>1. LineOK(R[k])
    BY <1>2
  <2>2. \A x, y \in S!ToSet(R[k]) : ~Cut(x, y)
    BY <2>1, LineIs
  <2>3. QED
    BY <1>3, <1>6, <2>2
<1>7. ASSUME i # j PROVE ~S!SameLine(s, t)
  <2>1. i < j \/ j < i
    BY <1>2, <1>7
  <2>2. CASE i < j
    BY <1>2, <1>3, <1>4, <1>5, <2>2
  <2>3. CASE j < i
    BY <1>2, <1>3, <1>4, <1>5, <2>3
  <2>4. QED
    BY <2>1, <2>2, <2>3
<1>8. QED
  BY <1>4, <1>5, <1>6, <1>7

\* The records told are those of the feed.
LEMMA RecordsAre ==
  ASSUME FeedOK, OutOK(out), NEW r \in 1 .. Len(out), NEW s \in In(out[r]), NEW t \in ToldBy(out)
  PROVE  /\ S!SameRecord(s, t) <=> t \in In(out[r])
         /\ t \in In(out[r]) => (S!SameLine(s, t) <=> S!Together(r, s, t))
<1>1. /\ ToldBy(out) = UNION { In(out[q]) : q \in 1 .. Len(out) }
      /\ \A p, q \in 1 .. Len(out) : \A x \in In(out[p]), y \in In(out[q]) :
           IF p = q THEN ~Parted(x, y) ELSE x # y /\ (Parted(x, y) \/ Parted(y, x))
  BY ToldText
<1>2. S!SameRecord(s, t) <=> ~Parted(s, t) /\ ~Parted(t, s)
  BY DEF S!SameRecord, Parted
<1>3. PICK q \in 1 .. Len(out) : t \in In(out[q])
  BY <1>1
<1>4. t \in In(out[r]) => S!SameRecord(s, t)
  BY <1>1, <1>2
<1>5. t \notin In(out[r]) => ~S!SameRecord(s, t)
  BY <1>1, <1>2, <1>3
<1>6. ASSUME t \in In(out[r]) PROVE S!SameLine(s, t) <=> S!Together(r, s, t)
  <2>1. RecordOK(out[r])
    BY DEF OutOK
  <2>2. S!SameLine(s, t) <=> \E i \in 1 .. Len(out[r]) : s \in S!ToSet(out[r][i]) /\ t \in S!ToSet(out[r][i])
    BY <1>6, <2>1, LinesApart
  <2>3. DOMAIN out[r] = 1 .. Len(out[r])
    BY <2>1 DEF RecordOK
  <2>4. QED
    BY <2>2, <2>3 DEF S!Together
<1>7. QED
  BY <1>4, <1>5, <1>6

\* What is told is what the properties say.
LEMMA FramesAre == ReaderInv /\ FrameInv => S!FramingKept
<1>. SUFFICES ASSUME ReaderInv, FrameInv PROVE S!FramingKept
  OBVIOUS
<1>1. FeedOK /\ FramesInv /\ WholeInv /\ S!Told = ToldBy(out)
  BY DEF FrameInv, S!Told, ToldBy
<1>2. S!BodyWhole
  BY <1>1 DEF WholeInv, S!BodyWhole
<1>3. /\ pos \in Nat /\ fetched \in Nat /\ Len(feed) \in Nat /\ fetched <= Len(feed) /\ pos <= fetched
      /\ ended \in {"no", "eof", "broken", "idle", "too_large"}
  BY DEF ReaderInv, S!TypeOK
<1>4. \A t \in S!Text : t \in Nat /\ t >= 1
  BY <1>1, FeedIs
<1>5. CASE ~(kind = "stream" /\ ~S!Misread)
  BY <1>2, <1>5 DEF S!FramingKept, S!RecordsTrue, S!NothingLost, S!Promptly
<1>6. CASE kind = "stream" /\ ~S!Misread
  <2>1. /\ OutOK(out) /\ (ended = "no" => Reading \/ Drained) /\ (ended # "no" => Stopped(ended, out))
    BY <1>1, <1>6 DEF FramesInv
  <2>2. DOMAIN out = 1 .. Len(out) /\ \A r \in 1 .. Len(out) : S!Size(out[r]) <= MaxSize
    BY <2>1 DEF OutOK
  <2>3. \A t \in ToldBy(out), s \in S!Text : s < t => s \in ToldBy(out)
    <3>1. ASSUME ToldBy(out) = S!Text \cap 1 .. fetched
          PROVE  \A t \in ToldBy(out), s \in S!Text : s < t => s \in ToldBy(out)
      BY <1>3, <1>4, <3>1
    <3>2. CASE ended = "no" /\ Reading
      <4>1. PICK base \in 0 .. pos : HeldOK(out, buf, base)
        BY <3>2 DEF Reading
      <4>2. base \in Nat
        BY <1>3
      <4>3. QED
        BY <1>1, <4>1, <4>2, HeldClosed
    <3>3. CASE ended = "no" /\ Drained
      BY <3>1, <3>3 DEF Drained
    <3>4. CASE ended # "no"
      BY <1>3, <2>1, <3>1, <3>4 DEF Stopped
    <3>5. QED
      BY <2>1, <3>2, <3>3, <3>4
  <2>4. S!RecordsTrue
    <3>1. PICK all : all = S!FlattenSeq(S!FlattenSeq(out))
      OBVIOUS
    <3>2. all \in Seq(Nat)
      <4>1. PICK V : V = Seq(Nat)
        OBVIOUS
      <4>2. out \in Seq(Seq(V))
        BY <2>1, <4>1 DEF OutOK
      <4>3. S!FlattenSeq(out) \in Seq(V)
        BY <4>2, FlattenType
      <4>4. S!FlattenSeq(out) \in Seq(Seq(Nat))
        BY <4>1, <4>3
      <4>5. QED
        BY <3>1, <4>4, FlattenType
    <3>3. Ordered(all, Less)
      BY <1>1, <2>1, <3>1, ToldText
    <3>4. \A i, j \in DOMAIN all : i < j => all[i] < all[j]
      <4>1. DOMAIN all = 1 .. Len(all)
        BY <3>2
      <4>2. ASSUME NEW i \in DOMAIN all, NEW j \in DOMAIN all, i < j PROVE all[i] < all[j]
        <5>1. <<all[i], all[j]>> \in Less
          BY <3>3, <4>1, <4>2 DEF Ordered
        <5>2. QED
          BY <5>1 DEF Less
      <4>3. QED
        BY <4>2
    <3>5. \A r \in DOMAIN out : \A s \in S!ToSet(S!FlattenSeq(out[r])), t \in S!Told :
            /\ S!SameRecord(s, t) <=> t \in S!ToSet(S!FlattenSeq(out[r]))
            /\ t \in S!ToSet(S!FlattenSeq(out[r])) => (S!SameLine(s, t) <=> S!Together(r, s, t))
      <4>1. ASSUME NEW r \in DOMAIN out, NEW s \in In(out[r]), NEW t \in ToldBy(out)
            PROVE  /\ S!SameRecord(s, t) <=> t \in In(out[r])
                   /\ t \in In(out[r]) => (S!SameLine(s, t) <=> S!Together(r, s, t))
        BY <1>1, <2>1, <2>2, RecordsAre
      <4>2. QED
        BY <1>1, <4>1 DEF In
    <3>6. QED
      BY <1>1, <2>3, <3>1, <3>4, <3>5 DEF S!RecordsTrue
  <2>5. S!NothingLost
    <3>1. ended \in {"eof", "broken", "idle"} => S!Told = S!Text \cap 1 .. fetched
      BY <1>1, <2>1 DEF Stopped
    <3>2. ended = "too_large" => \E t \in S!Text \ S!Told : t <= pos /\ S!TooLarge(t)
      BY <1>1, <2>1 DEF Stopped
    <3>3. QED
      BY <2>2, <3>1, <3>2 DEF S!NothingLost
  <2>6. S!Promptly
    <3>1. SUFFICES ASSUME ended = "no", pos = fetched, ~peeking, NEW e \in S!Blanks, NEW t \in S!Text,
                          t < e, e <= fetched
                   PROVE  t \in ToldBy(out)
      BY <1>1 DEF S!Promptly
    <3>2. e \in S!LineEnds /\ e \in Nat /\ feed[e] \in {"lf", "cr"}
      BY <1>1, FeedIs
    <3>3. CASE Reading
      <4>1. PICK base \in 0 .. pos : LineAt(base) /\ HeldOK(out, buf, base)
        BY <3>3 DEF Reading
      <4>2. base \in Nat /\ \A i \in base + 1 .. pos : feed[i] \notin {"lf", "cr"}
        BY <1>3, <3>1, <4>1 DEF LineAt, Taken
      <4>3. e <= base
        BY <1>3, <3>1, <3>2, <4>2
      <4>4. t \in S!Text \cap 1 .. base
        BY <1>4, <3>1, <3>2, <4>2, <4>3
      <4>5. t \notin In(buf)
        BY <3>1, <4>1, <4>3 DEF HeldOK
      <4>6. ToldBy(out) \cup In(buf) = S!Text \cap 1 .. base
        BY <4>1 DEF HeldOK
      <4>7. QED
        BY <4>4, <4>5, <4>6
    <3>4. CASE Drained
      <4>1. t \in 1 .. fetched
        BY <1>3, <1>4, <3>1, <3>2
      <4>2. QED
        BY <3>4, <4>1 DEF Drained
    <3>5. QED
      BY <2>1, <3>1, <3>3, <3>4
  <2>7. QED
    BY <1>2, <2>4, <2>5, <2>6 DEF S!FramingKept
<1>7. QED
  BY <1>5, <1>6

\* Before the first byte nothing is told, and nothing has to be.
LEMMA InitFrames == S!ConstantsOK /\ S!Init => FrameInv
<1>. SUFFICES ASSUME S!ConstantsOK, S!Init PROVE FrameInv
  OBVIOUS
<1>1. /\ feed \in S!Feeds /\ ending = "open" /\ fetched = 0 /\ failed = "no"
      /\ pos = 0 /\ peeking = FALSE /\ line = <<>> /\ buf = <<>> /\ first = TRUE /\ out = <<>> /\ ended = "no"
  BY DEF S!Init
<1>2. FeedOK
  <2>1. PICK n \in 0 .. MaxFeed : feed \in [1 .. n -> Bytes]
    BY <1>1 DEF S!Feeds, Bytes
  <2>2. \A i \in DOMAIN feed : feed[i] = "mark" => i = 1
    BY <1>1 DEF S!Feeds
  <2>4. feed \in Seq(Bytes) /\ DOMAIN feed = 1 .. Len(feed)
    BY <2>1
  <2>5. QED
    BY <2>2, <2>4 DEF FeedOK
<1>3. S!FlattenSeq(<<>>) = <<>>
  BY DEF S!FlattenSeq
<1>4. In(<<>>) = {} /\ ToldBy(<<>>) = {}
  BY <1>3 DEF In, ToldBy, S!ToSet
<1>5. OutOK(<<>>)
  <2>1. <<>> \in Seq(Seq(Seq(Nat))) /\ Len(<<>>) = 0
    BY EmptySeq
  <2>2. \A r \in 1 .. Len(<<>>) : FALSE
    BY <2>1
  <2>3. QED
    BY <2>1, <2>2 DEF OutOK
<1>6. HeldOK(<<>>, <<>>, 0)
  <2>1. 1 .. 0 = {}
    OBVIOUS
  <2>2. QED
    BY <1>4, <2>1 DEF HeldOK
<1>7. LineAt(0)
  <2>1. Taken = 0
    BY <1>1 DEF Taken
  <2>2. Stretch(0, 0) = <<>>
    BY StretchIs
  <2>3. 0 + 1 .. 0 = {} /\ 0 \in 0 .. 0
    OBVIOUS
  <2>4. first = (0 = 0)
    BY <1>1, Zenon
  <2>5. ~(0 > 0)
    OBVIOUS
  <2>6. QED
    BY <1>1, <2>1, <2>2, <2>3, <2>4, <2>5 DEF LineAt
<1>8. FramesInv
  <2>1. 0 \in 0 .. pos
    BY <1>1
  <2>2. Reading
    BY <1>1, <1>6, <1>7, <2>1 DEF Reading
  <2>3. QED
    BY <1>1, <1>5, <2>2 DEF FramesInv
<1>9. WholeInv
  BY <1>1 DEF WholeInv
<1>10. QED
  BY <1>2, <1>8, <1>9 DEF FrameInv

\* A body is returned when the provider has ended it.
LEMMA NextWhole ==
  ASSUME ReaderInv, WholeInv, [S!Next]_(S!vars)
  PROVE  WholeInv'
<1>1. /\ Len(feed) \in Nat /\ arrived \in 0 .. Len(feed)
      /\ ending # "open" => arrived = Len(feed)
      /\ kind = "whole" /\ out # <<>> => ending = "eof" /\ Len(out[1][1]) = Len(feed) /\ Len(feed) <= MaxSize
  BY DEF ReaderInv, S!TypeOK, WholeInv
<1>2. CASE S!Arrive
  BY <1>1, <1>2 DEF S!Arrive, S!reader, WholeInv
<1>3. CASE S!End
  BY <1>1, <1>3 DEF S!End, S!reader, WholeInv
<1>4. CASE S!Read \/ S!ReadByte \/ S!PeekLF \/ S!ReadError
  <2>1. kind = "stream" /\ UNCHANGED <<kind, feed, arrived, ending>>
    BY <1>4 DEF S!Read, S!ReadByte, S!PeekLF, S!ReadError, S!source
  <2>2. QED
    BY <1>1, <2>1 DEF WholeInv
<1>5. CASE S!ReadAtMost
  <2>1. UNCHANGED <<kind, feed, arrived, ending>>
    BY <1>5 DEF S!ReadAtMost, S!source
  <2>2. CASE out' = out
    BY <1>1, <2>1, <2>2 DEF WholeInv
  <2>3. CASE arrived <= MaxSize /\ ending = "eof" /\ out' = <<<<[i \in 1 .. arrived |-> i]>>>>
    <3>1. arrived = Len(feed)
      BY <1>1, <2>3
    <3>2. Len([i \in 1 .. arrived |-> i]) = arrived
      BY <1>1
    <3>3. (out')[1][1] = [i \in 1 .. arrived |-> i]
      BY <2>3
    <3>4. QED
      BY <1>1, <2>1, <2>3, <3>1, <3>2, <3>3 DEF WholeInv
  <2>4. QED
    BY <1>5, <2>2, <2>3 DEF S!ReadAtMost
<1>6. CASE UNCHANGED S!vars
  BY <1>1, <1>6 DEF S!vars, S!source, S!reader, WholeInv
<1>7. QED
  BY <1>2, <1>3, <1>4, <1>5, <1>6 DEF S!Next

\* Every step keeps the framing.
LEMMA NextFrame == S!ConstantsOK /\ ReaderInv /\ FrameInv /\ [S!Next]_(S!vars) => FrameInv'
<1>. SUFFICES ASSUME S!ConstantsOK, ReaderInv, FrameInv, [S!Next]_(S!vars) PROVE FrameInv'
  OBVIOUS
<1>1. MaxSize \in Nat \ {0}
  BY DEF S!ConstantsOK
<1>2. FeedOK' /\ FramesInv'
  BY <1>1, NextFrames
<1>3. WholeInv'
  BY NextWhole DEF FrameInv
<1>4. QED
  BY <1>2, <1>3 DEF FrameInv

-----------------------------------------------------------------------------
(* The theorem.                                                            *)

\* What a provider sends reaches the decoders whole and in its pieces, wherever the network
\* cuts it, stops or falls silent (sseReader.Next, readLine, idleReadCloser and readAtMost); the
\* long line that is read as something else apart.
THEOREM FramesKept ==
  ASSUME S!ConstantsOK
  PROVE  ExchangeSpec => []FramingKept
<1>1. ExchangeInit => ReaderInv /\ FrameInv
  BY InitReader, InitFrames DEF ExchangeInit
<1>2. ReaderInv /\ FrameInv /\ [ExchangeNext]_allVars => ReaderInv' /\ FrameInv'
  <2>1. UNCHANGED allVars => UNCHANGED S!vars
    BY DEF allVars, readerVars, S!vars, S!source, S!reader
  <2>2. [ExchangeNext]_allVars => [S!Next]_(S!vars)
    BY <2>1, ReaderRests
  <2>3. QED
    BY <2>2, NextReader, NextFrame
<1>3. ReaderInv /\ FrameInv => FramingKept
  BY FramesAre DEF FramingKept
<1>4. QED
  BY <1>1, <1>2, <1>3, PTL DEF ExchangeSpec

-----------------------------------------------------------------------------
(* What is parsed of a request of Anthropic, and built for another channel *)
(* of Anthropic.                                                           *)

\* What is parsed of a message.
Parse(m) == [role |-> m.role, content |-> T!Blocks(m.content)]

Talking == { m \in CanonM : T!Conversation(m) }

\* The messages a client of Anthropic sends.
LEMMA BlockMessageIs ==
  ASSUME NEW m \in T!BlockMessages
  PROVE  m \in Talking /\ m \in CanonM
<1>1. T!SomeWords \in Seq({Word})
  BY DEF T!SomeWords
<1>2. T!Text(T!SomeWords) \in Texts /\ <<T!Text(T!SomeWords)>> \in Seq(Texts)
  BY <1>1, TextIs
<1>3. T!Text(T!SomeWords) \in Inner /\ T!Picture \in Inner /\ [type |-> "other"] \in Inner
  BY <1>2 DEF Inner, Parts, Unknown
<1>4. T!Results \subseteq Seq(Inner)
  BY <1>3 DEF T!Results
<1>5. T!UserBlocks \subseteq OfUser
  <2>1. [type : {"tool_result"}, call : Calls, result : T!Results, error : BOOLEAN] \subseteq Results
    BY <1>4 DEF Results
  <2>2. QED
    BY <1>3, <2>1 DEF T!UserBlocks, OfUser
<1>6. T!AssistantBlocks \subseteq OfAssistant
  BY <1>2 DEF T!AssistantBlocks, OfAssistant, Uses
<1>7. ASSUME NEW A, NEW D, A \subseteq D, NEW p \in T!UpTo(MaxBlocks, A) PROVE p \in Seq(D)
  <2>1. PICK k \in 0 .. MaxBlocks : p \in [1 .. k -> A]
    BY DEF T!UpTo
  <2>2. k \in Nat /\ p \in [1 .. k -> D]
    BY <1>7, <2>1
  <2>3. QED
    BY <2>2, IsASeq
<1>8. /\ \/ m.role = "user" /\ m.content \in T!UpTo(MaxBlocks, T!UserBlocks)
         \/ m.role = "assistant" /\ m.content \in T!UpTo(MaxBlocks, T!AssistantBlocks)
      /\ m = [role |-> m.role, content |-> m.content]
  BY DEF T!BlockMessages
<1>9. \/ m.role = "user" /\ m.content \in Seq(OfUser) /\ m.content \in Seq(Piece)
      \/ m.role = "assistant" /\ m.content \in Seq(OfAssistant) /\ m.content \in Seq(Piece)
  BY <1>5, <1>6, <1>7, <1>8, SidesWiden
<1>10. m \in CanonM
  BY <1>8, <1>9 DEF CanonM
<1>11. QED
  BY <1>9, <1>10 DEF Talking, T!Conversation

\* A block of a user stays one, and one of an assistant stays as it is.
LEMMA BlockIs ==
  /\ \A b \in OfUser : T!Block(b) \in OfUser
  /\ \A b \in OfAssistant : T!Block(b) = b
  /\ \A b \in OfUser : b.type \notin {"tool_result", "other"} => T!Block(b) = b
  /\ \A b \in OfUser : b.type = "other" => T!Block(b).type = "none"
  /\ \A b \in Results : /\ T!Block(b) \in Results /\ T!Block(b).call = b.call
                        /\ T!Block(b).result = T!Of({"text", "image"}, b.result)
                        /\ (T!Of({"text", "image"}, b.result) = b.result => T!Block(b) = b)
<1>1. ASSUME NEW b \in Results
      PROVE  /\ T!Block(b) \in Results /\ T!Block(b).call = b.call
             /\ T!Block(b).result = T!Of({"text", "image"}, b.result)
             /\ (T!Of({"text", "image"}, b.result) = b.result => T!Block(b) = b)
  <2>1. b.type = "tool_result" /\ b.result \in Seq(Piece)
    BY KindsAre, SidesWiden
  <2>2. T!Of({"text", "image"}, b.result) \in Seq(Inner)
    BY <2>1, PartsFound, SidesWiden
  <2>3. PICK o \in Seq(Inner) : o = T!Of({"text", "image"}, b.result)
    BY <2>2
  <2>4. T!Block(b) = [b EXCEPT !.result = o]
    BY <2>1, <2>3 DEF T!Block
  <2>5. [b EXCEPT !.result = o] \in Results /\ [b EXCEPT !.result = o].call = b.call /\ [b EXCEPT !.result = o].result = o
    BY DEF Results
  <2>6. b.result = o => [b EXCEPT !.result = o] = b
    BY DEF Results
  <2>7. QED
    BY <2>3, <2>4, <2>5, <2>6
<1>2. \A b \in OfAssistant : T!Block(b) = b
  <2>1. \A b \in OfAssistant : b.type \in {"text", "thinking", "tool_use"}
    BY SidesAre
  <2>2. QED
    BY <2>1 DEF T!Block
<1>3. \A b \in OfUser : b.type \notin {"tool_result", "other"} => T!Block(b) = b
  BY DEF T!Block
<1>4. \A b \in OfUser : b.type = "other" => T!Block(b) = T!Blank
  BY DEF T!Block
<1>5. T!Blank \in OfUser /\ T!Blank.type = "none"
  BY DEF OfUser, T!Blank
<1>6. ASSUME NEW b \in OfUser PROVE T!Block(b) \in OfUser
  <2>1. CASE b.type = "tool_result"
    <3>1. b \in Results
      BY <2>1, SidesAre, PieceIs
    <3>2. T!Block(b) \in Results
      BY <1>1, <3>1
    <3>3. QED
      BY <3>2, SidesAre
  <2>2. QED
    BY <1>3, <1>4, <1>5, <2>1
<1>7. QED
  BY <1>1, <1>2, <1>3, <1>4, <1>5, <1>6

\* What is parsed is a message of the conversation with as many blocks.
LEMMA ParseIs ==
  ASSUME NEW m \in Talking
  PROVE  /\ Parse(m) \in CanonM /\ Parse(m) \in Talking /\ Parse(m).role = m.role
         /\ m.content \in Seq(Piece) /\ Parse(m).content \in Seq(Piece)
         /\ Parse(m).content = T!Blocks(m.content) /\ DOMAIN Parse(m).content = DOMAIN m.content
         /\ \A j \in DOMAIN m.content : Parse(m).content[j] = T!Block(m.content[j])
         /\ m.role = "assistant" => Parse(m).content = m.content /\ m.content \in Seq(OfAssistant)
         /\ m.role = "user" => Parse(m).content \in Seq(OfUser) /\ m.content \in Seq(OfUser)
         /\ m.role \in {"user", "assistant"}
<1>1. m \in CanonM /\ m.role \in {"user", "assistant"}
  BY DEF Talking, T!Conversation
<1>2. /\ m.content \in Seq(Piece)
      /\ m.role = "user" => m.content \in Seq(OfUser)
      /\ m.role = "assistant" => m.content \in Seq(OfAssistant)
  BY <1>1 DEF CanonM
<1>3. PICK s \in Seq(Piece) : s = m.content
  BY <1>2
<1>4. PICK t : t = T!Blocks(s)
  OBVIOUS
<1>5. t = [j \in DOMAIN s |-> T!Block(s[j])]
  BY <1>4 DEF T!Blocks
<1>6. DOMAIN t = DOMAIN s /\ \A j \in DOMAIN s : t[j] = T!Block(s[j])
  BY <1>5
<1>7. DOMAIN s = 1 .. Len(s) /\ Len(s) \in Nat
  OBVIOUS
<1>8. m.role = "user" => t \in Seq(OfUser)
  <2>1. SUFFICES ASSUME s \in Seq(OfUser) PROVE t \in Seq(OfUser)
    BY <1>2, <1>3
  <2>2. \A j \in 1 .. Len(s) : t[j] \in OfUser
    <3>1. \A j \in 1 .. Len(s) : s[j] \in OfUser
      BY <2>1
    <3>2. QED
      BY <1>6, <1>7, <3>1, BlockIs
  <2>3. t = [j \in 1 .. Len(s) |-> t[j]]
    BY <1>5, <1>7
  <2>4. QED
    BY <1>7, <2>2, <2>3, IsASeq
<1>9. m.role = "assistant" => t = s
  <2>1. SUFFICES ASSUME s \in Seq(OfAssistant) PROVE t = s
    BY <1>2, <1>3
  <2>2. \A j \in 1 .. Len(s) : t[j] = s[j]
    <3>1. \A j \in 1 .. Len(s) : s[j] \in OfAssistant
      BY <2>1
    <3>2. QED
      BY <1>6, <1>7, <3>1, BlockIs
  <2>3. t = [j \in 1 .. Len(s) |-> s[j]]
    BY <1>5, <1>6, <1>7, <2>2
  <2>4. QED
    BY <1>7, <2>3
<1>10. t \in Seq(Piece)
  BY <1>1, <1>8, <1>9, SidesWiden
<1>11. PICK p : p = Parse(m)
  OBVIOUS
<1>12. p = [role |-> m.role, content |-> t]
  BY <1>3, <1>4, <1>11 DEF Parse
<1>13. p.role = m.role /\ p.content = t
  BY <1>12
<1>14. p \in CanonM
  BY <1>1, <1>2, <1>3, <1>8, <1>9, <1>10, <1>12 DEF CanonM
<1>15. p \in Talking
  BY <1>1, <1>13, <1>14 DEF Talking, T!Conversation
<1>16. QED
  BY <1>1, <1>2, <1>3, <1>4, <1>6, <1>8, <1>9, <1>10, <1>11, <1>13, <1>14, <1>15

\* A request of Anthropic, parsed message by message.
LEMMA ParseBlocksIs ==
  ASSUME NEW s \in Seq(Talking)
  PROVE  /\ T!ParseBlocks(s) = [i \in DOMAIN s |-> Parse(s[i])] /\ T!ParseBlocks(s) \in Seq(Talking)
         /\ T!ParseBlocks(s) \in Seq(CanonM) /\ DOMAIN T!ParseBlocks(s) = DOMAIN s /\ Len(T!ParseBlocks(s)) = Len(s)
         /\ \A i \in DOMAIN s : T!ParseBlocks(s)[i] = Parse(s[i]) /\ s[i] \in Talking
<1>1. DOMAIN s = 1 .. Len(s) /\ Len(s) \in Nat /\ \A i \in DOMAIN s : s[i] \in Talking
  OBVIOUS
<1>2. PICK c : c = T!ParseBlocks(s)
  OBVIOUS
<1>3. c = [i \in DOMAIN s |-> Parse(s[i])]
  <2>1. \A i \in DOMAIN s : (IF s[i].role = "assistant" THEN "assistant" ELSE "user") = s[i].role
    BY <1>1, ParseIs
  <2>2. QED
    BY <1>2, <2>1 DEF T!ParseBlocks, Parse
<1>4. \A i \in 1 .. Len(s) : Parse(s[i]) \in Talking
  BY <1>1, ParseIs
<1>5. c \in Seq(Talking)
  BY <1>1, <1>3, <1>4, IsASeq
<1>6. \A x \in Talking : x \in CanonM
  BY DEF Talking
<1>7. c \in Seq(CanonM)
  BY <1>5, <1>6
<1>8. DOMAIN c = DOMAIN s /\ Len(c) = Len(s)
  BY <1>1, <1>3, <1>5
<1>9. QED
  BY <1>1, <1>2, <1>3, <1>5, <1>7, <1>8

-----------------------------------------------------------------------------
(* What is read of a request of Anthropic that is built for OpenAI.        *)

\* What a block says, and what it calls or returns.
Voiced(who) == [b \in Piece |-> IF b.type \in {"text", "image"} THEN T!Finds(who, b) ELSE <<>>]
Moved     == [b \in Piece |-> IF b.type \in {"tool_use", "tool_result"} THEN T!Finds("user", b) ELSE <<>>]

\* One or the other is found of a block.
LEMMA SaysOrMoves ==
  ASSUME NEW who \in Readers
  PROVE  /\ Makes(Voiced(who), Piece, Speech) /\ Makes(Voiced(who), Piece, Entry)
         /\ Makes(Moved, Piece, Traffic) /\ Makes(Moved, Piece, Entry)
         /\ \A b \in Piece : \/ Found(who)[b] = Voiced(who)[b] /\ Moved[b] = <<>>
                             \/ Found(who)[b] = Moved[b] /\ Voiced(who)[b] = <<>>
<1>1. ASSUME NEW b \in Piece, b.type = "text" PROVE T!Finds(who, b) \in Seq(Speech)
  <2>1. b.text \in Seq({Word}) /\ T!Finds(who, b) = [i \in DOMAIN b.text |-> <<who, b.text[i]>>]
    BY <1>1, PieceIs DEF T!Finds
  <2>2. PICK w \in Seq({Word}) : w = b.text
    BY <2>1
  <2>3. \A i \in 1 .. Len(w) : w[i] = Word
    OBVIOUS
  <2>4. <<who, Word>> \in Speech
    BY DEF Speech
  <2>5. [i \in 1 .. Len(w) |-> <<who, w[i]>>] \in [1 .. Len(w) -> Speech]
    BY <2>3, <2>4
  <2>6. DOMAIN w = 1 .. Len(w) /\ Len(w) \in Nat
    OBVIOUS
  <2>7. QED
    BY <2>1, <2>2, <2>5, <2>6, IsASeq
<1>2. ASSUME NEW b \in Piece, b.type = "image" PROVE T!Finds(who, b) \in Seq(Speech)
  <2>1. T!Finds(who, b) = << <<who, Image>> >>
    BY <1>2, PieceIs DEF T!Finds
  <2>2. <<who, Image>> \in Speech
    BY DEF Speech
  <2>3. QED
    BY <2>1, <2>2
<1>3. ASSUME NEW b \in Piece, b.type = "tool_use"
      PROVE  T!Finds("user", b) \in Seq(Traffic) /\ T!Finds(who, b) = T!Finds("user", b)
  <2>1. \A r : T!Finds(r, b) = << <<"call", b.call>> >>
    BY <1>3 DEF T!Finds
  <2>2. <<"call", b.call>> \in Traffic
    BY <1>3, PieceIs DEF Traffic
  <2>3. QED
    BY <2>1, <2>2
<1>4. ASSUME NEW b \in Piece, b.type = "tool_result"
      PROVE  T!Finds("user", b) \in Seq(Traffic) /\ T!Finds(who, b) = T!Finds("user", b)
  <2>1. \A r : T!Finds(r, b) = << <<"result", b.call, T!Words(b.result)>> >>
    BY <1>4 DEF T!Finds
  <2>2. b.call \in Calls /\ b.result \in Seq(Piece)
    BY <1>4, PieceIs, SidesWiden
  <2>3. T!Words(b.result) \in Seq({Word})
    BY <2>2, WordsAre
  <2>4. <<"result", b.call, T!Words(b.result)>> \in Traffic
    BY <2>2, <2>3 DEF Traffic
  <2>5. PICK e \in Traffic : e = <<"result", b.call, T!Words(b.result)>>
    BY <2>4
  <2>6. \A r : T!Finds(r, b) = <<e>>
    BY <2>1, <2>5
  <2>7. <<e>> \in Seq(Traffic)
    OBVIOUS
  <2>8. QED
    BY <2>6, <2>7
<1>5. \A b \in Piece : b.type \notin {"text", "image", "tool_use", "tool_result"} => T!Finds(who, b) = <<>>
  BY DEF T!Finds
<1>6. Makes(Voiced(who), Piece, Speech)
  <2>1. \A b \in Piece : Voiced(who)[b] \in Seq(Speech)
    BY <1>1, <1>2, EmptySeq DEF Voiced
  <2>2. QED
    BY <2>1 DEF Makes, Voiced
<1>7. Makes(Moved, Piece, Traffic)
  <2>1. \A b \in Piece : Moved[b] \in Seq(Traffic)
    BY <1>3, <1>4, EmptySeq DEF Moved
  <2>2. QED
    BY <2>1 DEF Makes, Moved
<1>8. Makes(Voiced(who), Piece, Entry) /\ Makes(Moved, Piece, Entry)
  <2>1. \A s \in Seq(Speech) : s \in Seq(Entry)
    BY DEF Entry
  <2>2. \A s \in Seq(Traffic) : s \in Seq(Entry)
    BY DEF Entry
  <2>3. QED
    BY <1>6, <1>7, <2>1, <2>2 DEF Makes
<1>9. \A b \in Piece : \/ Found(who)[b] = Voiced(who)[b] /\ Moved[b] = <<>>
                       \/ Found(who)[b] = Moved[b] /\ Voiced(who)[b] = <<>>
  BY <1>3, <1>4, <1>5 DEF Found, Voiced, Moved
<1>10. QED
  BY <1>6, <1>7, <1>8, <1>9

\* What is parsed of a block says, calls and returns the same.
LEMMA BlockSays ==
  ASSUME NEW who \in Readers, NEW b \in Piece, b \in OfUser \/ b \in OfAssistant
  PROVE  T!Block(b) \in Piece /\ Voiced(who)[T!Block(b)] = Voiced(who)[b] /\ Moved[T!Block(b)] = Moved[b]
<1>1. CASE b \in OfAssistant
  BY <1>1, BlockIs
<1>2. CASE b \in OfUser /\ b.type \notin {"tool_result", "other"}
  BY <1>2, BlockIs
<1>3. CASE b \in OfUser /\ b.type = "other"
  <2>1. T!Block(b) \in Piece /\ T!Block(b).type = "none"
    BY <1>3, BlockIs, SidesAre
  <2>2. QED
    BY <1>3, <2>1 DEF Voiced, Moved
<1>4. CASE b \in OfUser /\ b.type = "tool_result"
  <2>1. b \in Results
    BY <1>4, PieceIs
  <2>2. PICK d : d = T!Block(b)
    OBVIOUS
  <2>3. d \in Results /\ d.call = b.call /\ d.result = T!Of({"text", "image"}, b.result)
    BY <2>1, <2>2, BlockIs
  <2>4. d \in Piece /\ d.type = "tool_result" /\ b.result \in Seq(Piece)
    BY <2>1, <2>3, SidesAre, KindsAre, SidesWiden
  <2>5. PICK r \in Seq(Piece) : r = b.result
    BY <2>4
  <2>6. T!Words(T!Of({"text", "image"}, r)) = T!Words(r)
    <3>1. PICK g : g = KeptOf({"text", "image"}) /\ Makes(g, Piece, Piece)
      BY PlainMakes
    <3>2. T!Of({"text", "image"}, r) = Mapped(g, r)
      BY <3>1, EachIs
    <3>3. \A x \in Piece : WordsOf[x] = Mapped(WordsOf, g[x])
      <4>1. ASSUME NEW x \in Piece PROVE WordsOf[x] = Mapped(WordsOf, g[x])
        <5>1. Mapped(WordsOf, <<>>) = <<>> /\ Mapped(WordsOf, <<x>>) = WordsOf[x]
          BY PlainMakes, MappedOne
        <5>2. g[x] = <<x>> \/ (g[x] = <<>> /\ WordsOf[x] = <<>>)
          BY <3>1 DEF KeptOf, WordsOf
        <5>3. QED
          BY <5>1, <5>2
      <4>2. QED
        BY <4>1
    <3>4. Makes(WordsOf, Piece, {Word})
      BY PlainMakes
    <3>5. \A s \in Seq(Piece) : Mapped(WordsOf, Mapped(g, s)) = Mapped(WordsOf, s)
      BY <3>1, <3>3, <3>4, MappedTwice
    <3>6. Mapped(g, r) \in Seq(Piece)
      BY <3>1, MappedEach
    <3>7. PICK q \in Seq(Piece) : q = Mapped(g, r)
      BY <3>6
    <3>8. T!Words(q) = Mapped(WordsOf, q)
      BY EachIs
    <3>9. T!Words(r) = Mapped(WordsOf, r)
      BY EachIs
    <3>10. QED
      BY <3>2, <3>5, <3>7, <3>8, <3>9
  <2>7. T!Finds("user", d) = << <<"result", d.call, T!Words(d.result)>> >>
        /\ T!Finds("user", b) = << <<"result", b.call, T!Words(b.result)>> >>
    BY <1>4, <2>4 DEF T!Finds
  <2>8. T!Finds("user", d) = T!Finds("user", b)
    BY <2>3, <2>5, <2>6, <2>7
  <2>9. QED
    BY <1>4, <2>2, <2>4, <2>8 DEF Voiced, Moved
<1>5. QED
  BY <1>1, <1>2, <1>3, <1>4

\* So does what is parsed of a message.
LEMMA ParseSays ==
  ASSUME NEW who \in Readers, NEW m \in Talking
  PROVE  /\ Mapped(Voiced(who), Parse(m).content) = Mapped(Voiced(who), m.content)
         /\ Mapped(Moved, Parse(m).content) = Mapped(Moved, m.content)
<1>1. PICK s, t \in Seq(Piece) : s = m.content /\ t = Parse(m).content
  BY ParseIs
<1>2. DOMAIN t = DOMAIN s /\ \A j \in DOMAIN s : t[j] = T!Block(s[j])
  BY <1>1, ParseIs
<1>3. \A j \in DOMAIN s : s[j] \in Piece /\ (s[j] \in OfUser \/ s[j] \in OfAssistant)
  BY DEF Piece
<1>4. \A j \in DOMAIN s : Voiced(who)[t[j]] = Voiced(who)[s[j]] /\ Moved[t[j]] = Moved[s[j]]
  BY <1>2, <1>3, BlockSays
<1>5. [j \in DOMAIN t |-> Voiced(who)[t[j]]] = [j \in DOMAIN s |-> Voiced(who)[s[j]]]
  BY <1>2, <1>4
<1>6. [j \in DOMAIN t |-> Moved[t[j]]] = [j \in DOMAIN s |-> Moved[s[j]]]
  BY <1>2, <1>4
<1>7. QED
  BY <1>1, <1>5, <1>6 DEF Mapped

\* Words are said one by one.
LEMMA WordsSaid ==
  ASSUME NEW who \in Readers, NEW k, k = [x \in {Word} |-> << <<who, x>> >>]
  PROVE  /\ Makes(k, {Word}, Entry)
         /\ \A w \in Seq({Word}) : /\ [i \in DOMAIN w |-> <<who, w[i]>>] = Mapped(k, w)
                                   /\ T!FindsAll(who, T!TextOrNone(w)) = Mapped(k, w)
<1>1. <<who, Word>> \in Entry /\ << <<who, Word>> >> \in Seq(Entry)
  <2>1. <<who, Word>> \in Entry
    BY DEF Entry, Speech
  <2>2. QED
    BY <2>1
<1>2. Makes(k, {Word}, Entry)
  BY <1>1 DEF Makes
<1>3. ASSUME NEW w \in Seq({Word}) PROVE [i \in DOMAIN w |-> <<who, w[i]>>] = Mapped(k, w)
  <2>1. DOMAIN w = 1 .. Len(w) /\ Len(w) \in Nat /\ \A i \in 1 .. Len(w) : w[i] = Word
    OBVIOUS
  <2>2. PICK e : e = [i \in DOMAIN w |-> <<who, w[i]>>]
    OBVIOUS
  <2>3. DOMAIN e = DOMAIN w /\ \A i \in DOMAIN w : e[i] = <<who, w[i]>> /\ e[i] \in Entry
    BY <1>1, <2>1, <2>2
  <2>4. e \in Seq(Entry)
    <3>1. e = [i \in 1 .. Len(w) |-> e[i]]
      BY <2>1, <2>2, <2>3
    <3>2. QED
      BY <2>1, <2>3, <3>1, IsASeq
  <2>5. PICK g : g = [x \in Entry |-> <<x>>]
    OBVIOUS
  <2>6. Makes(g, Entry, Entry) /\ \A i \in DOMAIN e : g[e[i]] = <<e[i]>>
    <3>1. \A x \in Entry : <<x>> \in Seq(Entry)
      OBVIOUS
    <3>2. QED
      BY <2>3, <2>5, <3>1 DEF Makes
  <2>7. Mapped(g, e) = e
    BY <2>4, <2>6, MappedItself
  <2>8. \A i \in DOMAIN w : k[w[i]] = << <<who, w[i]>> >>
    BY <2>1
  <2>9. [i \in DOMAIN e |-> g[e[i]]] = [i \in DOMAIN w |-> k[w[i]]]
    BY <2>3, <2>6, <2>8
  <2>10. Mapped(g, e) = Mapped(k, w)
    BY <2>9 DEF Mapped
  <2>11. QED
    BY <2>2, <2>7, <2>10
<1>4. ASSUME NEW w \in Seq({Word}) PROVE T!FindsAll(who, T!TextOrNone(w)) = Mapped(k, w)
  <2>1. T!Text(w) \in Texts /\ T!Text(w) \in Piece /\ T!Text(w).type = "text"
    BY TextIs, SidesAre
  <2>2. T!Text(w).text = w
    BY DEF T!Text
  <2>3. T!FindsAll(who, <<>>) = <<>> /\ T!FindsAll(who, <<T!Text(w)>>) = T!Finds(who, T!Text(w))
    BY <2>1, FindsOne
  <2>4. T!Finds(who, T!Text(w)) = [i \in DOMAIN w |-> <<who, w[i]>>]
    BY <2>1, <2>2 DEF T!Finds
  <2>5. CASE w = <<>>
    <3>1. Mapped(k, <<>>) = <<>>
      <4>1. Word \in {Word}
        OBVIOUS
      <4>2. QED
        BY <1>2, <4>1, MappedOne
    <3>2. QED
      BY <2>3, <2>5, <3>1 DEF T!TextOrNone
  <2>6. CASE w # <<>>
    BY <1>3, <2>3, <2>4, <2>6 DEF T!TextOrNone
  <2>7. QED
    BY <2>5, <2>6
<1>5. QED
  BY <1>2, <1>3, <1>4

\* Calls are called one by one.
LEMMA CallsMade ==
  ASSUME NEW who \in Readers, NEW k, k = [c \in Calls |-> << <<"call", c>> >>]
  PROVE  /\ Makes(k, Calls, Entry)
         /\ \A calls \in Seq(Calls) : T!FindsAll(who, T!Uses(calls)) = Mapped(k, calls)
<1>1. \A c \in Calls : <<"call", c>> \in Entry
  BY DEF Entry, Traffic
<1>2. Makes(k, Calls, Entry)
  BY <1>1 DEF Makes
<1>3. ASSUME NEW calls \in Seq(Calls) PROVE T!FindsAll(who, T!Uses(calls)) = Mapped(k, calls)
  <2>1. PICK u \in Seq(Piece) : u = T!Uses(calls)
    BY UsesAre
  <2>2. DOMAIN u = DOMAIN calls /\ \A i \in DOMAIN calls : u[i] = T!ToolUse(calls[i]) /\ u[i] \in Piece /\ calls[i] \in Calls
    <3>1. DOMAIN u = DOMAIN calls /\ \A i \in DOMAIN calls : u[i] = T!ToolUse(calls[i])
      BY <2>1 DEF T!Uses
    <3>2. \A i \in DOMAIN u : u[i] \in Piece
      OBVIOUS
    <3>3. QED
      BY <3>1, <3>2
  <2>3. \A i \in DOMAIN calls : Found(who)[u[i]] = k[calls[i]]
    BY <2>2 DEF Found, T!Finds, T!ToolUse
  <2>4. [i \in DOMAIN u |-> Found(who)[u[i]]] = [i \in DOMAIN calls |-> k[calls[i]]]
    BY <2>2, <2>3
  <2>5. Mapped(Found(who), u) = Mapped(k, calls)
    BY <2>4 DEF Mapped
  <2>6. QED
    BY <2>1, <2>5, EachIs
<1>4. QED
  BY <1>2, <1>3

\* What is read of a user's message that is built anew,
LEMMA UserRebuilt ==
  ASSUME NEW v \in Seq(OfUser)
  PROVE  Mapped(ReadOf, T!UserMessages(v)) = Mapped(Voiced("user"), v) \o Mapped(Moved, v)
<1> DEFINE parts == T!Of({"text", "image"}, v)
           p == IF parts = <<>> THEN <<>> ELSE <<T!Say("user", parts)>>
<1>1. v \in Seq(Piece) /\ "user" \in Readers
  BY SidesWiden DEF Readers
<1>2. /\ T!UserMessages(v) = p \o T!ToolMessages(v)
      /\ parts \in Seq(Parts) /\ T!ToolMessages(v) \in Seq(FlatM) /\ T!Say("user", parts) \in FlatM
      /\ T!Say("user", parts).role = "user" /\ T!Say("user", parts).content = parts /\ T!Say("user", parts).calls = <<>>
  BY <1>1, UserMessagesAre
<1>3. p \in Seq(FlatM)
  BY <1>2, EmptySeq
<1>4. PICK q \in Seq(FlatM) : q = T!ToolMessages(v)
  BY <1>2
<1>5. Mapped(ReadOf, T!UserMessages(v)) = Mapped(ReadOf, p) \o Mapped(ReadOf, q)
  <2>. HIDE DEF p
  <2>1. PICK a \in Seq(FlatM) : a = p
    BY <1>3
  <2>2. Mapped(ReadOf, a \o q) = Mapped(ReadOf, a) \o Mapped(ReadOf, q)
    BY ReadMakes, MappedBoth
  <2>3. QED
    BY <1>2, <1>4, <2>1, <2>2
<1>6. PICK c \in Seq(Parts) : c = parts
  BY <1>2
<1>7. c \in Seq(Piece) /\ T!FindsAll("user", c) \in Seq(Entry)
  BY <1>1, SidesWiden, FindsBoth
<1>8. Mapped(ReadOf, p) = T!FindsAll("user", c)
  <2>1. CASE c = <<>>
    <3>1. T!Picture \in Piece
      BY DEF Piece, OfUser, Inner, Parts
    <3>2. T!FindsAll("user", <<>>) = <<>>
      BY <1>1, <3>1, FindsOne
    <3>3. Mapped(ReadOf, <<>>) = <<>>
      BY <1>2, ReadMakes, MappedOne
    <3>4. QED
      BY <1>6, <2>1, <3>2, <3>3
  <2>2. CASE c # <<>>
    <3>1. PICK m \in FlatM : m = T!Say("user", c) /\ m.role = "user" /\ m.content = c /\ m.calls = <<>>
      BY <1>2, <1>6
    <3>2. Mapped(ReadOf, <<m>>) = ReadOf[m]
      BY ReadMakes, MappedOne
    <3>3. T!ReadFlat(m) = T!FindsAll("user", c) \o T!FindsAll("user", T!Uses(<<>>))
      BY <3>1 DEF T!ReadFlat
    <3>4. T!Uses(<<>>) = <<>>
      BY DEF T!Uses
    <3>5. T!Picture \in Piece
      BY DEF Piece, OfUser, Inner, Parts
    <3>6. T!FindsAll("user", <<>>) = <<>>
      BY <1>1, <3>5, FindsOne
    <3>7. ReadOf[m] = T!FindsAll("user", c)
      BY <1>7, <3>3, <3>4, <3>6, ConcatEmptySeq DEF ReadOf
    <3>8. QED
      BY <1>6, <2>2, <3>1, <3>2, <3>7
  <2>3. QED
    BY <2>1, <2>2
<1>9. T!FindsAll("user", c) = Mapped(Voiced("user"), v)
  <2>1. PICK g, h, f : /\ g = KeptOf({"text", "image"}) /\ h = Found("user") /\ f = Voiced("user")
                       /\ Makes(g, Piece, Piece) /\ Makes(h, Piece, Entry) /\ Makes(f, Piece, Entry)
    BY <1>1, PlainMakes, FoundMakes, SaysOrMoves
  <2>2. \A b \in Piece : f[b] = Mapped(h, g[b])
    <3>1. ASSUME NEW b \in Piece PROVE f[b] = Mapped(h, g[b])
      <4>1. Mapped(h, <<>>) = <<>> /\ Mapped(h, <<b>>) = h[b]
        BY <2>1, MappedOne
      <4>2. h[b] = T!Finds("user", b)
        BY <2>1 DEF Found
      <4>3. \/ g[b] = <<b>> /\ f[b] = T!Finds("user", b)
            \/ g[b] = <<>> /\ f[b] = <<>>
        BY <2>1 DEF KeptOf, Voiced
      <4>4. QED
        BY <4>1, <4>2, <4>3
    <3>2. QED
      BY <3>1
  <2>3. \A s \in Seq(Piece) : Mapped(h, Mapped(g, s)) = Mapped(f, s)
    BY <2>1, <2>2, MappedTwice
  <2>4. c = Mapped(g, v)
    BY <1>1, <1>6, <2>1, EachIs
  <2>5. T!FindsAll("user", c) = Mapped(h, c)
    BY <1>7, <2>1, EachIs
  <2>6. QED
    BY <1>1, <2>1, <2>3, <2>4, <2>5
<1>10. Mapped(ReadOf, q) = Mapped(Moved, v)
  <2>1. PICK f : f = [b \in Piece |-> IF b.type = "tool_result" THEN T!Finds("user", b) ELSE <<>>]
    OBVIOUS
  <2>2. \A b \in Piece : f[b] = Mapped(ReadOf, Answered[b]) /\ f[b] \in Seq(Entry)
    <3>1. ASSUME NEW b \in Piece PROVE f[b] = Mapped(ReadOf, Answered[b]) /\ f[b] \in Seq(Entry)
      <4>1. CASE b.type = "tool_result"
        <5>1. b \in Results
          BY <4>1, PieceIs
        <5>2. PICK m \in FlatM : m = T!ToolMessage(b)
          BY <5>1, ToolMessageIs
        <5>3. /\ m.role = "tool" /\ m.of = <<b.call>> /\ m.content = T!TextOrNone(T!Words(b.result))
          BY <5>1, <5>2, ToolMessageIs
        <5>4. b.result \in Seq(Piece)
          BY <5>1, KindsAre, SidesWiden
        <5>5. T!Words(b.result) \in Seq({Word})
          BY <5>4, WordsAre
        <5>6. T!Words(m.content) = T!Words(b.result)
          BY <5>3, <5>5, TextIs
        <5>7. T!ReadFlat(m) = << <<"result", b.call, T!Words(b.result)>> >>
          BY <5>3, <5>6 DEF T!ReadFlat
        <5>8. T!Finds("user", b) = << <<"result", b.call, T!Words(b.result)>> >>
          BY <4>1 DEF T!Finds
        <5>9. Mapped(ReadOf, <<m>>) = ReadOf[m]
          BY ReadMakes, MappedOne
        <5>10. ReadOf[m] = T!ReadFlat(m) /\ ReadOf[m] \in Seq(Entry)
          BY ReadMakes DEF ReadOf, Makes
        <5>11. Answered[b] = <<m>> /\ f[b] = T!Finds("user", b)
          BY <2>1, <4>1, <5>2 DEF Answered
        <5>12. QED
          BY <5>7, <5>8, <5>9, <5>10, <5>11
      <4>2. CASE b.type # "tool_result"
        <5>1. f[b] = <<>> /\ Answered[b] = <<>>
          BY <2>1, <4>2 DEF Answered
        <5>2. Mapped(ReadOf, <<>>) = <<>>
          BY <1>2, ReadMakes, MappedOne
        <5>3. QED
          BY <5>1, <5>2, EmptySeq
      <4>3. QED
        BY <4>1, <4>2
    <3>2. QED
      BY <3>1
  <2>3. Makes(f, Piece, Entry)
    BY <2>1, <2>2 DEF Makes
  <2>4. \A s \in Seq(Piece) : Mapped(ReadOf, Mapped(Answered, s)) = Mapped(f, s)
    BY <2>2, <2>3, AnsweredMakes, ReadMakes, MappedTwice
  <2>5. q = Mapped(Answered, v)
    BY <1>1, <1>4, EachIs
  <2>6. \A i \in DOMAIN v : f[v[i]] = Moved[v[i]]
    <3>1. \A i \in DOMAIN v : v[i] \in OfUser
      OBVIOUS
    <3>2. \A i \in DOMAIN v : v[i] \in Piece /\ v[i].type # "tool_use"
      BY <3>1, SidesAre
    <3>3. QED
      BY <2>1, <3>2 DEF Moved
  <2>7. Mapped(f, v) = Mapped(Moved, v)
    BY <2>6, MappedSame
  <2>8. QED
    BY <1>1, <2>4, <2>5, <2>7
<1>11. QED
  <2>. HIDE DEF p
  <2>1. QED
    BY <1>5, <1>8, <1>9, <1>10

\* and of an assistant's.
LEMMA AssistantRebuilt ==
  ASSUME NEW v \in Seq(OfAssistant)
  PROVE  Mapped(ReadOf, <<T!AssistantMessage(v)>>) = Mapped(Voiced("assistant"), v) \o Mapped(Moved, v)
<1>1. v \in Seq(Piece) /\ "assistant" \in Readers
  BY SidesWiden DEF Readers
<1>2. PICK m \in FlatM : /\ m = T!AssistantMessage(v) /\ m.role = "assistant"
                         /\ m.content = T!TextOrNone(T!Words(v)) /\ m.calls = T!CallsOf(v)
  BY <1>1, AssistantMessageIs
<1>3. PICK w \in Seq({Word}), d \in Seq(Calls) : w = T!Words(v) /\ d = T!CallsOf(v)
  BY <1>1, WordsAre
<1>4. Mapped(ReadOf, <<m>>) = T!FindsAll("assistant", T!TextOrNone(w)) \o T!FindsAll("assistant", T!Uses(d))
  <2>1. Mapped(ReadOf, <<m>>) = ReadOf[m]
    BY ReadMakes, MappedOne
  <2>2. ReadOf[m] = T!FindsAll("assistant", T!TextOrNone(w)) \o T!FindsAll("assistant", T!Uses(d))
    BY <1>2, <1>3 DEF ReadOf, T!ReadFlat
  <2>3. QED
    BY <2>1, <2>2
<1>5. \A i \in DOMAIN v : v[i] \in Piece /\ v[i].type \in {"text", "thinking", "tool_use"}
  <2>1. \A i \in DOMAIN v : v[i] \in OfAssistant
    OBVIOUS
  <2>2. QED
    BY <2>1, SidesAre
<1>6. T!FindsAll("assistant", T!TextOrNone(w)) = Mapped(Voiced("assistant"), v)
  <2>1. PICK k : k = [x \in {Word} |-> << <<"assistant", x>> >>]
    OBVIOUS
  <2>2. /\ Makes(k, {Word}, Entry)
        /\ \A u \in Seq({Word}) : /\ [i \in DOMAIN u |-> <<"assistant", u[i]>>] = Mapped(k, u)
                                  /\ T!FindsAll("assistant", T!TextOrNone(u)) = Mapped(k, u)
    BY <1>1, <2>1, WordsSaid
  <2>3. PICK f : f = [b \in Piece |-> Mapped(k, WordsOf[b])]
    OBVIOUS
  <2>4. Makes(f, Piece, Entry)
    <3>1. \A b \in Piece : WordsOf[b] \in Seq({Word})
      BY PlainMakes DEF Makes
    <3>2. \A b \in Piece : Mapped(k, WordsOf[b]) \in Seq(Entry)
      BY <2>2, <3>1, MappedEach
    <3>3. QED
      BY <2>3, <3>2 DEF Makes
  <2>5. \A s \in Seq(Piece) : Mapped(k, Mapped(WordsOf, s)) = Mapped(f, s)
    <3>1. \A b \in Piece : f[b] = Mapped(k, WordsOf[b])
      BY <2>3
    <3>2. QED
      BY <2>2, <2>4, <3>1, PlainMakes, MappedTwice
  <2>6. w = Mapped(WordsOf, v)
    BY <1>1, <1>3, EachIs
  <2>7. ASSUME NEW i \in DOMAIN v PROVE f[v[i]] = Voiced("assistant")[v[i]]
    <3>1. PICK b \in Piece : b = v[i] /\ b.type \in {"text", "thinking", "tool_use"}
      BY <1>5
    <3>2. CASE b.type = "text"
      <4>1. PICK u \in Seq({Word}) : u = b.text
        BY <3>2, PieceIs
      <4>2. WordsOf[b] = u
        BY <3>2, <4>1 DEF WordsOf
      <4>3. Voiced("assistant")[b] = [j \in DOMAIN u |-> <<"assistant", u[j]>>]
        BY <3>2, <4>1 DEF Voiced, T!Finds
      <4>4. QED
        BY <2>2, <2>3, <3>1, <4>2, <4>3
    <3>3. CASE b.type # "text"
      <4>1. WordsOf[b] = <<>> /\ Voiced("assistant")[b] = <<>>
        BY <3>1, <3>3 DEF WordsOf, Voiced
      <4>2. Mapped(k, <<>>) = <<>>
        BY DEF Mapped, S!FlattenSeq
      <4>3. QED
        BY <2>3, <3>1, <4>1, <4>2
    <3>4. QED
      BY <3>2, <3>3
  <2>8. Mapped(f, v) = Mapped(Voiced("assistant"), v)
    BY <2>7, MappedSame
  <2>9. QED
    BY <1>1, <2>2, <2>5, <2>6, <2>8
<1>7. T!FindsAll("assistant", T!Uses(d)) = Mapped(Moved, v)
  <2>1. PICK k : k = [c \in Calls |-> << <<"call", c>> >>]
    OBVIOUS
  <2>2. Makes(k, Calls, Entry) /\ \A calls \in Seq(Calls) : T!FindsAll("assistant", T!Uses(calls)) = Mapped(k, calls)
    BY <1>1, <2>1, CallsMade
  <2>3. PICK f : f = [b \in Piece |-> Mapped(k, CallOf[b])]
    OBVIOUS
  <2>4. Makes(f, Piece, Entry)
    <3>1. \A b \in Piece : CallOf[b] \in Seq(Calls)
      BY PlainMakes DEF Makes
    <3>2. \A b \in Piece : Mapped(k, CallOf[b]) \in Seq(Entry)
      BY <2>2, <3>1, MappedEach
    <3>3. QED
      BY <2>3, <3>2 DEF Makes
  <2>5. \A s \in Seq(Piece) : Mapped(k, Mapped(CallOf, s)) = Mapped(f, s)
    <3>1. \A b \in Piece : f[b] = Mapped(k, CallOf[b])
      BY <2>3
    <3>2. QED
      BY <2>2, <2>4, <3>1, PlainMakes, MappedTwice
  <2>6. d = Mapped(CallOf, v)
    BY <1>1, <1>3, EachIs
  <2>7. ASSUME NEW i \in DOMAIN v PROVE f[v[i]] = Moved[v[i]]
    <3>1. PICK b \in Piece : b = v[i] /\ b.type \in {"text", "thinking", "tool_use"}
      BY <1>5
    <3>2. CASE b.type = "tool_use"
      <4>1. PICK c \in Calls : c = b.call
        BY <3>2, PieceIs
      <4>2. CallOf[b] = <<c>>
        BY <3>2, <4>1 DEF CallOf
      <4>3. Moved[b] = << <<"call", c>> >>
        BY <3>2, <4>1 DEF Moved, T!Finds
      <4>4. Mapped(k, <<c>>) = k[c]
        BY <2>2, MappedOne
      <4>5. QED
        BY <2>1, <2>3, <3>1, <4>2, <4>3, <4>4
    <3>3. CASE b.type # "tool_use"
      <4>1. CallOf[b] = <<>> /\ Moved[b] = <<>>
        BY <3>1, <3>3 DEF CallOf, Moved
      <4>2. Mapped(k, <<>>) = <<>>
        BY DEF Mapped, S!FlattenSeq
      <4>3. QED
        BY <2>3, <3>1, <4>1, <4>2
    <3>4. QED
      BY <3>2, <3>3
  <2>8. Mapped(f, v) = Mapped(Moved, v)
    BY <2>7, MappedSame
  <2>9. QED
    BY <1>1, <2>2, <2>5, <2>6, <2>8
<1>8. QED
  BY <1>2, <1>4, <1>6, <1>7

\* A sieve of what is read takes no speech, or nothing else.
Sieve(f) == /\ Makes(f, Entry, Entry)
            /\ (\A e \in Speech : f[e] = <<>>) \/ (\A e \in Traffic : f[e] = <<>>)

\* What a sieve takes of what a block says, calls and returns.
LEMMA SieveParts ==
  ASSUME NEW f, Sieve(f), NEW who \in Readers, NEW v \in Seq(Piece)
  PROVE  Mapped(f, Mapped(Voiced(who), v) \o Mapped(Moved, v)) = Mapped(f, T!FindsAll(who, v))
<1>1. PICK a, b, g : a = Voiced(who) /\ b = Moved /\ g = Found(who)
  OBVIOUS
<1>2. Makes(f, Entry, Entry) /\ Makes(a, Piece, Entry) /\ Makes(b, Piece, Entry) /\ Makes(g, Piece, Entry)
  BY <1>1, SaysOrMoves, FoundMakes DEF Sieve
<1>3. Mapped(a, v) \in Seq(Entry) /\ Mapped(b, v) \in Seq(Entry) /\ Mapped(a, v) \in Seq(Speech) /\ Mapped(b, v) \in Seq(Traffic)
  <2>1. Makes(a, Piece, Speech) /\ Makes(b, Piece, Traffic)
    BY <1>1, SaysOrMoves
  <2>2. Mapped(a, v) \in Seq(Entry)
    BY <1>2, MappedEach
  <2>3. Mapped(b, v) \in Seq(Entry)
    BY <1>2, MappedEach
  <2>4. Mapped(a, v) \in Seq(Speech)
    BY <2>1, MappedEach
  <2>5. Mapped(b, v) \in Seq(Traffic)
    BY <2>1, MappedEach
  <2>6. QED
    BY <2>2, <2>3, <2>4, <2>5
<1>4. PICK x, y \in Seq(Entry) : x = Mapped(a, v) /\ y = Mapped(b, v)
  BY <1>3
<1>5. Mapped(f, x \o y) = Mapped(f, x) \o Mapped(f, y)
  BY <1>2, MappedBoth
<1>6. \A p \in Piece : \/ g[p] = a[p] /\ b[p] = <<>>
                       \/ g[p] = b[p] /\ a[p] = <<>>
  BY <1>1, SaysOrMoves
<1>7. Mapped(f, <<>>) = <<>>
  BY DEF Mapped, S!FlattenSeq
<1>8. PICK fa, fb, fg : /\ fa = [p \in Piece |-> Mapped(f, a[p])]
                        /\ fb = [p \in Piece |-> Mapped(f, b[p])]
                        /\ fg = [p \in Piece |-> Mapped(f, g[p])]
  OBVIOUS
<1>9. Makes(fa, Piece, Entry) /\ Makes(fb, Piece, Entry) /\ Makes(fg, Piece, Entry)
  <2>1. \A p \in Piece : a[p] \in Seq(Entry) /\ b[p] \in Seq(Entry) /\ g[p] \in Seq(Entry)
    BY <1>2 DEF Makes
  <2>2. \A p \in Piece : Mapped(f, a[p]) \in Seq(Entry) /\ Mapped(f, b[p]) \in Seq(Entry) /\ Mapped(f, g[p]) \in Seq(Entry)
    BY <1>2, <2>1, MappedEach
  <2>3. QED
    BY <1>8, <2>2 DEF Makes
<1>10. \A s \in Seq(Piece) : Mapped(f, Mapped(a, s)) = Mapped(fa, s)
  <2>1. \A p \in Piece : fa[p] = Mapped(f, a[p])
    BY <1>8
  <2>2. QED
    BY <1>2, <1>9, <2>1, MappedTwice
<1>11. \A s \in Seq(Piece) : Mapped(f, Mapped(b, s)) = Mapped(fb, s)
  <2>1. \A p \in Piece : fb[p] = Mapped(f, b[p])
    BY <1>8
  <2>2. QED
    BY <1>2, <1>9, <2>1, MappedTwice
<1>12. \A s \in Seq(Piece) : Mapped(f, Mapped(g, s)) = Mapped(fg, s)
  <2>1. \A p \in Piece : fg[p] = Mapped(f, g[p])
    BY <1>8
  <2>2. QED
    BY <1>2, <1>9, <2>1, MappedTwice
<1>13. \A i \in DOMAIN v : v[i] \in Piece
  OBVIOUS
<1>14. CASE \A e \in Speech : f[e] = <<>>
  <2>1. \A s \in Seq(Speech) : Mapped(f, s) = <<>>
    <3>1. ASSUME NEW s \in Seq(Speech) PROVE Mapped(f, s) = <<>>
      <4>1. \A i \in DOMAIN s : s[i] \in Speech
        OBVIOUS
      <4>2. \A i \in DOMAIN s : f[s[i]] = <<>>
        BY <1>14, <4>1
      <4>3. QED
        BY <4>2, MappedNone
    <3>2. QED
      BY <3>1
  <2>2. Mapped(f, x) = <<>>
    BY <1>3, <1>4, <2>1
  <2>3. \A p \in Piece : fg[p] = fb[p]
    <3>1. ASSUME NEW p \in Piece PROVE fg[p] = fb[p]
      <4>1. a[p] \in Seq(Speech)
        BY <1>1, SaysOrMoves DEF Makes
      <4>2. Mapped(f, a[p]) = <<>>
        BY <2>1, <4>1
      <4>3. QED
        BY <1>6, <1>7, <1>8, <4>2
    <3>2. QED
      BY <3>1
  <2>4. Mapped(fg, v) = Mapped(fb, v)
    BY <1>13, <2>3, MappedSame
  <2>5. Mapped(f, y) \in Seq(Entry)
    BY <1>2, MappedEach
  <2>6. <<>> \o Mapped(f, y) = Mapped(f, y)
    BY <2>5, ConcatEmptySeq
  <2>7. Mapped(f, x \o y) = Mapped(f, Mapped(g, v))
    BY <1>4, <1>5, <1>11, <1>12, <2>2, <2>4, <2>6
  <2>8. QED
    BY <1>1, <1>4, <2>7, EachIs
<1>15. CASE \A e \in Traffic : f[e] = <<>>
  <2>1. \A s \in Seq(Traffic) : Mapped(f, s) = <<>>
    <3>1. ASSUME NEW s \in Seq(Traffic) PROVE Mapped(f, s) = <<>>
      <4>1. \A i \in DOMAIN s : s[i] \in Traffic
        OBVIOUS
      <4>2. \A i \in DOMAIN s : f[s[i]] = <<>>
        BY <1>15, <4>1
      <4>3. QED
        BY <4>2, MappedNone
    <3>2. QED
      BY <3>1
  <2>2. Mapped(f, y) = <<>>
    BY <1>3, <1>4, <2>1
  <2>3. \A p \in Piece : fg[p] = fa[p]
    <3>1. ASSUME NEW p \in Piece PROVE fg[p] = fa[p]
      <4>1. b[p] \in Seq(Traffic)
        BY <1>1, SaysOrMoves DEF Makes
      <4>2. Mapped(f, b[p]) = <<>>
        BY <2>1, <4>1
      <4>3. QED
        BY <1>6, <1>7, <1>8, <4>2
    <3>2. QED
      BY <3>1
  <2>4. Mapped(fg, v) = Mapped(fa, v)
    BY <1>13, <2>3, MappedSame
  <2>5. Mapped(f, x) \in Seq(Entry)
    BY <1>2, MappedEach
  <2>6. Mapped(f, x) \o <<>> = Mapped(f, x)
    BY <2>5, ConcatEmptySeq
  <2>7. Mapped(f, x \o y) = Mapped(f, Mapped(g, v))
    BY <1>4, <1>5, <1>10, <1>12, <2>2, <2>4, <2>6
  <2>8. QED
    BY <1>1, <1>4, <2>7, EachIs
<1>16. QED
  BY <1>14, <1>15 DEF Sieve

\* A sieve takes the same of what is told of a message as of what was meant.
LEMMA MessageSieved ==
  ASSUME NEW f, Sieve(f), NEW m \in Talking
  PROVE  Mapped(f, Mapped(ReadOf, Built[Parse(m)])) = Mapped(f, T!FindsAll(m.role, m.content))
<1>1. PICK p \in CanonM : p = Parse(m) /\ p.role = m.role
  BY ParseIs
<1>2. PICK v, u \in Seq(Piece) : v = p.content /\ u = m.content
  BY <1>1, ParseIs
<1>3. PICK who \in Readers : who = m.role
  BY ParseIs DEF Readers
<1>4. Mapped(ReadOf, Built[p]) = Mapped(Voiced(who), v) \o Mapped(Moved, v)
  <2>1. CASE m.role = "user"
    <3>1. v \in Seq(OfUser)
      BY <1>1, <1>2, <2>1, ParseIs
    <3>2. Built[p] = T!UserMessages(v)
      BY <1>1, <1>2, <2>1 DEF Built, T!BuiltFlat
    <3>3. QED
      BY <1>3, <2>1, <3>1, <3>2, UserRebuilt
  <2>2. CASE m.role = "assistant"
    <3>1. v \in Seq(OfAssistant)
      BY <1>1, <1>2, <2>2, ParseIs
    <3>2. Built[p] = <<T!AssistantMessage(v)>>
      BY <1>1, <1>2, <2>2 DEF Built, T!BuiltFlat
    <3>3. QED
      BY <1>3, <2>2, <3>1, <3>2, AssistantRebuilt
  <2>3. QED
    BY <2>1, <2>2, ParseIs
<1>5. Mapped(Voiced(who), v) = Mapped(Voiced(who), u) /\ Mapped(Moved, v) = Mapped(Moved, u)
  BY <1>1, <1>2, ParseSays
<1>6. Mapped(f, Mapped(Voiced(who), u) \o Mapped(Moved, u)) = Mapped(f, T!FindsAll(who, u))
  BY SieveParts
<1>7. QED
  BY <1>1, <1>2, <1>3, <1>4, <1>5, <1>6

\* So it does of what is told of a conversation.
LEMMA RequestSieved ==
  ASSUME NEW f, Sieve(f), NEW s \in Seq(Talking)
  PROVE  /\ Mapped(ReadOf, Mapped(Built, T!ParseBlocks(s))) \in Seq(Entry)
         /\ T!Each(s, LAMBDA m : T!FindsAll(m.role, m.content)) \in Seq(Entry)
         /\ Mapped(f, Mapped(ReadOf, Mapped(Built, T!ParseBlocks(s))))
              = Mapped(f, T!Each(s, LAMBDA m : T!FindsAll(m.role, m.content)))
<1>1. PICK c \in Seq(CanonM) : /\ c = T!ParseBlocks(s) /\ DOMAIN c = DOMAIN s
                               /\ \A i \in DOMAIN s : c[i] = Parse(s[i]) /\ s[i] \in Talking
  BY ParseBlocksIs
<1>2. PICK b, r, g, k, h :
        /\ b = [m \in Talking |-> Built[Parse(m)]]
        /\ r = [m \in Talking |-> Mapped(ReadOf, Built[Parse(m)])]
        /\ g = [m \in Talking |-> T!FindsAll(m.role, m.content)]
        /\ k = [m \in Talking |-> Mapped(f, Mapped(ReadOf, Built[Parse(m)]))]
        /\ h = [m \in Talking |-> Mapped(f, T!FindsAll(m.role, m.content))]
  OBVIOUS
<1>3. Makes(f, Entry, Entry)
  BY DEF Sieve
<1>4. Makes(b, Talking, FlatM)
  <2>1. \A m \in Talking : Built[Parse(m)] \in Seq(FlatM)
    BY ParseIs, BuiltMakes DEF Makes
  <2>2. QED
    BY <1>2, <2>1 DEF Makes
<1>5. Makes(r, Talking, Entry)
  <2>1. \A m \in Talking : b[m] \in Seq(FlatM)
    BY <1>4 DEF Makes
  <2>2. \A m \in Talking : Mapped(ReadOf, b[m]) \in Seq(Entry)
    BY <2>1, ReadMakes, MappedEach
  <2>3. QED
    BY <1>2, <2>2 DEF Makes
<1>6. Makes(g, Talking, Entry)
  <2>1. \A m \in Talking : m.role \in Readers /\ m.content \in Seq(Piece)
    BY ParseIs DEF Readers
  <2>2. \A m \in Talking : T!FindsAll(m.role, m.content) \in Seq(Entry)
    BY <2>1, FindsBoth
  <2>3. QED
    BY <1>2, <2>2 DEF Makes
<1>7. Makes(k, Talking, Entry) /\ Makes(h, Talking, Entry)
  <2>1. \A m \in Talking : r[m] \in Seq(Entry) /\ g[m] \in Seq(Entry)
    BY <1>5, <1>6 DEF Makes
  <2>2. \A m \in Talking : Mapped(f, r[m]) \in Seq(Entry) /\ Mapped(f, g[m]) \in Seq(Entry)
    BY <1>3, <2>1, MappedEach
  <2>3. QED
    BY <1>2, <2>2 DEF Makes
<1>8. Mapped(Built, c) = Mapped(b, s)
  <2>1. \A i \in DOMAIN s : Built[c[i]] = b[s[i]]
    BY <1>1, <1>2
  <2>2. [i \in DOMAIN c |-> Built[c[i]]] = [i \in DOMAIN s |-> b[s[i]]]
    BY <1>1, <2>1
  <2>3. QED
    BY <2>2 DEF Mapped
<1>9. Mapped(ReadOf, Mapped(b, s)) = Mapped(r, s)
  <2>1. \A m \in Talking : r[m] = Mapped(ReadOf, b[m])
    BY <1>2
  <2>2. \A t \in Seq(Talking) : Mapped(ReadOf, Mapped(b, t)) = Mapped(r, t)
    BY <1>4, <1>5, <2>1, ReadMakes, MappedTwice
  <2>3. QED
    BY <2>2
<1>10. Mapped(f, Mapped(r, s)) = Mapped(k, s)
  <2>1. \A m \in Talking : k[m] = Mapped(f, r[m])
    BY <1>2
  <2>2. \A t \in Seq(Talking) : Mapped(f, Mapped(r, t)) = Mapped(k, t)
    BY <1>3, <1>5, <1>7, <2>1, MappedTwice
  <2>3. QED
    BY <2>2
<1>11. Mapped(f, Mapped(g, s)) = Mapped(h, s)
  <2>1. \A m \in Talking : h[m] = Mapped(f, g[m])
    BY <1>2
  <2>2. \A t \in Seq(Talking) : Mapped(f, Mapped(g, t)) = Mapped(h, t)
    BY <1>3, <1>6, <1>7, <2>1, MappedTwice
  <2>3. QED
    BY <2>2
<1>12. Mapped(k, s) = Mapped(h, s)
  <2>1. \A m \in Talking : k[m] = h[m]
    BY <1>2, MessageSieved
  <2>2. \A i \in DOMAIN s : k[s[i]] = h[s[i]]
    BY <1>1, <2>1
  <2>3. QED
    BY <2>2, MappedSame
<1>13. T!Each(s, LAMBDA m : T!FindsAll(m.role, m.content)) = Mapped(g, s)
  <2>1. \A i \in DOMAIN s : g[s[i]] = T!FindsAll(s[i].role, s[i].content)
    BY <1>1, <1>2
  <2>2. QED
    BY <2>1, SameFlatten DEF T!Each, Mapped
<1>14. Mapped(r, s) \in Seq(Entry)
  BY <1>5, MappedEach
<1>15. Mapped(g, s) \in Seq(Entry)
  BY <1>6, MappedEach
<1>16. QED
  BY <1>1, <1>8, <1>9, <1>10, <1>11, <1>12, <1>13, <1>14, <1>15

-----------------------------------------------------------------------------
(* What a reader looks for in what is read.                                *)

\* What is taken of some entries.
TakenOf(D) == [e \in Entry |-> IF e \in D THEN <<e>> ELSE <<>>]

\* It is entries.
LEMMA TakenMakes == \A D : Makes(TakenOf(D), Entry, Entry)
<1>1. ASSUME NEW D PROVE Makes(TakenOf(D), Entry, Entry)
  <2>1. \A e \in Entry : <<e>> \in Seq(Entry) /\ <<>> \in Seq(Entry)
    OBVIOUS
  <2>2. QED
    BY <2>1 DEF Makes, TakenOf
<1>2. QED
  BY <1>1

\* Only and About are what is taken.
LEMMA OnlyIs ==
  ASSUME NEW r \in Seq(Entry)
  PROVE  /\ \A kinds : T!Only(kinds, r) = Mapped(TakenOf({e \in Entry : e[1] \in kinds}), r)
         /\ \A c : T!About(c, r) = Mapped(TakenOf({e \in Entry : e[1] \in {"call", "result"} /\ e[2] = c}), r)
<1>1. \A i \in DOMAIN r : r[i] \in Entry
  OBVIOUS
<1>2. ASSUME NEW kinds PROVE T!Only(kinds, r) = Mapped(TakenOf({e \in Entry : e[1] \in kinds}), r)
  <2>1. PICK g : g = TakenOf({e \in Entry : e[1] \in kinds})
    OBVIOUS
  <2>2. \A i \in DOMAIN r : g[r[i]] = IF r[i][1] \in kinds THEN <<r[i]>> ELSE <<>>
    BY <1>1, <2>1 DEF TakenOf
  <2>3. [i \in DOMAIN r |-> g[r[i]]] = [i \in DOMAIN r |-> IF r[i][1] \in kinds THEN <<r[i]>> ELSE <<>>]
    BY <2>2
  <2>4. QED
    BY <2>1, <2>3, SameFlatten DEF T!Only, T!Those, T!Each, Mapped
<1>3. ASSUME NEW c PROVE T!About(c, r) = Mapped(TakenOf({e \in Entry : e[1] \in {"call", "result"} /\ e[2] = c}), r)
  <2>1. PICK g : g = TakenOf({e \in Entry : e[1] \in {"call", "result"} /\ e[2] = c})
    OBVIOUS
  <2>2. \A i \in DOMAIN r : g[r[i]] = IF r[i][1] \in {"call", "result"} /\ r[i][2] = c THEN <<r[i]>> ELSE <<>>
    BY <1>1, <2>1 DEF TakenOf
  <2>3. [i \in DOMAIN r |-> g[r[i]]] = [i \in DOMAIN r |-> IF r[i][1] \in {"call", "result"} /\ r[i][2] = c THEN <<r[i]>> ELSE <<>>]
    BY <2>2
  <2>4. QED
    BY <2>1, <2>3, SameFlatten DEF T!About, T!Those, T!Each, Mapped
<1>4. QED
  BY <1>2, <1>3

\* Speech and traffic are told apart by their first part.
LEMMA EntryKinds ==
  /\ \A e \in Speech : e \in Entry /\ e[1] \in Readers /\ e[1] \notin {"call", "result"}
  /\ \A e \in Traffic : e \in Entry /\ e[1] \in {"call", "result"}
<1>1. ASSUME NEW e \in Speech PROVE e \in Entry /\ e[1] \in Readers /\ e[1] \notin {"call", "result"}
  BY DEF Speech, Entry, Readers
<1>2. ASSUME NEW e \in Traffic PROVE e \in Entry /\ e[1] \in {"call", "result"}
  <2>1. CASE e \in {"call"} \X Calls
    BY <2>1 DEF Entry
  <2>2. CASE e \in {"result"} \X Calls \X Seq({Word})
    BY <2>2 DEF Entry
  <2>3. QED
    BY <2>1, <2>2 DEF Traffic
<1>3. QED
  BY <1>1, <1>2

\* They are sieves.
LEMMA SievesAre ==
  /\ \A kinds \in { {"call"}, {"result"}, {"instruction", "user", "assistant"} } :
       Sieve(TakenOf({e \in Entry : e[1] \in kinds}))
  /\ \A c : Sieve(TakenOf({e \in Entry : e[1] \in {"call", "result"} /\ e[2] = c}))
<1>1. ASSUME NEW kinds \in { {"call"}, {"result"}, {"instruction", "user", "assistant"} }
      PROVE  Sieve(TakenOf({e \in Entry : e[1] \in kinds}))
  <2>1. PICK f : f = TakenOf({e \in Entry : e[1] \in kinds})
    OBVIOUS
  <2>2. \A e \in Entry : e[1] \notin kinds => f[e] = <<>>
    BY <2>1 DEF TakenOf
  <2>3. CASE kinds = {"instruction", "user", "assistant"}
    <3>1. \A e \in Traffic : f[e] = <<>>
      BY <2>2, <2>3, EntryKinds
    <3>2. QED
      BY <2>1, <3>1, TakenMakes DEF Sieve
  <2>4. CASE kinds \in { {"call"}, {"result"} }
    <3>1. \A e \in Speech : f[e] = <<>>
      BY <2>2, <2>4, EntryKinds
    <3>2. QED
      BY <2>1, <3>1, TakenMakes DEF Sieve
  <2>5. QED
    BY <2>3, <2>4
<1>2. ASSUME NEW c PROVE Sieve(TakenOf({e \in Entry : e[1] \in {"call", "result"} /\ e[2] = c}))
  <2>1. PICK f : f = TakenOf({e \in Entry : e[1] \in {"call", "result"} /\ e[2] = c})
    OBVIOUS
  <2>2. \A e \in Entry : e[1] \notin {"call", "result"} => f[e] = <<>>
    BY <2>1 DEF TakenOf
  <2>3. \A e \in Speech : f[e] = <<>>
    BY <2>2, EntryKinds
  <2>4. QED
    BY <2>1, <2>3, TakenMakes DEF Sieve
<1>3. QED
  BY <1>1, <1>2

\* The system prompts a client of Anthropic sends.
Prompts == {<<>>, <<T!Text(T!SomeWords)>>}

\* A prompt is told as one message, which says what it says.
LEMMA PromptTold ==
  ASSUME NEW p \in Prompts
  PROVE  \E x \in Seq(FlatM) :
           /\ x = (IF T!Words(p) = <<>> THEN <<>> ELSE <<T!Say("system", <<T!Text(T!Words(p))>>)>>)
           /\ Mapped(ReadOf, x) = T!FindsAll("instruction", p) /\ p \in Seq(Texts) /\ p \in Seq(Piece)
           /\ Mapped(ReadOf, x) \in Seq(Entry)
<1>1. PICK w \in Seq({Word}) : w = T!SomeWords /\ w # <<>>
  <2>1. T!SomeWords = <<Word>>
    BY DEF T!SomeWords
  <2>2. <<Word>> \in Seq({Word}) /\ <<Word>> # <<>>
    OBVIOUS
  <2>3. QED
    BY <2>1, <2>2
<1>2. PICK q : q = <<T!Text(w)>>
  OBVIOUS
<1>3. q \in Seq(Texts) /\ q \in Seq(Piece) /\ q \in Seq(Parts) /\ T!Words(q) = w
  BY <1>2, TextIs, SidesWiden
<1>4. "instruction" \in Readers
  BY DEF Readers
<1>5. PICK x : x = (IF T!Words(p) = <<>> THEN <<>> ELSE <<T!Say("system", <<T!Text(T!Words(p))>>)>>)
  OBVIOUS
<1>6. CASE p = <<>>
  <2>1. PICK e : e = <<>>
    OBVIOUS
  <2>2. e \in Seq(Piece) /\ e \in Seq(Texts) /\ e \in Seq(FlatM) /\ e \in Seq(Entry)
    BY <2>1
  <2>3. T!Words(e) = <<>>
    <3>1. T!Words(e) = Mapped(WordsOf, e)
      BY <2>2, EachIs
    <3>2. Mapped(WordsOf, <<>>) = <<>>
      BY DEF Mapped, S!FlattenSeq
    <3>3. QED
      BY <2>1, <3>1, <3>2
  <2>4. x = e
    BY <1>5, <1>6, <2>1, <2>3
  <2>5. Mapped(ReadOf, e) = e
    BY <2>1 DEF Mapped, S!FlattenSeq
  <2>6. T!FindsAll("instruction", e) = e
    BY <1>4, <2>1, FindsOne, KindsAre, SidesAre DEF T!FindsAll, T!Each, T!FlattenSeq
  <2>7. QED
    BY <1>5, <1>6, <2>1, <2>2, <2>4, <2>5, <2>6
<1>7. CASE p = q
  <2>1. PICK m : m = T!Say("system", q)
    OBVIOUS
  <2>2. m \in FlatM /\ m.role = "system" /\ m.content = q
    <3>1. PICK e : e = <<>>
      OBVIOUS
    <3>2. e \in Seq(Calls) /\ m = T!Flat("system", q, e, e) /\ "system" \in FlatRoles
      BY <2>1, <3>1 DEF T!Say, FlatRoles
    <3>3. QED
      BY <1>3, <3>2, FlatIs
  <2>3. x = <<m>> /\ x \in Seq(FlatM)
    BY <1>1, <1>2, <1>3, <1>5, <1>7, <2>1, <2>2
  <2>4. ReadOf[m] = T!FindsAll("instruction", q)
    BY <2>2 DEF ReadOf, T!ReadFlat
  <2>5. Mapped(ReadOf, x) = T!FindsAll("instruction", q)
    BY <2>2, <2>3, <2>4, ReadMakes, MappedOne
  <2>6. T!FindsAll("instruction", q) \in Seq(Entry)
    BY <1>3, <1>4, FindsBoth
  <2>7. QED
    BY <1>3, <1>5, <1>7, <2>3, <2>5, <2>6
<1>8. QED
  BY <1>1, <1>2, <1>6, <1>7 DEF Prompts

\* Of a request of Anthropic that is built for OpenAI, what a sieve takes is what was meant.
LEMMA RebuiltSieved ==
  ASSUME NEW p \in Prompts, NEW s \in Seq(Talking)
  PROVE  LET received == T!ReadsFlat(T!BuildFlat(p, T!ParseBlocks(s)))
             meant    == T!ReadsBlocks(p, s)
         IN /\ received \in Seq(Entry) /\ meant \in Seq(Entry)
            /\ \A f : Sieve(f) => Mapped(f, received) = Mapped(f, meant)
<1>1. PICK x \in Seq(FlatM) :
        /\ x = (IF T!Words(p) = <<>> THEN <<>> ELSE <<T!Say("system", <<T!Text(T!Words(p))>>)>>)
        /\ Mapped(ReadOf, x) = T!FindsAll("instruction", p) /\ Mapped(ReadOf, x) \in Seq(Entry)
  BY PromptTold
<1>2. PICK c \in Seq(CanonM) : c = T!ParseBlocks(s)
  BY ParseBlocksIs
<1>3. PICK b \in Seq(FlatM) : b = Mapped(Built, c)
  BY BuiltMakes, MappedEach
<1>4. PICK whole \in Seq(FlatM) : whole = x \o b /\ whole = T!BuildFlat(p, c)
  <2>1. x \o b \in Seq(FlatM)
    OBVIOUS
  <2>2. T!BuildFlat(p, c) = x \o b
    BY <1>1, <1>3, BuildIs
  <2>3. QED
    BY <2>1, <2>2
<1>5. T!ReadsFlat(whole) = Mapped(ReadOf, x) \o Mapped(ReadOf, b) /\ T!ReadsFlat(whole) \in Seq(Entry)
  <2>1. Mapped(ReadOf, x \o b) = Mapped(ReadOf, x) \o Mapped(ReadOf, b)
    BY ReadMakes, MappedBoth
  <2>2. T!ReadsFlat(whole) = Mapped(ReadOf, whole) /\ T!ReadsFlat(whole) \in Seq(Entry)
    BY ReadsIs
  <2>3. QED
    BY <1>4, <2>1, <2>2
<1>6. PICK y, z, t \in Seq(Entry) : /\ y = Mapped(ReadOf, x) /\ z = Mapped(ReadOf, b)
                                    /\ t = T!Each(s, LAMBDA m : T!FindsAll(m.role, m.content))
  <2>1. PICK e : e = {"call"}
    OBVIOUS
  <2>2. PICK f : Sieve(f)
    BY SievesAre
  <2>3. QED
    BY <1>1, <1>2, <1>3, <2>2, RequestSieved
<1>7. T!ReadsBlocks(p, s) = y \o t /\ y \o t \in Seq(Entry)
  BY <1>1, <1>6 DEF T!ReadsBlocks
<1>8. ASSUME NEW f, Sieve(f) PROVE Mapped(f, T!ReadsFlat(whole)) = Mapped(f, T!ReadsBlocks(p, s))
  <2>1. Makes(f, Entry, Entry)
    BY <1>8 DEF Sieve
  <2>2. Mapped(f, y \o z) = Mapped(f, y) \o Mapped(f, z)
    BY <2>1, MappedBoth
  <2>3. Mapped(f, y \o t) = Mapped(f, y) \o Mapped(f, t)
    BY <2>1, MappedBoth
  <2>4. Mapped(f, z) = Mapped(f, t)
    BY <1>2, <1>3, <1>6, <1>8, RequestSieved
  <2>5. QED
    BY <1>5, <1>6, <1>7, <2>2, <2>3, <2>4
<1>9. QED
  BY <1>2, <1>4, <1>5, <1>7, <1>8

\* Its calls, its results, what is said and what is about a call are in their order.
LEMMA PairedTold ==
  ASSUME NEW p \in Prompts, NEW s \in Seq(Talking)
  PROVE  LET received == T!ReadsFlat(T!BuildFlat(p, T!ParseBlocks(s)))
             meant    == T!ReadsBlocks(p, s)
         IN /\ \A kinds \in { {"call"}, {"result"}, {"instruction", "user", "assistant"} } :
                 T!Only(kinds, received) = T!Only(kinds, meant)
            /\ \A c \in Calls : T!About(c, received) = T!About(c, meant)
<1>1. PICK r, t \in Seq(Entry) : /\ r = T!ReadsFlat(T!BuildFlat(p, T!ParseBlocks(s))) /\ t = T!ReadsBlocks(p, s)
                                 /\ \A f : Sieve(f) => Mapped(f, r) = Mapped(f, t)
  BY RebuiltSieved
<1>2. ASSUME NEW kinds \in { {"call"}, {"result"}, {"instruction", "user", "assistant"} }
      PROVE  T!Only(kinds, r) = T!Only(kinds, t)
  <2>1. PICK f : f = TakenOf({e \in Entry : e[1] \in kinds})
    OBVIOUS
  <2>2. Sieve(f)
    BY <2>1, SievesAre
  <2>3. QED
    BY <1>1, <2>1, <2>2, OnlyIs
<1>3. ASSUME NEW c \in Calls PROVE T!About(c, r) = T!About(c, t)
  <2>1. PICK f : f = TakenOf({e \in Entry : e[1] \in {"call", "result"} /\ e[2] = c})
    OBVIOUS
  <2>2. Sieve(f)
    BY <2>1, SievesAre
  <2>3. QED
    BY <1>1, <2>1, <2>2, OnlyIs
<1>4. QED
  BY <1>1, <1>2, <1>3

-----------------------------------------------------------------------------
(* Answers.                                                                *)

\* A client is told to run tools, or that the answer was cut short, as the provider said.
LEMMA FinishTold ==
  ASSUME NEW to \in T!Formats,
         NEW finish \in {"stop", "length", "tool_calls", "content_filter",
                         "end_turn", "max_tokens", "tool_use", "stop_sequence"}
  PROVE  LET known == T!FinishOf(to, T!Reason(finish)) IN
         /\ known \in {"tool_calls", "tool_use"} <=> finish \in {"tool_calls", "tool_use"}
         /\ known \in {"length", "max_tokens"} <=> finish \in {"length", "max_tokens"}
<1>1. PICK reason : reason = T!Reason(finish)
  OBVIOUS
<1>2. \/ finish \in {"stop", "end_turn"} /\ reason = "end_turn"
      \/ finish \in {"length", "max_tokens"} /\ reason = "max_tokens"
      \/ finish \in {"tool_calls", "tool_use"} /\ reason = "tool_use"
      \/ finish = "stop_sequence" /\ reason = "stop"
      \/ finish = "content_filter" /\ reason = "error"
  BY <1>1 DEF T!Reason
<1>3. PICK known : known = T!FinishOf(to, reason)
  OBVIOUS
<1>4. CASE to = "openai"
  BY <1>1, <1>2, <1>3, <1>4 DEF T!FinishOf
<1>5. CASE to = "anthropic"
  BY <1>1, <1>2, <1>3, <1>5 DEF T!FinishOf
<1>6. QED
  BY <1>4, <1>5 DEF T!Formats

\* Up to n of some are a sequence of them.
LEMMA UpToIs ==
  ASSUME NEW n \in Nat, NEW D, NEW A, \A x \in D : x \in A, NEW p \in T!UpTo(n, D)
  PROVE  p \in Seq(A)
<1>1. PICK k \in 0 .. n : p \in [1 .. k -> D]
  BY DEF T!UpTo
<1>2. k \in Nat /\ p \in [1 .. k -> A]
  BY <1>1
<1>3. QED
  BY <1>2, IsASeq

\* The words of a provider's answer and its calls are those of the blocks it is parsed to.
LEMMA AnswerParsed ==
  ASSUME tongue \in T!Formats, NEW a \in T!Answers
  PROVE  \E s \in Seq(Piece), w \in Seq({Word}), calls \in Seq(Calls) :
           /\ s = T!ParseAnswer(a) /\ w = T!Words(s) /\ calls = T!CallsOf(s)
           /\ w = T!Words(a.content) /\ calls = T!AnswerCalls(tongue, a)
           /\ a.finish \in {"stop", "length", "tool_calls", "content_filter",
                            "end_turn", "max_tokens", "tool_use", "stop_sequence"}
<1>1. CASE tongue = "openai"
  <2>1. /\ a.content \in Prompts /\ a.calls \in T!UpTo(2, Calls)
        /\ a.finish \in {"stop", "length", "tool_calls", "content_filter"}
    BY <1>1 DEF T!Answers, Prompts
  <2>2. PICK calls \in Seq(Calls) : calls = a.calls
    BY <2>1, UpToIs
  <2>3. PICK u \in Seq(Piece) : u = a.content
    BY <2>1, PromptTold
  <2>4. PICK w \in Seq({Word}) : w = T!Words(u)
    BY WordsAre
  <2>5. PICK s \in Seq(Piece) : s = T!TextOrNone(w) \o T!Uses(calls) /\ T!Words(s) = w /\ T!CallsOf(s) = calls
    BY TextAndUses
  <2>6. s = T!ParseAnswer(a)
    BY <1>1, <2>2, <2>3, <2>4, <2>5 DEF T!ParseAnswer
  <2>7. calls = T!AnswerCalls(tongue, a)
    BY <1>1, <2>2 DEF T!AnswerCalls
  <2>8. QED
    BY <2>1, <2>3, <2>4, <2>5, <2>6, <2>7
<1>2. CASE tongue = "anthropic"
  <2>1. /\ a.content \in T!UpTo(3, T!AssistantBlocks)
        /\ a.finish \in {"end_turn", "max_tokens", "tool_use", "stop_sequence"}
    BY <1>2 DEF T!Answers
  <2>2. \A b \in T!AssistantBlocks : b \in OfAssistant
    <3>1. T!SomeWords \in Seq({Word})
      BY DEF T!SomeWords
    <3>2. T!Text(T!SomeWords) \in Texts
      BY <3>1, TextIs
    <3>3. QED
      BY <3>2 DEF T!AssistantBlocks, OfAssistant, Uses
  <2>3. PICK s \in Seq(OfAssistant) : s = a.content
    BY <2>1, <2>2, UpToIs
  <2>4. s \in Seq(Piece)
    BY SidesWiden
  <2>5. s = T!ParseAnswer(a)
    <3>1. \A i \in DOMAIN s : T!Block(s[i]) = s[i]
      BY BlockIs
    <3>2. [i \in DOMAIN s |-> T!Block(s[i])] = s
      BY <3>1
    <3>3. T!Blocks(s) = s
      BY <3>2 DEF T!Blocks
    <3>4. QED
      BY <1>2, <2>3, <3>3 DEF T!ParseAnswer
  <2>6. PICK w \in Seq({Word}), calls \in Seq(Calls) : w = T!Words(s) /\ calls = T!CallsOf(s)
    BY <2>4, WordsAre
  <2>7. calls = T!AnswerCalls(tongue, a)
    BY <1>2, <2>3, <2>6 DEF T!AnswerCalls
  <2>8. QED
    BY <2>1, <2>3, <2>4, <2>5, <2>6, <2>7
<1>3. QED
  BY <1>1, <1>2 DEF T!Formats

\* What is built of those blocks has the same.
LEMMA AnswerBuilt ==
  ASSUME NEW to \in T!Formats, NEW s \in Seq(Piece), NEW reason
  PROVE  LET b == T!BuildAnswer(to, s, reason) IN
         /\ T!Words(b.content) = T!Words(s) /\ T!AnswerCalls(to, b) = T!CallsOf(s)
         /\ b.finish = T!FinishOf(to, reason)
<1>1. PICK w \in Seq({Word}) : w = T!Words(s)
  BY WordsAre
<1>2. T!Words(T!TextOrNone(w)) = w
  BY TextIs
<1>3. PICK b : b = T!BuildAnswer(to, s, reason)
  OBVIOUS
<1>4. CASE to = "openai"
  <2>1. b = [content |-> T!TextOrNone(w), calls |-> T!CallsOf(s), finish |-> T!FinishOf(to, reason)]
    BY <1>1, <1>3, <1>4 DEF T!BuildAnswer
  <2>2. b.content = T!TextOrNone(w) /\ b.calls = T!CallsOf(s) /\ b.finish = T!FinishOf(to, reason)
    BY <2>1
  <2>3. T!AnswerCalls(to, b) = T!CallsOf(s)
    BY <1>4, <2>2 DEF T!AnswerCalls
  <2>4. QED
    BY <1>1, <1>2, <1>3, <2>2, <2>3
<1>5. CASE to = "anthropic"
  <2>1. b = [content |-> s, finish |-> T!FinishOf(to, reason)]
    BY <1>3, <1>5 DEF T!BuildAnswer
  <2>2. b.content = s /\ b.finish = T!FinishOf(to, reason)
    BY <2>1
  <2>3. T!AnswerCalls(to, b) = T!CallsOf(s)
    BY <1>5, <2>2 DEF T!AnswerCalls
  <2>4. QED
    BY <1>3, <2>2, <2>3
<1>6. QED
  BY <1>4, <1>5 DEF T!Formats

\* A provider's answer is told with its words, its calls and its reason.
LEMMA AnswerTold ==
  ASSUME tongue \in T!Formats, NEW to \in T!Formats, T!Answer(to)
  PROVE  T!ConversationKept'
<1>1. tongue' = tongue /\ said' = said /\ system' = system
  BY DEF T!Answer
<1>2. PICK a \in T!Answers :
        told' = [kind |-> "answer", to |-> to, of |-> a,
                 answer |-> T!BuildAnswer(to, T!ParseAnswer(a), T!Reason(a.finish))]
  BY DEF T!Answer
<1>3. PICK s \in Seq(Piece), w \in Seq({Word}), calls \in Seq(Calls) :
        /\ s = T!ParseAnswer(a) /\ w = T!Words(s) /\ calls = T!CallsOf(s)
        /\ w = T!Words(a.content) /\ calls = T!AnswerCalls(tongue, a)
        /\ a.finish \in {"stop", "length", "tool_calls", "content_filter",
                         "end_turn", "max_tokens", "tool_use", "stop_sequence"}
  BY AnswerParsed
<1>4. PICK b : b = T!BuildAnswer(to, s, T!Reason(a.finish))
  OBVIOUS
<1>5. /\ T!Words(b.content) = w /\ T!AnswerCalls(to, b) = calls
      /\ b.finish = T!FinishOf(to, T!Reason(a.finish))
  BY <1>3, <1>4, AnswerBuilt
<1>6. told' = [kind |-> "answer", to |-> to, of |-> a, answer |-> b]
  BY <1>2, <1>3, <1>4
<1>7. told'.kind = "answer" /\ told'.to = to /\ told'.of = a /\ told'.answer = b
  BY <1>6
<1>8. /\ b.finish \in {"tool_calls", "tool_use"} <=> a.finish \in {"tool_calls", "tool_use"}
      /\ b.finish \in {"length", "max_tokens"} <=> a.finish \in {"length", "max_tokens"}
  BY <1>3, <1>5, FinishTold
<1>9. T!AnswerKept'
  BY <1>1, <1>3, <1>5, <1>7, <1>8 DEF T!AnswerKept
<1>10. T!OrderOrRefused' /\ T!ToolsPaired'
  BY <1>7 DEF T!OrderOrRefused, T!ToolsPaired, T!Forwarded
<1>11. QED
  BY <1>9, <1>10 DEF T!ConversationKept

-----------------------------------------------------------------------------
(* Requests.                                                               *)

\* What a client may say, as long as nothing is told.
MayBeSaid ==
  /\ tongue \in T!Formats
  /\ tongue = "openai" => system = <<>> /\ said \in Seq(T!FlatMessages)
  /\ tongue = "anthropic" => system \in Prompts /\ said \in Seq(Talking)

\* A client of OpenAI, told to a channel of Anthropic, unless it is refused,
LEMMA OpenAIOrdered ==
  ASSUME MayBeSaid, tongue = "openai", T!Forward("anthropic")
  PROVE  T!ConversationKept'
<1>1. PICK c : c = T!ParseFlat(said) /\ Faithful(said, c)
  BY RequestsFaithful DEF MayBeSaid
<1>2. tongue' = "openai" /\ said' = said /\ system' = system
  BY DEF T!Forward
<1>3. CASE ~T!InstructionsInOrder(c)
  <2>1. told' = [kind |-> "refused"]
    BY <1>1, <1>3 DEF T!Forward, MayBeSaid
  <2>2. told'.kind = "refused"
    BY <2>1
  <2>3. \E i, j \in DOMAIN said : i < j /\ ~Instructs(said[i]) /\ Instructs(said[j])
    BY <1>1, <1>3 DEF Faithful
  <2>4. T!OrderOrRefused'
    BY <1>2, <2>2, <2>3 DEF T!OrderOrRefused, T!Forwarded, Instructs
  <2>5. QED
    BY <2>2, <2>4 DEF T!ConversationKept, T!ToolsPaired, T!AnswerKept, T!Forwarded
<1>4. CASE T!InstructionsInOrder(c)
  <2>1. PICK b, t : b = T!BuildSystem(<<>>, c) /\ t = T!Those(c, T!Conversation)
    OBVIOUS
  <2>2. told' = [kind |-> "request", to |-> "anthropic", system |-> b, messages |-> t]
    BY <1>1, <1>4, <2>1 DEF T!Forward, T!BuildBlocks, MayBeSaid
  <2>3. told'.kind = "request" /\ told'.to = "anthropic" /\ told'.system = b /\ told'.messages = t
    BY <2>2
  <2>4. T!ReadsBlocks(b, t) = Mapped(Instructed, c) \o Mapped(Spoken, c)
    BY <1>1, <2>1, HeardIs DEF Faithful
  <2>5. Mapped(Instructed, c) \o Mapped(Spoken, c) = Mapped(ReadOf, said)
    BY <1>1, <1>4 DEF Faithful
  <2>6. said \in Seq(FlatM)
    <3>1. \A m \in T!FlatMessages : m \in FlatM
      BY FlatMessageIs
    <3>2. said \in Seq(T!FlatMessages)
      BY DEF MayBeSaid
    <3>3. QED
      BY <3>1, <3>2, Widened
  <2>7. Mapped(ReadOf, said) = T!ReadsFlat(said)
    BY <2>6, ReadsIs
  <2>8. T!Received' = T!Meant'
    BY <1>2, <2>3, <2>4, <2>5, <2>7 DEF T!Received, T!Meant
  <2>9. T!OrderOrRefused'
    BY <2>3, <2>8 DEF T!OrderOrRefused
  <2>10. QED
    BY <1>2, <2>3, <2>9 DEF T!ConversationKept, T!ToolsPaired, T!AnswerKept, T!Forwarded
<1>5. QED
  BY <1>3, <1>4

\* or one of Anthropic, told to a channel of OpenAI.
LEMMA AnthropicPaired ==
  ASSUME MayBeSaid, tongue = "anthropic", T!Forward("openai")
  PROVE  T!ConversationKept'
<1>1. system \in Prompts /\ said \in Seq(Talking)
  BY DEF MayBeSaid
<1>2. tongue' = "anthropic" /\ said' = said /\ system' = system
  BY DEF T!Forward
<1>3. PICK flat : flat = T!BuildFlat(system, T!ParseBlocks(said))
  OBVIOUS
<1>4. told' = [kind |-> "request", to |-> "openai", system |-> <<>>, messages |-> flat]
  BY <1>3 DEF T!Forward
<1>5. told'.kind = "request" /\ told'.to = "openai" /\ told'.messages = flat
  BY <1>4
<1>6. PICK received, meant : received = T!ReadsFlat(flat) /\ meant = T!ReadsBlocks(system, said)
  OBVIOUS
<1>7. /\ \A kinds \in { {"call"}, {"result"}, {"instruction", "user", "assistant"} } :
           T!Only(kinds, received) = T!Only(kinds, meant)
      /\ \A c \in Calls : T!About(c, received) = T!About(c, meant)
  BY <1>1, <1>3, <1>6, PairedTold
<1>8. T!Received' = received /\ T!Meant' = meant
  BY <1>2, <1>5, <1>6 DEF T!Received, T!Meant
<1>9. T!ToolsPaired'
  BY <1>7, <1>8 DEF T!ToolsPaired
<1>10. QED
  BY <1>2, <1>5, <1>9 DEF T!ConversationKept, T!OrderOrRefused, T!AnswerKept, T!Forwarded

-----------------------------------------------------------------------------
(* The invariant.                                                          *)

\* Nothing is told yet of what may be said, or what is told is what was said.
ConversationInv == (told = T!Nothing => MayBeSaid) /\ T!ConversationKept

\* It holds before anything is said,
LEMMA InitConversation ==
  ASSUME T!Init
  PROVE  ConversationInv
<1>1. told.kind = "nothing" /\ told = T!Nothing
  BY DEF T!Init, T!Nothing
<1>2. MayBeSaid
  <2>1. PICK e : e = <<>>
    OBVIOUS
  <2>2. e \in Seq(T!FlatMessages) /\ e \in Seq(Talking)
    BY <2>1
  <2>3. QED
    BY <2>1, <2>2 DEF T!Init, MayBeSaid, Prompts
<1>3. T!ConversationKept
  BY <1>1 DEF T!ConversationKept, T!OrderOrRefused, T!ToolsPaired, T!AnswerKept, T!Forwarded
<1>4. QED
  BY <1>2, <1>3 DEF ConversationInv

\* after one thing more is said,
LEMMA ContinueConversation ==
  ASSUME ConversationInv, T!Continue
  PROVE  ConversationInv'
<1>1. told = T!Nothing /\ told' = told /\ tongue' = tongue /\ system' = system /\ MayBeSaid
  BY DEF T!Continue, ConversationInv
<1>2. PICK m \in IF tongue = "openai" THEN T!FlatMessages ELSE T!BlockMessages : said' = Append(said, m)
  BY DEF T!Continue
<1>3. MayBeSaid'
  <2>1. tongue = "openai" => said' \in Seq(T!FlatMessages)
    BY <1>1, <1>2 DEF MayBeSaid
  <2>2. tongue = "anthropic" => said' \in Seq(Talking)
    BY <1>1, <1>2, BlockMessageIs DEF MayBeSaid
  <2>3. QED
    BY <1>1, <2>1, <2>2 DEF MayBeSaid
<1>4. told'.kind = "nothing"
  BY <1>1 DEF T!Nothing
<1>5. T!ConversationKept'
  BY <1>4 DEF T!ConversationKept, T!OrderOrRefused, T!ToolsPaired, T!AnswerKept, T!Forwarded
<1>6. QED
  BY <1>3, <1>5 DEF ConversationInv

\* and in every step.
LEMMA NextConversation ==
  ASSUME ConversationInv, [T!Next]_(T!vars)
  PROVE  ConversationInv'
<1>1. CASE UNCHANGED T!vars
  <2>1. tongue' = tongue /\ system' = system /\ said' = said /\ told' = told
    BY <1>1 DEF T!vars
  <2>2. MayBeSaid' <=> MayBeSaid
    BY <2>1 DEF MayBeSaid
  <2>3. T!ConversationKept' <=> T!ConversationKept
    BY <2>1 DEF T!ConversationKept, T!OrderOrRefused, T!ToolsPaired, T!AnswerKept, T!Forwarded,
       T!Received, T!Meant
  <2>4. QED
    BY <2>1, <2>2, <2>3 DEF ConversationInv
<1>2. CASE T!Continue
  BY <1>2, ContinueConversation
<1>3. ASSUME NEW to \in T!Formats, T!Forward(to) PROVE ConversationInv'
  <2>1. told = T!Nothing /\ MayBeSaid
    BY <1>3 DEF T!Forward, ConversationInv
  <2>2. told'.kind \in {"request", "refused"}
    BY <1>3 DEF T!Forward
  <2>3. told' # T!Nothing
    BY <2>2 DEF T!Nothing
  <2>4. T!ConversationKept'
    <3>1. /\ tongue = "openai" => to = "anthropic"
          /\ tongue = "anthropic" => to = "openai"
      BY <1>3 DEF T!Forward, T!Formats
    <3>2. tongue \in {"openai", "anthropic"}
      BY <2>1 DEF MayBeSaid, T!Formats
    <3>3. QED
      BY <1>3, <2>1, <3>1, <3>2, OpenAIOrdered, AnthropicPaired
  <2>5. QED
    BY <2>3, <2>4 DEF ConversationInv
<1>4. ASSUME NEW to \in T!Formats, T!Answer(to) PROVE ConversationInv'
  <2>1. told = T!Nothing /\ MayBeSaid
    BY <1>4 DEF T!Answer, ConversationInv
  <2>2. told'.kind = "answer"
    BY <1>4 DEF T!Answer
  <2>3. told' # T!Nothing
    BY <2>2 DEF T!Nothing
  <2>4. T!ConversationKept'
    BY <1>4, <2>1, AnswerTold DEF MayBeSaid
  <2>5. QED
    BY <2>3, <2>4 DEF ConversationInv
<1>5. QED
  BY <1>1, <1>2, <1>3, <1>4 DEF T!Next

\* The other parts leave what is said alone.
LEMMA ConversationRests ==
  ASSUME ExchangeNext
  PROVE  [T!Next]_(T!vars)
<1>1. messageVars' = messageVars => UNCHANGED T!vars
  BY DEF messageVars, T!vars
<1>2. QED
  BY <1>1 DEF ExchangeNext, Streams, Converts, Reads, Sends

\* Whatever is said in one format, in whatever order and however much of it: what the other side is
\* told is what was said as far as the pair of formats allows, and a request is refused only where
\* an instruction comes too late (ParseRequest, BuildRequest, ParseResponse and BuildResponse of both
\* adapters).
THEOREM ConversationsKept == ExchangeSpec => []ConversationKept
<1>1. ExchangeInit => ConversationInv
  BY InitConversation DEF ExchangeInit
<1>2. ConversationInv /\ [ExchangeNext]_allVars => ConversationInv'
  <2>1. ExchangeNext => [T!Next]_(T!vars)
    BY ConversationRests
  <2>2. UNCHANGED allVars => UNCHANGED T!vars
    BY DEF allVars, messageVars, T!vars
  <2>3. QED
    BY <2>1, <2>2, NextConversation
<1>3. ConversationInv => ConversationKept
  BY DEF ConversationInv, ConversationKept
<1>4. QED
  BY <1>1, <1>2, <1>3, PTL DEF ExchangeSpec
=============================================================================

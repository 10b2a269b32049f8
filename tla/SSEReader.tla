----------------------------- MODULE SSEReader ------------------------------
(***************************************************************************)
(* Reading what a provider answers (src/internal/forwarder/upstream.go):   *)
(* a stream is cut into records at empty lines, lines end with LF, CRLF or *)
(* a bare CR, a byte order mark at the beginning is dropped, and a record  *)
(* has a largest size.  Bytes arrive one by one, are taken into a buffer   *)
(* under a timer, and the stream ends, breaks off or falls silent at any   *)
(* point.  A body that is not a stream is read as a whole, up to a size.   *)
(*                                                                         *)
(* A byte of text is known by its place in the feed, so that a lost, a     *)
(* repeated and a displaced one can be told apart.                         *)
(***************************************************************************)
EXTENDS Naturals, Sequences, SequencesExt, FiniteSets

CONSTANTS MaxSize,  \* maxSSERecordBytes, or maxUpstreamResponseBytes of a whole body
          MaxFeed   \* bound: bytes of a response

\* What the theorems assume of the constants.
ConstantsOK == MaxSize \in Nat \ {0}

VARIABLES kind,     \* "stream" or "whole", as the request asked
          feed,     \* the bytes of the response: text, "mark" (the byte order mark), "lf", "cr"
          arrived,  \* how many of them came over the network
          ending,   \* "open", "eof" or "broken": what follows them
          fetched,  \* how many are past idleReadCloser, in the buffer of the reader
          failed,   \* the error that follows them: "no", "eof", "broken" or "idle"
          pos,      \* how many ReadByte took
          peeking,  \* a CR was read, the next byte decides whether an LF belongs to it
          line,     \* readLine's line
          buf,      \* sseReader.buf, as lines
          first,    \* sseReader.firstLine
          out,      \* the records Next returned
          ended     \* the error Next returned; the caller stops there

source == <<kind, feed, arrived, ending>>
reader == <<pos, peeking, line, buf, first, out, ended>>
vars   == <<source, fetched, failed, reader>>

Feeds == { s \in UNION { [1 .. n -> {"text", "mark", "lf", "cr"}] : n \in 0 .. MaxFeed } :
             \A i \in DOMAIN s : s[i] = "mark" => i = 1 }

Init == /\ kind \in {"stream", "whole"} /\ feed \in Feeds
        /\ arrived = 0 /\ ending = "open"
        /\ fetched = 0 /\ failed = "no"
        /\ pos = 0 /\ peeking = FALSE /\ line = <<>> /\ buf = <<>> /\ first = TRUE
        /\ out = <<>> /\ ended = "no"

-----------------------------------------------------------------------------
(* The network, and the timer around a read.                               *)

Arrive == /\ arrived < Len(feed)
          /\ arrived' = arrived + 1
          /\ UNCHANGED <<kind, feed, ending, fetched, failed, reader>>

\* The provider closes, or the connection breaks.
End == /\ arrived = Len(feed) /\ ending = "open"
       /\ ending' \in {"eof", "broken"}
       /\ UNCHANGED <<kind, feed, arrived, fetched, failed, reader>>

\* Mutant: a read that the timer overtook returns nothing.
ReadDropping ==
  /\ kind = "stream" /\ ended = "no" /\ pos = fetched /\ failed = "no"
  /\ \/ arrived > fetched /\ fetched' = arrived /\ failed' = "no" /\ UNCHANGED pos
     \/ fetched' = arrived /\ failed' = "idle" /\ pos' = arrived
     \/ arrived = fetched /\ ending # "open" /\ failed' = ending /\ UNCHANGED <<fetched, pos>>
  /\ UNCHANGED <<source, peeking, line, buf, first, out, ended>>

\* idleReadCloser.Read, called when the buffer is empty: what has arrived, or the error
\* behind it.  Two minutes of silence close the body; a timer that fires when bytes have
\* come is told with them.
Read ==
  /\ kind = "stream" /\ ended = "no" /\ pos = fetched /\ failed = "no"
  /\ \/ arrived > fetched /\ fetched' = arrived /\ failed' \in {"no", "idle"}
     \/ arrived = fetched /\ failed' = "idle" /\ UNCHANGED fetched
     \/ arrived = fetched /\ ending # "open" /\ failed' = ending /\ UNCHANGED fetched
  /\ UNCHANGED <<source, reader>>

-----------------------------------------------------------------------------
(* sseReader.Next.                                                         *)

\* Bytes of a record, with the line feeds between its lines.
Size(lines) == Len(FlattenSeq(lines)) + Len(lines) - 1

\* The byte order mark is dropped from the first line, wherever it may stand later.
Trimmed(l) == IF first /\ l # <<>> /\ feed[Head(l)] = "mark" THEN Tail(l) ELSE l

Returns(record) == out' = Append(out, record) /\ buf' = <<>> /\ UNCHANGED ended
Fails(err)      == ended' = err /\ UNCHANGED <<out, buf>>

\* Mutant: the line feed between two lines is not counted.
JoinsUncounted(l) ==
  IF Len(FlattenSeq(buf)) + Len(l) > MaxSize THEN Fails("too_large")
  ELSE buf' = Append(buf, l) /\ UNCHANGED <<out, ended>>

\* A line joins the record, unless the record gets too large.
Joins(l) ==
  IF Size(Append(buf, l)) > MaxSize THEN Fails("too_large")
  ELSE buf' = Append(buf, l) /\ UNCHANGED <<out, ended>>

\* readLine returns a line: an empty one ends the record, if there is one.
NextLine(l) ==
  /\ CASE Trimmed(l) # <<>>                -> Joins(Trimmed(l))
       [] Trimmed(l) = <<>> /\ buf # <<>> -> Returns(buf)
       [] OTHER                            -> UNCHANGED <<out, buf, ended>>
  /\ line' = <<>> /\ first' = FALSE

\* Mutant: what is left when the stream ends is dropped.
NextErrorDrops(l, err) ==
  Fails(err) /\ line' = <<>> /\ first' = FALSE

\* readLine returns an error with the line so far: what there is of a record goes first.
\* The error itself is not kept; the next call meets it again, or reads on.
NextError(l, err) ==
  /\ LET lines == IF Trimmed(l) = <<>> THEN buf ELSE Append(buf, Trimmed(l)) IN
     CASE lines = <<>>                          -> Fails(err)
       [] lines # <<>> /\ Size(lines) > MaxSize -> Fails("too_large")
       [] OTHER                                  -> Returns(lines)
  /\ line' = <<>> /\ first' = FALSE

\* Mutant: a CR ends a line by itself, an LF behind it another.
ReadByteSplits ==
  /\ kind = "stream" /\ ended = "no" /\ ~peeking /\ pos < fetched
  /\ pos' = pos + 1
  /\ LET b == feed[pos + 1] IN
     CASE b \in {"lf", "cr"} -> NextLine(line)
       [] OTHER -> IF Len(line) >= MaxSize THEN NextError(<<>>, "too_large")
                   ELSE line' = Append(line, pos + 1) /\ UNCHANGED <<buf, first, out, ended>>
  /\ UNCHANGED <<source, fetched, failed, peeking>>

\* One turn of readLine's loop.
ReadByte ==
  /\ kind = "stream" /\ ended = "no" /\ ~peeking /\ pos < fetched
  /\ pos' = pos + 1
  /\ LET b == feed[pos + 1] IN
     CASE b = "lf" -> NextLine(line) /\ UNCHANGED peeking
       [] b = "cr" -> peeking' = TRUE /\ UNCHANGED <<line, buf, first, out, ended>>
       [] OTHER    ->
            /\ IF Len(line) >= MaxSize THEN NextError(<<>>, "too_large")
               ELSE line' = Append(line, pos + 1) /\ UNCHANGED <<buf, first, out, ended>>
            /\ UNCHANGED peeking
  /\ UNCHANGED <<source, fetched, failed>>

\* Peek after a CR: an LF belongs to it; an error is left for the next read.
PeekLF ==
  /\ kind = "stream" /\ ended = "no" /\ peeking /\ (pos < fetched \/ failed # "no")
  /\ pos' = IF pos < fetched /\ feed[pos + 1] = "lf" THEN pos + 1 ELSE pos
  /\ peeking' = FALSE
  /\ NextLine(line)
  /\ UNCHANGED <<source, fetched, failed>>

\* ReadByte returns the error behind the last byte.
ReadError ==
  /\ kind = "stream" /\ ended = "no" /\ ~peeking /\ pos = fetched /\ failed # "no"
  /\ NextError(line, failed)
  /\ UNCHANGED <<source, fetched, failed, pos, peeking>>

-----------------------------------------------------------------------------
(* A body that is not a stream.                                            *)

\* Mutant: as much as is allowed, and no questions asked.
ReadAtMostCut ==
  /\ kind = "whole" /\ ended = "no"
  /\ \/ arrived >= MaxSize /\ out' = <<<<[i \in 1 .. MaxSize |-> i]>>>> /\ ended' = "eof"
     \/ arrived < MaxSize /\ ending = "eof" /\ out' = <<<<[i \in 1 .. arrived |-> i]>>>> /\ ended' = "eof"
     \/ arrived < MaxSize /\ ending = "broken" /\ ended' = "broken" /\ UNCHANGED out
  /\ UNCHANGED <<source, fetched, failed, pos, peeking, line, buf, first>>

\* readAtMost: one byte more than allowed is an error, else the body is whole.
ReadAtMost ==
  /\ kind = "whole" /\ ended = "no"
  /\ \/ arrived > MaxSize /\ ended' = "too_large" /\ UNCHANGED out
     \/ arrived <= MaxSize /\ ending = "eof" /\ out' = <<<<[i \in 1 .. arrived |-> i]>>>> /\ ended' = "eof"
     \/ arrived <= MaxSize /\ ending = "broken" /\ ended' = "broken" /\ UNCHANGED out
  /\ UNCHANGED <<source, fetched, failed, pos, peeking, line, buf, first>>

Next == Arrive \/ End \/ Read \/ ReadByte \/ PeekLF \/ ReadError \/ ReadAtMost

Spec == Init /\ [][Next]_vars

-----------------------------------------------------------------------------
(* What the records of a feed are, without reading it byte by byte.        *)

Text == { i \in DOMAIN feed : feed[i] = "text" }

\* The bytes that end a line; an LF behind a CR does not end another.
LineEnds == { i \in DOMAIN feed : \/ feed[i] = "cr"
                                  \/ feed[i] = "lf" /\ (i > 1 => feed[i - 1] # "cr") }

\* The line ends after which a record is over: nothing since the one before.
Blanks == { e \in LineEnds :
              \A t \in Text : t < e => \E d \in LineEnds : t < d /\ d < e }

SameLine(s, t)   == ~ \E e \in LineEnds : (s < e /\ e < t) \/ (t < e /\ e < s)
SameRecord(s, t) == ~ \E e \in Blanks : (s < e /\ e < t) \/ (t < e /\ e < s)

\* Lines, and records, of this response that are larger than allowed; the mark counts in
\* the line it stands in.
LongLine(t) == Cardinality({ s \in DOMAIN feed \ LineEnds : feed[s] # "lf" /\ SameLine(s, t) }) > MaxSize

TooLarge(t) ==
  LET texts == { s \in Text : SameRecord(s, t) }
      lines == { { s \in texts : SameLine(s, u) } : u \in texts }
  IN \/ Cardinality(texts) + Cardinality(lines) - 1 > MaxSize
     \/ \E u \in texts : LongLine(u)

\* A line that is too long by itself comes after another of its record.
Misread == \E s, t \in Text :
             s < t /\ t <= pos /\ SameRecord(s, t) /\ ~SameLine(s, t) /\ LongLine(t)

-----------------------------------------------------------------------------
(* Correctness.                                                            *)

\* The variables have their types.
TypeOK == /\ fetched \in 0 .. arrived /\ arrived \in 0 .. Len(feed) /\ pos \in 0 .. fetched
          /\ failed \in {"no", "eof", "broken", "idle"}
          /\ ended \in {"no", "eof", "broken", "idle", "too_large"}
          /\ peeking \in BOOLEAN /\ first \in BOOLEAN

Told == ToSet(FlattenSeq(FlattenSeq(out)))

\* Two bytes are in one line of record r.
Together(r, s, t) == \E i \in DOMAIN out[r] : {s, t} \subseteq ToSet(out[r][i])

\* RecordsTrue: the records are those of the feed: text in order and without gaps, cut into
\* lines at line ends and into records at empty lines, wherever the bytes were cut on their
\* way and whenever they stopped coming (the long line of finding 6 aside).
RecordsTrue ==
  kind = "stream" /\ ~Misread =>
    /\ LET all == FlattenSeq(FlattenSeq(out)) IN \A i, j \in DOMAIN all : i < j => all[i] < all[j]
    /\ \A t \in Told, s \in Text : s < t => s \in Told
    /\ \A r \in DOMAIN out : \A s \in ToSet(FlattenSeq(out[r])), t \in Told :
         /\ SameRecord(s, t) <=> t \in ToSet(FlattenSeq(out[r]))
         /\ t \in ToSet(FlattenSeq(out[r])) => (SameLine(s, t) <=> Together(r, s, t))

\* NothingLost: a stream that ends, breaks or falls silent is told up to the last byte that
\* came in; a record that is too large is refused, and no other.
NothingLost ==
  kind = "stream" /\ ~Misread =>
    /\ ended \in {"eof", "broken", "idle"} => Told = Text \cap 1 .. fetched
    /\ ended = "too_large" => \E t \in Text \ Told : t <= pos /\ TooLarge(t)
    /\ \A r \in DOMAIN out : Size(out[r]) <= MaxSize

\* Promptly: while the reader waits for the network, every record whose end has come in is
\* told, unless it ended with a CR, where the reader looks for the next byte first.
Promptly ==
  kind = "stream" /\ ~Misread /\ ended = "no" /\ pos = fetched /\ ~peeking =>
    \A e \in Blanks, t \in Text : t < e /\ e <= fetched => t \in Told

\* BodyWhole: a body is returned as it came, or not at all.
BodyWhole ==
  kind = "whole" /\ out # <<>> => ending = "eof" /\ Len(out[1][1]) = Len(feed) /\ Len(feed) <= MaxSize

\* FramingKept: what a provider sends reaches the decoders whole and in its pieces.
FramingKept == RecordsTrue /\ NothingLost /\ Promptly /\ BodyWhole

\* OversizeRefused: a record that is too large is refused, as the test at
\* channels_test.go:174-179 has it (violated when another line came before the long one).
OversizeRefused == kind = "stream" /\ ended = "eof" => \A t \in Text : ~TooLarge(t)
=============================================================================

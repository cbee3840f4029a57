--------------------------- MODULE RequestGrammar ---------------------------
(***************************************************************************)
(* Requests as a peer writes them, what the server should make of each of  *)
(* them, and the properties that compare RequestParser with that: whatever *)
(* the segments, the parser ends where the text of the request says.       *)
(***************************************************************************)
EXTENDS RequestParser, SequencesExt

CONSTANT Messages  \* the requests peers send

\* A request: the val of its start line, those of its headers, the lengths of
\* its chunks but the last, which is empty, is there a trailer field behind that,
\* the length of the body that follows when it is not chunked, and the line before
\* which there is an empty one: the "start" line, the last chunk's "size", or none.
Message == [start : Int, headers : Seq({NoColon, Chunked, NotChunked, NotDigits, Other} \cup Nat),
            chunks : Seq(Int \ {0}), trailer : BOOLEAN, length : Nat,
            blank : {"none", "start", "size"}]

ASSUME MessagesAssumption == Messages \subseteq Message

TextLine(kind, val) == <<[kind |-> kind, val |-> val], CR, LF>>

\* The body bytes from .. from + n - 1.
Bytes(from, n) == [i \in 1..n |-> [kind |-> "data", val |-> from + i - 1]]

\* The number of the first byte of each chunk, and of the one behind them all.
FirstBytes(lengths) ==
  LET first[c \in 1..(Len(lengths) + 1)] ==
        IF c = 1 THEN 1 ELSE first[c - 1] + lengths[c - 1]
  IN first

RenderChunks(lengths) ==
  FlattenSeq([c \in 1..Len(lengths) |->
    TextLine("size", lengths[c]) \o Bytes(FirstBytes(lengths)[c], lengths[c]) \o <<CR, LF>>])

\* Of the Transfer-Encodings the first counts.
IsChunked(m) ==
  \E i \in 1..Len(m.headers) :
    m.headers[i] = Chunked /\ \A j \in 1..(i - 1) : m.headers[j] # NotChunked

EmptyLineBefore(m, line) == IF m.blank = line THEN <<CR, LF>> ELSE <<>>

Render(m) ==
  EmptyLineBefore(m, "start")
    \o TextLine("start", m.start)
    \o FlattenSeq([i \in 1..Len(m.headers) |-> TextLine("header", m.headers[i])])
    \o <<CR, LF>>
    \o IF IsChunked(m)
         THEN RenderChunks(m.chunks) \o EmptyLineBefore(m, "size") \o TextLine("size", 0)
                \o (IF m.trailer THEN TextLine("header", Other) ELSE <<>>)
                \o <<CR, LF>>
         ELSE Bytes(1, m.length)

BodyLength(m) ==
  IF IsChunked(m) THEN FirstBytes(m.chunks)[Len(m.chunks) + 1] - 1 ELSE m.length

\* Is v the value of a Content-Length?
IsLength(v) == v = NotDigits \/ v >= 0

\* Where parse() stands when it has seen all of the request.  Of Content-Length
\* the first value counts, and is taken as the code has it (see DigitsAccepted); a
\* trailer is never got past.
Outcome(m) ==
  IF m.start = Invalid \/ \E i \in 1..Len(m.headers) : m.headers[i] = NoColon
    THEN "BAD_REQUEST"
  ELSE IF m.start \notin BodyMethods THEN "COMPLETE"
  ELSE IF IsChunked(m) THEN IF m.trailer THEN "CHUNK" ELSE "COMPLETE"
  ELSE IF \E i \in 1..Len(m.headers) :
            m.headers[i] = NotDigits /\ \A j \in 1..(i - 1) : ~IsLength(m.headers[j])
    THEN "COMPLETE"
  ELSE "BAD_REQUEST"

Sent(m) == stream = Render(m)

----------------------------------------------------------------------------
(* Well-formed requests, symbol by symbol.                                 *)

\* Lines of s behind its first p symbols.
TextLineAt(s, p, kind) ==
  p + 3 <= Len(s) /\ s[p + 1].kind = kind /\ s[p + 2] = CR /\ s[p + 3] = LF

EmptyLineAt(s, p) == p + 2 <= Len(s) /\ s[p + 1] = CR /\ s[p + 2] = LF

\* A start line, n header lines and the empty line.
HeadOf(s, n) ==
  /\ TextLineAt(s, 0, "start") /\ s[1].val # Invalid
  /\ \A k \in 1..n : TextLineAt(s, 3 * k, "header") /\ s[3 * k + 1].val # NoColon
  /\ EmptyLineAt(s, 3 * n + 3)

\* Behind how many symbols of s do chunk sizes stand?
SizesOf(s) == {p \in 0..(Len(s) - 1) : s[p + 1].kind = "size"}

\* The chunk behind p: its size, its data, its CR LF, and then the next chunk.
\* An empty one is the last and ends the request.
ChunkAt(s, p) ==
  LET size == s[p + 1].val IN
  /\ TextLineAt(s, p, "size")
  /\ size >= 0
  /\ \A i \in 1..size : s[p + 3 + i].kind = "data"
  /\ EmptyLineAt(s, p + 3 + size)
  /\ IF size = 0 THEN Len(s) = p + 5 ELSE p + 5 + size \in SizesOf(s)

\* A request with n header lines for a method without a body, or a chunked one
\* without a trailer.
LaidOut(s, n) ==
  /\ HeadOf(s, n)
  /\ s[1].val \notin BodyMethods => Len(s) = 3 * n + 5
  /\ s[1].val \in BodyMethods =>
       /\ \E k \in 1..n :
            s[3 * k + 1].val = Chunked /\ \A j \in 1..(k - 1) : s[3 * j + 1].val # NotChunked
       /\ 3 * n + 5 \in SizesOf(s)
       /\ \A p \in SizesOf(s) : ChunkAt(s, p)

WellFormed(s) == \E n \in 0..Len(s) : LaidOut(s, n)

----------------------------------------------------------------------------
(* Where the parser stops on the way.                                      *)

\* parse() returns when it has read an empty line where a start line or a chunk
\* size is due; what follows is looked at by the next call.
BehindEmptyLine ==
  /\ status = "START_LINE" \/ (status = "CHUNK" /\ ~chunked_status)
  /\ buffer.rpos = 2 /\ SubSeq(buffer.bytes, 1, 2) = <<CR, LF>>

----------------------------------------------------------------------------
(* The buffer and its two positions.                                       *)

\* Every variable has its type; the positions stay those of an unsigned int.
TypeOK ==
  /\ stream \in Streams
  /\ delivered \in 0..Len(stream)
  /\ parsing \in BOOLEAN
  /\ buffer \in Buffer
  /\ status \in Statuses
  /\ method \in Methods \cup {Unknown}
  /\ headers \in [te : {Chunked, NotChunked, Other}, cl : Int]
  /\ chunked_status \in BOOLEAN
  /\ chunk_size \in Int
  /\ chunkBodyRead_size \in Nat
  /\ tempBody \in Seq(Symbol)
  /\ data \in Seq(Symbol)

\* The buffer is always the unparsed end of what was received: putString(), the
\* many calls of erase() and the positions they move lose or repeat no byte.
BufferIsUnparsedEnd ==
  /\ buffer.bytes = SubSeq(stream, delivered - Size(buffer) + 1, delivered)
  /\ buffer.wpos = Size(buffer)

\* What the read position has left behind it, not erased, are the ends of empty
\* lines, where a start line or a chunk size is due.
OnlyEmptyLinesRead ==
  /\ status = "START_LINE" \/ (status = "CHUNK" /\ ~chunked_status)
  /\ \A i \in 1..Size(buffer) : i <= buffer.rpos => buffer.bytes[i] \in {CR, LF}

\* The CR LF of a chunk's end is due and something else is there, as a trailer
\* field is behind the last chunk.
StrayAtChunkEnd ==
  /\ status = "CHUNK" /\ chunked_status
  /\ \/ Size(buffer) >= 1 /\ buffer.bytes[1] # CR
     \/ Size(buffer) >= 2 /\ buffer.bytes[2] # LF

\* Until the request is done every step of parse() brings the read position back
\* to the front, so that the next one looks at all that is there: but behind
\* empty lines that have not been erased, and where the end of a chunk cannot be
\* found any more (there it walks below zero).
ReadPosAtFront ==
  Final \/ buffer.rpos = 0 \/ OnlyEmptyLinesRead \/ StrayAtChunkEnd

----------------------------------------------------------------------------
(* The body.                                                               *)

\* t is what s holds at the places I, in their order.
IsSelection(t, s, I) ==
  /\ Len(t) = Cardinality(I)
  /\ \A i \in I : t[Cardinality({j \in I : j <= i})] = s[i]

\* The data among the first n symbols of the stream.
DataPlaces(n) == {i \in 1..n : stream[i].kind = "data"}

\* The data of the chunks is in tempBody exactly once and in order: tempBody is
\* the data bytes of all that was parsed, and the chunk being read has as many
\* of them as chunkBodyRead_size says.
ChunkDataKept ==
  status = "CHUNK" =>
    /\ IsSelection(tempBody, stream, DataPlaces(delivered - Size(buffer)))
    /\ chunkBodyRead_size \in 0..(IF chunked_status /\ chunk_size > 0 THEN chunk_size ELSE 0)

----------------------------------------------------------------------------
(* The whole request.                                                      *)

\* Where parse() ends does not depend on how the network cut the request: once
\* it has ended, or has seen all bytes, its status is the one the text of the
\* request calls for, and the body it hands over is the body that was sent.  One
\* thing depends on the segments: an empty line before the start line or a chunk
\* size, whose segment is the last, leaves all that follows it unread.
SegmentationIndependent ==
  \A m \in Messages : Sent(m) =>
    /\ Final \/ (~parsing /\ delivered = Len(stream)) =>
         status = Outcome(m) \/ (m.blank # "none" /\ BehindEmptyLine)
    /\ status = "COMPLETE" /\ m.start \in BodyMethods /\ IsChunked(m) =>
         data = Bytes(1, BodyLength(m))

\* Whatever a well-formed request is cut into, it is not rejected, it is complete
\* when its last byte has been parsed and no sooner, and the body handed over is
\* then the data of all its chunks in order.
WellFormedIsRead ==
  WellFormed(stream) =>
    /\ status # "BAD_REQUEST"
    /\ ~parsing /\ delivered = Len(stream) => status = "COMPLETE"
    /\ status = "COMPLETE" =>
         /\ delivered = Len(stream) /\ Size(buffer) = 0
         /\ method \in BodyMethods => IsSelection(data, stream, DataPlaces(Len(stream)))

\* A request is not taken for complete before its last byte was received:
\* nothing of it is left to be read as the beginning of the next request.
CompleteOnlyAtEnd ==
  status = "COMPLETE" => delivered = Len(stream) /\ Size(buffer) = 0

\* What the server's own message says (HTTPMessage.cpp:171, "ContentLength is
\* not digit!!!"): a well-formed request is rejected for its Content-Length only
\* when that is not made of digits.
DigitsAccepted ==
  \A m \in Messages :
    Sent(m) /\ status = "BAD_REQUEST" =>
      \/ m.start = Invalid
      \/ \A i \in 1..Len(m.headers) : m.headers[i] < 0

----------------------------------------------------------------------------
(* Liveness, under FairSpec.                                               *)

\* Every call of parse() returns, whatever the segment it was called for, unless
\* it has read a negative chunk size: it then goes round without reading.
ParseReturns == parsing ~> ~parsing \/ (chunked_status /\ chunk_size < 0)
=============================================================================

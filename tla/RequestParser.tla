---------------------------- MODULE RequestParser ----------------------------
(***************************************************************************)
(* The incremental parser of one request (HTTPRequest::parse and the parts *)
(* of HTTPMessage it calls).  The bytes of the request arrive in segments, *)
(* cut anywhere; after each of them readClient() appends the segment to    *)
(* the buffer and calls parse(), which resumes from the state the last     *)
(* call left.  Each pass of parse()'s loops is a step.                     *)
(***************************************************************************)
EXTENDS ByteBuffer, FiniteSets

CONSTANTS
  Streams,     \* the streams of symbols a peer may send
  Methods,     \* the methods that exist
  BodyMethods, \* those parse() expects a body for (POST and PUT)
  TextSizes    \* what strtol() may make of a line that is no chunk size

VARIABLES
  stream,             \* what the peer sends
  delivered,          \* how many symbols of it have been received
  parsing,            \* is parse() running?
  buffer,             \* the ByteBuffer part of the request
  status,             \* HTTPRequest::status
  method,             \* HTTPRequest::method, -1 when unknown
  headers,            \* the values of Transfer-Encoding and Content-Length
  chunked_status,     \* FALSE: a chunk size is due, TRUE: the data of a chunk
  chunk_size,
  chunkBodyRead_size,
  tempBody,           \* the data of the chunks so far
  data                \* the body handed to the handlers

peerVars  == <<stream, delivered>>
chunkVars == <<chunked_status, chunk_size, chunkBodyRead_size, tempBody>>
vars      == <<peerVars, parsing, buffer, status, method, headers, chunkVars, data>>

Statuses == {"START_LINE", "HEADERS", "PREBODY", "CHUNK", "BODY", "COMPLETE",
             "BAD_REQUEST"}

\* A line as parse() sees it is one text.  A "start" symbol is a start line; its
\* val is the method, Invalid when checkMethod(), checkUri() or the check of the
\* version rejects the line.  A "header" symbol is a header field; its val tells
\* what the parser tells apart: NoColon, Chunked and NotChunked (the values of a
\* Transfer-Encoding), NotDigits (a Content-Length with no digit in it), Other, or
\* the value n >= 0 of a Content-Length written in digits.  A peer keeps to one
\* spelling of a field's name.
Unknown    == -1
Invalid    == -2
NoColon    == -3
Chunked    == -4
NotDigits  == -5
Other      == -6
NotChunked == -7

\* The symbols a peer sends: a start line is one of these.
Text == {s \in Symbol : s.kind = "start" => s.val \in Methods \cup {Unknown, Invalid}}

ASSUME RequestParserAssumption ==
  /\ Streams \subseteq Seq(Text)
  /\ Methods \subseteq Nat
  /\ BodyMethods \subseteq Methods
  /\ TextSizes \subseteq Int

Init ==
  /\ stream \in Streams
  /\ delivered = 0
  /\ parsing = FALSE
  /\ buffer = Empty
  /\ status = "START_LINE"
  /\ method = Unknown
  /\ headers = [te |-> Other, cl |-> Other]
  /\ chunked_status = FALSE
  /\ chunk_size = -1
  /\ chunkBodyRead_size = 0
  /\ tempBody = <<>>
  /\ data = <<>>

Final == status \in {"COMPLETE", "BAD_REQUEST"}

----------------------------------------------------------------------------
(* Receiving: strlen() ends a segment at its first zero byte.              *)

UpToNul(seg) ==
  LET nuls == {i \in 1..Len(seg) : seg[i] = NUL} IN
  IF nuls = {} THEN seg
  ELSE SubSeq(seg, 1, (CHOOSE i \in nuls : \A j \in nuls : i <= j) - 1)

\* Once the request is answered or rejected it is deleted.
Receive ==
  /\ ~parsing
  /\ ~Final
  /\ \E n \in 1..(Len(stream) - delivered) :
       /\ buffer' = PutString(buffer,
                      UpToNul(SubSeq(stream, delivered + 1, delivered + n)))
       /\ delivered' = delivered + n
  /\ parsing' = TRUE
  /\ UNCHANGED <<stream, status, method, headers, chunkVars, data>>

----------------------------------------------------------------------------
(* Lines.                                                                  *)

\* Mutant: a CR ends the line whatever follows it.
LineEndsAtCR(b) == {k \in b.rpos..(Size(b) - 1) : Read(b, k) = CR}

LineEnds(b) ==
  {k \in b.rpos..(Size(b) - 2) : Read(b, k) = CR /\ Read(b, k + 1) = LF}

\* getLine() reads up to the first CR LF.  Without one it reads nothing; that
\* and an empty line are told apart by the read position only.
FirstLineEnd(b) == CHOOSE k \in LineEnds(b) : \A j \in LineEnds(b) : k <= j

Line(b) ==
  IF LineEnds(b) = {} THEN <<>> ELSE SubSeq(b.bytes, b.rpos + 1, FirstLineEnd(b))

AfterLine(b) ==
  IF LineEnds(b) = {} THEN b ELSE SetReadPos(b, FirstLineEnd(b) + 2)

EraseRead(b) == Erase(b, b.rpos)

\* parse() returns s.
Return(s) == status' = s /\ parsing' = FALSE

\* parse() goes on in state s.
GoOn(s) == status' = s /\ UNCHANGED parsing

----------------------------------------------------------------------------
(* parse(): the start line and the headers.                                *)

\* When a line is rejected checkMethod() may have stored its method already.
ParseStartLine ==
  LET line == Line(buffer) IN
  /\ parsing /\ status = "START_LINE"
  /\ \/ /\ line = <<>>
        /\ buffer' = AfterLine(buffer)
        /\ Return("START_LINE")
        /\ UNCHANGED method
     \/ /\ line # <<>>
        /\ line[1].kind # "start" \/ line[1].val = Invalid
        /\ buffer' = AfterLine(buffer)
        /\ Return("BAD_REQUEST")
        /\ method' \in Methods \cup {Unknown}
     \/ /\ line # <<>>
        /\ line[1].kind = "start" /\ line[1].val # Invalid
        /\ method' = line[1].val
        /\ buffer' = EraseRead(AfterLine(buffer))
        /\ GoOn("HEADERS")
  /\ UNCHANGED <<peerVars, headers, chunkVars, data>>

\* headers->insert() keeps the first value of a field.
First(old, val) == IF old = Other THEN val ELSE old

AddHeader(h, val) ==
  IF val \in {Chunked, NotChunked} THEN [h EXCEPT !.te = First(@, val)]
                                   ELSE [h EXCEPT !.cl = First(@, val)]

\* Are the two bytes before the read position CR LF?  At position 0 the code
\* steps back below zero and reads two bytes that do not exist.
CheckHeaderEnd(b) ==
  LET back == (b.rpos - 2) % Word IN
  Read(b, back) = CR /\ Read(b, (back + 1) % Word) = LF

ParseHeaders ==
  LET line  == Line(buffer)
      after == AfterLine(buffer)
  IN
  /\ parsing /\ status = "HEADERS"
  /\ \/ /\ line # <<>>
        /\ line[1].kind # "header" \/ line[1].val = NoColon
        /\ buffer' = after
        /\ Return("BAD_REQUEST")
        /\ UNCHANGED headers
     \/ /\ line # <<>>
        /\ line[1].kind = "header" /\ line[1].val # NoColon
        /\ headers' = AddHeader(headers, line[1].val)
        /\ buffer' = EraseRead(after)
        /\ GoOn("HEADERS")
     \/ /\ line = <<>>
        /\ CheckHeaderEnd(after)
        /\ buffer' = EraseRead(after)
        /\ GoOn("PREBODY")
        /\ UNCHANGED headers
     \/ /\ line = <<>>
        /\ ~CheckHeaderEnd(after)
        /\ buffer' = after
        /\ Return("HEADERS")
        /\ UNCHANGED headers
  /\ UNCHANGED <<peerVars, method, chunkVars, data>>

\* The check of the digits of Content-Length rejects a value with a digit.
Rejects(cl) == cl >= 0

CheckChunked ==
  /\ parsing /\ status = "PREBODY"
  /\ \/ method \notin BodyMethods /\ Return("COMPLETE")
     \/ method \in BodyMethods /\ headers.te = Chunked /\ GoOn("CHUNK")
     \/ /\ method \in BodyMethods /\ headers.te # Chunked
        /\ headers.cl = Other \/ Rejects(headers.cl)
        /\ Return("BAD_REQUEST")
     \/ /\ method \in BodyMethods /\ headers.te # Chunked
        /\ headers.cl # Other /\ ~Rejects(headers.cl)
        /\ GoOn("BODY")
  /\ UNCHANGED <<peerVars, buffer, method, headers, chunkVars, data>>

----------------------------------------------------------------------------
(* parse(): the body.                                                      *)

\* atoi() of the Content-Length.
ContentLen == IF headers.cl < 0 THEN 0 ELSE headers.cl

BytesRemaining(b) == (Size(b) - b.rpos) % Word

\* Everything behind the headers is taken for the body, however long it is.
\* The wait for more bytes is never taken while Rejects() lets no digit pass.
ParseBodyContentLen ==
  LET waits == ContentLen > (BytesRemaining(buffer) + 1) % Word IN
  /\ parsing /\ status = "BODY"
  /\ data' = IF waits THEN data ELSE SubSeq(buffer.bytes, buffer.rpos + 1, Size(buffer))
  /\ buffer' = IF waits THEN buffer ELSE EraseRead(buffer)
  /\ Return(IF waits THEN "BODY" ELSE "COMPLETE")
  /\ UNCHANGED <<peerVars, method, headers, chunkVars>>

\* strtol() of a line: of another text than a chunk size it takes what that begins
\* with, as a hexadecimal number.
Strtol(line) == IF line[1].kind = "size" THEN {line[1].val} ELSE TextSizes

ParseChunkSize ==
  LET line == Line(buffer) IN
  /\ parsing /\ status = "CHUNK"
  /\ Size(buffer) > 0
  /\ ~chunked_status
  /\ \/ /\ line = <<>>
        /\ buffer' = AfterLine(buffer)
        /\ Return("CHUNK")
        /\ UNCHANGED <<chunked_status, chunk_size>>
     \/ /\ line # <<>>
        /\ chunk_size' \in Strtol(line)
        /\ buffer' = EraseRead(AfterLine(buffer))
        /\ chunked_status' = TRUE
        /\ GoOn("CHUNK")
  /\ UNCHANGED <<peerVars, method, headers, chunkBodyRead_size, tempBody, data>>

\* Mutant: the CR alone ends the chunk.
ChunkEndsAtCR(b) == Read(b, b.rpos) = CR

\* checkEnd_chunkBody(): is CR LF next?  The CR alone is read and not put back.
ChunkEnds(b) == Read(b, b.rpos) = CR /\ Read(b, b.rpos + 1) = LF

AfterChunkEnd(b) ==
  CASE ChunkEnds(b) -> EraseRead(SetReadPos(b, b.rpos + 2))
    [] ~ChunkEnds(b) /\ Read(b, b.rpos) = CR -> SetReadPos(b, b.rpos + 1)
    [] OTHER -> b

\* Mutant: the step back is forgotten.
StepBackNot(b) == b

\* parseBody_chunked() takes back the CR, or what it has not read.
StepBack(b) == SetReadPos(b, b.rpos - 1)

ParseLastChunk ==
  /\ parsing /\ status = "CHUNK"
  /\ Size(buffer) > 0
  /\ chunked_status
  /\ chunk_size = 0
  /\ \/ /\ ChunkEnds(buffer)
        /\ buffer' = AfterChunkEnd(buffer)
        /\ data' = tempBody
        /\ Return("COMPLETE")
     \/ /\ ~ChunkEnds(buffer)
        /\ buffer' = StepBack(AfterChunkEnd(buffer))
        /\ Return("CHUNK")
        /\ UNCHANGED data
  /\ UNCHANGED <<peerVars, method, headers, chunkVars>>

\* Mutant: the size of the chunk is asked for again, not what is left of it.
ChunkRestAll(b) == DataToString(b, chunk_size)

\* What the buffer holds of the rest of the chunk.
ChunkRest(b) == DataToString(b, chunk_size - chunkBodyRead_size)

\* Mutant: parse() does not wait for the end of the chunk.
ReturnForChunkEnd == GoOn("CHUNK")

\* The data of the chunk is there and the CR LF behind it is not.
AwaitChunkEnd == Return("CHUNK")

\* The data of a chunk.  For a negative size the loop goes round for ever
\* without reading anything: parse() has then no step to take.
ParseChunkData ==
  LET rest  == ChunkRest(buffer)
      after == EraseRead(AfterDataToString(buffer, chunk_size - chunkBodyRead_size))
      read  == chunkBodyRead_size + Len(rest)
  IN
  /\ parsing /\ status = "CHUNK"
  /\ Size(buffer) > 0
  /\ chunked_status
  /\ chunk_size # 0
  /\ chunk_size >= chunkBodyRead_size
  /\ tempBody' = tempBody \o rest
  /\ \/ /\ read # chunk_size
        /\ buffer' = after
        /\ chunkBodyRead_size' = read
        /\ GoOn("CHUNK")
        /\ UNCHANGED chunked_status
     \/ /\ read = chunk_size
        /\ Size(after) >= 2 /\ ChunkEnds(after)
        /\ buffer' = AfterChunkEnd(after)
        /\ chunkBodyRead_size' = 0
        /\ chunked_status' = FALSE
        /\ GoOn("CHUNK")
     \/ /\ read = chunk_size
        /\ ~(Size(after) >= 2 /\ ChunkEnds(after))
        /\ buffer' = IF Size(after) >= 2 THEN AfterChunkEnd(after) ELSE after
        /\ chunkBodyRead_size' = read
        /\ AwaitChunkEnd
        /\ UNCHANGED chunked_status
  /\ UNCHANGED <<peerVars, method, headers, chunk_size, data>>

\* The loop of parseBody_chunked() ends for want of bytes.
ParseNoMoreChunks ==
  /\ parsing /\ status = "CHUNK"
  /\ Size(buffer) = 0
  /\ Return("CHUNK")
  /\ UNCHANGED <<peerVars, buffer, method, headers, chunkVars, data>>

Parse ==
  \/ ParseStartLine \/ ParseHeaders \/ CheckChunked \/ ParseBodyContentLen
  \/ ParseChunkSize \/ ParseLastChunk \/ ParseChunkData \/ ParseNoMoreChunks

Next == Receive \/ Parse

Spec == Init /\ [][Next]_vars

\* parse() runs to its end once called; nothing else is running.
FairSpec == Spec /\ WF_vars(Parse)
=============================================================================

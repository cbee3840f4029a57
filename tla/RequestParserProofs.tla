------------------------- MODULE RequestParserProofs -------------------------
(***************************************************************************)
(* Proofs about RequestParser, for any streams cut into any segments: the  *)
(* types, that the buffer is always the unparsed end of what has been      *)
(* received, where the read position stands, that a well-formed request    *)
(* is read to its end, with all its data, and no further, and that what    *)
(* becomes of any rendered request does not depend on its segments.        *)
(***************************************************************************)
EXTENDS RequestGrammar, LibraryLemmas, SequenceTheorems

----------------------------------------------------------------------------
(* The buffer's operations keep its type.                                  *)

\* A start line of the buffer names a method, since the peer's does.
TextBuffer == {b \in Buffer : b.bytes \in Seq(Text)}

LEMMA TextIsSymbol ==
  /\ \A s \in Text : s \in Symbol
  /\ CR \in Text /\ LF \in Text /\ NUL \in Text
  /\ \A s \in Seq(Text) : s \in Seq(Symbol)
<1>1. Text \subseteq Symbol
  BY DEF Text
<1>2. CR \in Text /\ LF \in Text /\ NUL \in Text
  BY DEF Text, Symbol, Kinds, CR, LF, NUL
<1> QED
  BY <1>1, <1>2, SeqMonotonic

LEMMA Wraps ==
  \A a \in Int : a % Word \in 0..(Word - 1) /\ (a \in 0..(Word - 1) => a % Word = a)
  BY ByteBufferAssumption

LEMMA BufferFields ==
  ASSUME NEW b \in TextBuffer
  PROVE  /\ b.bytes \in Seq(Text) /\ Size(b) \in Nat
         /\ b.rpos \in 0..(Word - 1) /\ b.wpos \in 0..(Word - 1)
         /\ b.rpos \in Nat /\ b.wpos \in Nat
         /\ b = [bytes |-> b.bytes, rpos |-> b.rpos, wpos |-> b.wpos]
<1>1. b \in Buffer /\ b.bytes \in Seq(Text)
  BY DEF TextBuffer
<1>2. Size(b) \in Nat
  BY <1>1, LenProperties DEF Size
<1> QED
  BY <1>1, <1>2, ByteBufferAssumption DEF Buffer

LEMMA MakeBuffer ==
  ASSUME NEW s \in Seq(Text), NEW r \in Int, NEW w \in Int
  PROVE  [bytes |-> s, rpos |-> r % Word, wpos |-> w % Word] \in TextBuffer
  BY Wraps, TextIsSymbol DEF TextBuffer, Buffer

LEMMA EmptyBuffer == Empty \in TextBuffer
<1>1. <<>> \in Seq(Text)
  BY EmptySeq
<1>2. 0 \in 0..(Word - 1)
  BY ByteBufferAssumption
<1> QED
  BY <1>1, <1>2, TextIsSymbol DEF Empty, TextBuffer, Buffer

LEMMA ReadIsText ==
  ASSUME NEW b \in TextBuffer, NEW i \in Nat
  PROVE  Read(b, i) \in Text
  BY BufferFields, TextIsSymbol, ElementOfSeq, LenProperties DEF Read, Size

LEMMA SetReadPosType ==
  ASSUME NEW b \in TextBuffer, NEW r \in Int
  PROVE  /\ SetReadPos(b, r) \in TextBuffer
         /\ SetReadPos(b, r).bytes = b.bytes
         /\ SetReadPos(b, r).wpos = b.wpos
         /\ SetReadPos(b, r).rpos = r % Word
         /\ Size(SetReadPos(b, r)) = Size(b)
<1>1. SetReadPos(b, r) = [bytes |-> b.bytes, rpos |-> r % Word, wpos |-> b.wpos]
  BY BufferFields DEF SetReadPos
<1>2. b.wpos % Word = b.wpos
  BY BufferFields, Wraps
<1>3. r \in Int /\ b.wpos \in Int /\ b.bytes \in Seq(Text)
  BY BufferFields
<1>4. SetReadPos(b, r) = [bytes |-> b.bytes, rpos |-> r % Word, wpos |-> b.wpos % Word]
  BY <1>1, <1>2
<1>5. SetReadPos(b, r) \in TextBuffer
  BY <1>3, <1>4, MakeBuffer
<1> QED
  BY <1>1, <1>5 DEF Size

LEMMA TailIsText ==
  ASSUME NEW s \in Seq(Text), NEW m \in Nat, NEW n \in Nat, n <= Len(s), m >= 1
  PROVE  /\ SubSeq(s, m, n) \in Seq(Text)
         /\ Len(SubSeq(s, m, n)) = IF m <= n THEN n - m + 1 ELSE 0
         /\ \A i \in 1..(n - m + 1) : SubSeq(s, m, n)[i] = s[m + i - 1]
<1>1. \A i \in m..n : s[i] \in Text
  BY ElementOfSeq, LenProperties
<1> QED
  BY <1>1, SubSeqProperties

LEMMA EraseType ==
  ASSUME NEW b \in TextBuffer, NEW end \in Nat
  PROVE  Erase(b, end) \in TextBuffer
<1>1. SubSeq(b.bytes, end + 1, Size(b)) \in Seq(Text)
  <2>1. b.bytes \in Seq(Text) /\ Size(b) = Len(b.bytes) /\ Size(b) \in Nat
    BY BufferFields DEF Size
  <2> QED
    BY <2>1, TailIsText
<1>2. b.rpos - end \in Int /\ b.wpos - end \in Int
  BY BufferFields
<1> QED
  BY <1>1, <1>2, MakeBuffer, EmptyBuffer DEF Erase

LEMMA EraseReadType ==
  ASSUME NEW b \in TextBuffer
  PROVE  EraseRead(b) \in TextBuffer
  BY EraseType, BufferFields DEF EraseRead

LEMMA UpToNulType ==
  ASSUME NEW seg \in Seq(Text)
  PROVE  UpToNul(seg) \in Seq(Text)
<1> DEFINE nuls == {i \in 1..Len(seg) : seg[i] = NUL}
<1> DEFINE first == CHOOSE i \in nuls : \A j \in nuls : i <= j
<1>1. ASSUME nuls # {} PROVE first \in nuls
  <2>1. Len(seg) \in Nat
    BY LenProperties
  <2>2. IsFiniteSet(1..Len(seg))
    BY <2>1, FS_Interval
  <2>3. IsFiniteSet(nuls)
    BY <2>2, FS_Subset
  <2>4. nuls \in SUBSET Nat
    BY <2>1
  <2>5. Min(nuls) \in nuls
    <3> HIDE DEF nuls
    <3> QED
      BY <1>1, <2>3, <2>4, LeastIsMember
  <2>6. Min(nuls) = first
    BY DEF Min
  <2> QED
    BY <2>5, <2>6
<1>2. CASE nuls = {}
  BY <1>2 DEF UpToNul
<1>3. CASE nuls # {}
  <2>1. first \in nuls
    BY <1>1, <1>3
  <2>2. first \in 1..Len(seg) /\ Len(seg) \in Nat
    BY <2>1, LenProperties
  <2>3. first - 1 \in Nat /\ first - 1 <= Len(seg)
    <3> HIDE DEF first
    <3> QED
      BY <2>2
  <2>4. SubSeq(seg, 1, first - 1) \in Seq(Text)
    <3> HIDE DEF first
    <3> QED
      BY <2>3, TailIsText
  <2>5. UpToNul(seg) = SubSeq(seg, 1, first - 1)
    BY <1>3 DEF UpToNul
  <2> QED
    BY <2>4, <2>5
<1> QED
  BY <1>2, <1>3

LEMMA PutStringType ==
  ASSUME NEW b \in TextBuffer, NEW str \in Seq(Text)
  PROVE  /\ PutString(b, str) \in TextBuffer
         /\ PutString(b, str).rpos = b.rpos
         /\ PutString(b, str).wpos = (b.wpos + Len(str)) % Word
         /\ Size(PutString(b, str)) = IF Size(b) < b.wpos + Len(str) THEN b.wpos + Len(str)
                                                                    ELSE Size(b)
         /\ \A i \in 1..Size(PutString(b, str)) :
              PutString(b, str).bytes[i] =
                IF i \in (b.wpos + 1)..(b.wpos + Len(str)) THEN str[i - b.wpos] ELSE Read(b, i - 1)
<1> DEFINE end   == b.wpos + Len(str)
           n     == IF Size(b) < end THEN end ELSE Size(b)
           bytes == [i \in 1..n |-> IF i \in b.wpos + 1..end THEN str[i - b.wpos] ELSE Read(b, i - 1)]
<1>1. Len(str) \in Nat /\ b.wpos \in Nat /\ Size(b) \in Nat /\ end \in Nat /\ n \in Nat
  BY LenProperties, BufferFields
<1>2. ASSUME NEW i \in 1..n
      PROVE  (IF i \in b.wpos + 1..end THEN str[i - b.wpos] ELSE Read(b, i - 1)) \in Text
  <2>1. CASE i \in b.wpos + 1..end
    <3>1. i - b.wpos \in 1..Len(str)
      BY <1>1, <2>1
    <3> QED
      BY <2>1, <3>1, ElementOfSeq
  <2>2. CASE i \notin b.wpos + 1..end
    <3>1. i - 1 \in Nat
      BY <1>1
    <3>2. Read(b, i - 1) \in Text
      BY <3>1, ReadIsText
    <3> QED
      BY <2>2, <3>2
  <2> QED
    BY <2>1, <2>2
<1>3. bytes \in [1..n -> Text]
  BY <1>2
<1>4. bytes \in Seq(Text) /\ Len(bytes) = n
  <2> HIDE DEF bytes, n
  <2> QED
    BY <1>1, <1>3, SeqDef
<1>5. PutString(b, str) = [bytes |-> bytes, rpos |-> b.rpos, wpos |-> end % Word]
  <2>1. PutString(b, str) = [b EXCEPT !.bytes = bytes, !.wpos = end % Word]
    BY Zenon DEF PutString
  <2> HIDE DEF bytes, end
  <2> QED
    BY ZenonT(40), <2>1, BufferFields
<1>6. b.rpos \in Int /\ b.rpos % Word = b.rpos
  BY BufferFields, Wraps
<1>7. PutString(b, str) \in TextBuffer
  <2> HIDE DEF bytes, n, end
  <2>1. \A s \in Seq(Text), r, w \in Int :
          [bytes |-> s, rpos |-> r % Word, wpos |-> w % Word] \in TextBuffer
    BY MakeBuffer
  <2>2. bytes \in Seq(Text) /\ b.rpos \in Int /\ end \in Int
    BY <1>1, <1>4, <1>6
  <2>3. [bytes |-> bytes, rpos |-> b.rpos % Word, wpos |-> end % Word] \in TextBuffer
    BY <2>1, <2>2, Zenon
  <2> QED
    BY <1>5, <1>6, <2>3
<1>8. PutString(b, str).bytes = bytes /\ Size(PutString(b, str)) = n
  <2> HIDE DEF bytes, n
  <2> QED
    BY <1>4, <1>5 DEF Size
<1>9. \A i \in 1..n : PutString(b, str).bytes[i] =
                IF i \in (b.wpos + 1)..(b.wpos + Len(str)) THEN str[i - b.wpos] ELSE Read(b, i - 1)
  BY <1>8
<1>10. PutString(b, str).rpos = b.rpos /\ PutString(b, str).wpos = end % Word
  <2> HIDE DEF bytes, end
  <2> QED
    BY <1>5
<1>11. Size(PutString(b, str)) = n
  BY <1>8
<1> QED
  BY <1>7, <1>9, <1>10, <1>11

----------------------------------------------------------------------------
(* What parse() reads of a buffer, and the buffer it leaves.               *)

LEMMA FirstLineEndIsOne ==
  ASSUME NEW b \in TextBuffer, LineEnds(b) # {}
  PROVE  /\ FirstLineEnd(b) \in LineEnds(b)
         /\ FirstLineEnd(b) \in Nat
         /\ b.rpos <= FirstLineEnd(b) /\ FirstLineEnd(b) + 2 <= Size(b)
<1>1. b.rpos \in Nat /\ Size(b) \in Nat
  BY BufferFields
<1>2. LineEnds(b) \in SUBSET (b.rpos..(Size(b) - 2))
  BY DEF LineEnds
<1>3. IsFiniteSet(LineEnds(b))
  <2>1. b.rpos \in Int /\ Size(b) - 2 \in Int
    BY <1>1
  <2>2. IsFiniteSet(b.rpos..(Size(b) - 2))
    BY <2>1, FS_Interval
  <2> QED
    BY <1>2, <2>2, FS_Subset
<1>4. LineEnds(b) \in SUBSET Nat
  BY <1>1, <1>2
<1>5. Min(LineEnds(b)) \in LineEnds(b)
  BY <1>3, <1>4, LeastIsMember
<1>6. FirstLineEnd(b) = Min(LineEnds(b))
  BY DEF FirstLineEnd, Min
<1> QED
  BY <1>1, <1>2, <1>5, <1>6

LEMMA LineType ==
  ASSUME NEW b \in TextBuffer
  PROVE  /\ Line(b) \in Seq(Text)
         /\ Line(b) # <<>> => Line(b)[1] \in Text /\ LineEnds(b) # {}
<1>1. CASE LineEnds(b) = {}
  BY <1>1, EmptySeq DEF Line
<1>2. CASE LineEnds(b) # {}
  <2>1. /\ b.bytes \in Seq(Text) /\ b.rpos + 1 \in Nat /\ b.rpos + 1 >= 1
        /\ FirstLineEnd(b) \in Nat /\ FirstLineEnd(b) <= Len(b.bytes)
    BY <1>2, FirstLineEndIsOne, BufferFields DEF Size
  <2>2. Line(b) = SubSeq(b.bytes, b.rpos + 1, FirstLineEnd(b))
    BY <1>2 DEF Line
  <2>3. Line(b) \in Seq(Text)
    BY <2>1, <2>2, TailIsText
  <2>4. Line(b) # <<>> => Line(b)[1] \in Text
    BY <2>3, EmptySeq, ElementOfSeq
  <2> QED
    BY <1>2, <2>3, <2>4
<1> QED
  BY <1>1, <1>2

LEMMA AfterLineType ==
  ASSUME NEW b \in TextBuffer
  PROVE  AfterLine(b) \in TextBuffer
<1>1. LineEnds(b) # {} => FirstLineEnd(b) + 2 \in Int
  BY FirstLineEndIsOne
<1> QED
  BY <1>1, SetReadPosType DEF AfterLine

LEMMA AfterChunkEndType ==
  ASSUME NEW b \in TextBuffer
  PROVE  AfterChunkEnd(b) \in TextBuffer /\ StepBack(b) \in TextBuffer
<1>1. b.rpos + 1 \in Int /\ b.rpos + 2 \in Int /\ b.rpos - 1 \in Int
  BY BufferFields
<1> QED
  BY <1>1, SetReadPosType, EraseReadType DEF AfterChunkEnd, StepBack

LEMMA DataToStringType ==
  ASSUME NEW b \in TextBuffer, NEW len \in Nat
  PROVE  /\ DataToString(b, len) \in Seq(Text)
         /\ Len(DataToString(b, len)) = IF len > Size(b) THEN Size(b) ELSE len
         /\ AfterDataToString(b, len) \in TextBuffer
<1> DEFINE n == IF len > Size(b) THEN Size(b) ELSE len
<1>1. n \in Nat /\ n <= Len(b.bytes) /\ b.bytes \in Seq(Text)
  BY BufferFields DEF Size
<1>2. SubSeq(b.bytes, 1, n) \in Seq(Text) /\ Len(SubSeq(b.bytes, 1, n)) = n
  <2> HIDE DEF n
  <2> QED
    BY <1>1, TailIsText
<1>3. (IF len > Size(b) THEN Size(b) ELSE b.rpos + len) \in Int
  BY BufferFields
<1> QED
  BY <1>2, <1>3, SetReadPosType DEF DataToString, AfterDataToString

----------------------------------------------------------------------------
(* The types.                                                              *)

TypeInv == TypeOK /\ buffer.bytes \in Seq(Text)

LEMMA StreamsAreText ==
  ASSUME NEW s \in Streams PROVE s \in Seq(Text)
  BY RequestParserAssumption

LEMMA BufferIsText == TypeInv => buffer \in TextBuffer
  BY DEF TypeInv, TypeOK, TextBuffer

LEMMA InitType == Init => TypeInv
<1> SUFFICES ASSUME Init PROVE TypeInv
  OBVIOUS
<1>1. Len(stream) \in Nat /\ 0 \in 0..Len(stream)
  BY StreamsAreText, LenProperties DEF Init
<1>2. buffer \in Buffer /\ buffer.bytes \in Seq(Text)
  BY EmptyBuffer DEF Init, TextBuffer
<1>3. tempBody \in Seq(Symbol) /\ data \in Seq(Symbol)
  BY EmptySeq DEF Init
<1>4. stream \in Streams /\ delivered \in 0..Len(stream)
  BY <1>1 DEF Init
<1>5. headers \in [te : {Chunked, NotChunked, Other}, cl : Int] /\ chunk_size \in Int /\ chunkBodyRead_size \in Nat
  BY DEF Init, Other
<1>6. /\ status \in Statuses /\ method \in Methods \cup {Unknown}
      /\ parsing \in BOOLEAN /\ chunked_status \in BOOLEAN
  BY DEF Init, Statuses
<1> QED
  BY <1>2, <1>3, <1>4, <1>5, <1>6 DEF TypeInv, TypeOK

LEMMA ReceiveType == TypeInv /\ Receive => TypeInv'
<1> SUFFICES ASSUME TypeInv, Receive PROVE TypeInv'
  OBVIOUS
<1>1. PICK n \in 1..(Len(stream) - delivered) :
        /\ buffer' = PutString(buffer, UpToNul(SubSeq(stream, delivered + 1, delivered + n)))
        /\ delivered' = delivered + n
  BY DEF Receive
<1>2. stream \in Seq(Text) /\ Len(stream) \in Nat /\ delivered \in 0..Len(stream)
  BY StreamsAreText, LenProperties DEF TypeInv, TypeOK
<1>3. delivered' \in 0..Len(stream)
  BY <1>1, <1>2
<1>4. SubSeq(stream, delivered + 1, delivered + n) \in Seq(Text)
  <2>1. delivered + 1 \in Nat /\ delivered + n \in Nat /\ delivered + n <= Len(stream)
        /\ delivered + 1 >= 1
    BY <1>2
  <2> QED
    BY <1>2, <2>1, TailIsText
<1>5. buffer' \in TextBuffer
  BY <1>1, <1>4, UpToNulType, PutStringType, BufferIsText
<1> QED
  BY <1>3, <1>5 DEF Receive, TypeInv, TypeOK, TextBuffer, chunkVars

\* What every step of parse() has to leave well typed; the peer's part it leaves
\* alone.
ParserTypes ==
  /\ buffer \in TextBuffer
  /\ status \in Statuses
  /\ parsing \in BOOLEAN
  /\ method \in Methods \cup {Unknown}
  /\ headers \in [te : {Chunked, NotChunked, Other}, cl : Int]
  /\ chunked_status \in BOOLEAN
  /\ chunk_size \in Int
  /\ chunkBodyRead_size \in Nat
  /\ tempBody \in Seq(Symbol)
  /\ data \in Seq(Symbol)

LEMMA TypeParts ==
  TypeInv <=> stream \in Streams /\ delivered \in 0..Len(stream) /\ ParserTypes
  BY DEF TypeInv, TypeOK, ParserTypes, TextBuffer

LEMMA TypePartsNext ==
  TypeInv' <=> (stream' \in Streams /\ delivered' \in 0..Len(stream') /\ ParserTypes')
  BY DEF TypeInv, TypeOK, ParserTypes, TextBuffer

LEMMA StartLineType == ParserTypes /\ ParseStartLine => ParserTypes'
<1> SUFFICES ASSUME ParserTypes, ParseStartLine PROVE ParserTypes'
  OBVIOUS
<1>1. AfterLine(buffer) \in TextBuffer /\ EraseRead(AfterLine(buffer)) \in TextBuffer
  BY AfterLineType, EraseReadType DEF ParserTypes
<1>2. buffer' \in TextBuffer
  BY <1>1 DEF ParseStartLine
<1>3. method' \in Methods \cup {Unknown}
  BY LineType DEF ParseStartLine, ParserTypes, Text
<1> QED
  BY <1>2, <1>3
     DEF ParseStartLine, ParserTypes, Return, GoOn, Statuses, chunkVars, peerVars

LEMMA HeadersType == ParserTypes /\ ParseHeaders => ParserTypes'
<1> SUFFICES ASSUME ParserTypes, ParseHeaders PROVE ParserTypes'
  OBVIOUS
<1>1. AfterLine(buffer) \in TextBuffer /\ EraseRead(AfterLine(buffer)) \in TextBuffer
  BY AfterLineType, EraseReadType DEF ParserTypes
<1>2. buffer' \in TextBuffer
  BY <1>1 DEF ParseHeaders
<1>3. ASSUME NEW val \in Int PROVE AddHeader(headers, val) \in [te : {Chunked, NotChunked, Other}, cl : Int]
  BY DEF AddHeader, First, ParserTypes
<1>4. Line(buffer) # <<>> => Line(buffer)[1].val \in Int
  BY LineType DEF ParserTypes, Text, Symbol
<1>5. headers' \in [te : {Chunked, NotChunked, Other}, cl : Int]
  BY <1>3, <1>4 DEF ParseHeaders, ParserTypes
<1> QED
  BY <1>2, <1>5
     DEF ParseHeaders, ParserTypes, Return, GoOn, Statuses, chunkVars, peerVars

LEMMA CheckChunkedType == ParserTypes /\ CheckChunked => ParserTypes'
  BY DEF CheckChunked, ParserTypes, Return, GoOn, Statuses, chunkVars, peerVars

LEMMA BodyType == ParserTypes /\ ParseBodyContentLen => ParserTypes'
<1> SUFFICES ASSUME ParserTypes, ParseBodyContentLen PROVE ParserTypes'
  OBVIOUS
<1>1. /\ buffer.bytes \in Seq(Text) /\ Size(buffer) = Len(buffer.bytes) /\ Size(buffer) \in Nat
      /\ buffer.rpos + 1 \in Nat /\ buffer.rpos + 1 >= 1
  BY BufferFields DEF ParserTypes, Size
<1>2. SubSeq(buffer.bytes, buffer.rpos + 1, Size(buffer)) \in Seq(Symbol)
  BY <1>1, TailIsText, TextIsSymbol
<1>3. EraseRead(buffer) \in TextBuffer
  BY EraseReadType DEF ParserTypes
<1> QED
  BY <1>2, <1>3
     DEF ParseBodyContentLen, ParserTypes, Return, Statuses, chunkVars, peerVars

LEMMA ChunkSizeType == ParserTypes /\ ParseChunkSize => ParserTypes'
<1> SUFFICES ASSUME ParserTypes, ParseChunkSize PROVE ParserTypes'
  OBVIOUS
<1>1. AfterLine(buffer) \in TextBuffer /\ EraseRead(AfterLine(buffer)) \in TextBuffer
  BY AfterLineType, EraseReadType DEF ParserTypes
<1>2. buffer' \in TextBuffer
  BY <1>1 DEF ParseChunkSize
<1>3. Line(buffer) # <<>> => Strtol(Line(buffer)) \subseteq Int
  <2>1. Line(buffer) # <<>> => Line(buffer)[1].val \in Int
    BY LineType DEF ParserTypes, Text, Symbol
  <2> QED
    BY <2>1, RequestParserAssumption DEF Strtol
<1>4. chunk_size' \in Int /\ chunked_status' \in BOOLEAN
  BY <1>3 DEF ParseChunkSize, ParserTypes
<1> QED
  BY <1>2, <1>4 DEF ParseChunkSize, ParserTypes, Return, GoOn, Statuses, peerVars

LEMMA LastChunkType == ParserTypes /\ ParseLastChunk => ParserTypes'
<1> SUFFICES ASSUME ParserTypes, ParseLastChunk PROVE ParserTypes'
  OBVIOUS
<1>1. buffer' \in TextBuffer
  BY AfterChunkEndType DEF ParserTypes, ParseLastChunk
<1> QED
  BY <1>1 DEF ParseLastChunk, ParserTypes, Return, Statuses, chunkVars, peerVars

LEMMA ChunkDataType == ParserTypes /\ ParseChunkData => ParserTypes'
<1> SUFFICES ASSUME ParserTypes, ParseChunkData PROVE ParserTypes'
  OBVIOUS
<1> DEFINE len   == chunk_size - chunkBodyRead_size
           after == EraseRead(AfterDataToString(buffer, len))
<1>1. len \in Nat
  BY DEF ParseChunkData, ParserTypes
<1>2. /\ ChunkRest(buffer) \in Seq(Text) /\ Len(ChunkRest(buffer)) \in Nat
      /\ AfterDataToString(buffer, len) \in TextBuffer
  <2> HIDE DEF len
  <2>1. DataToString(buffer, len) \in Seq(Text) /\ AfterDataToString(buffer, len) \in TextBuffer
    BY <1>1, DataToStringType DEF ParserTypes
  <2>2. ChunkRest(buffer) = DataToString(buffer, len)
    BY DEF ChunkRest, len
  <2> QED
    BY <2>1, <2>2, LenProperties
<1>3. after \in TextBuffer /\ AfterChunkEnd(after) \in TextBuffer
  <2>1. after \in TextBuffer
    BY <1>2, EraseReadType
  <2> QED
    BY <2>1, AfterChunkEndType
<1>4. buffer' \in TextBuffer
  BY <1>3 DEF ParseChunkData
<1>5. tempBody' \in Seq(Symbol)
  <2>1. ChunkRest(buffer) \in Seq(Symbol) /\ tempBody \in Seq(Symbol)
    BY <1>2, TextIsSymbol DEF ParserTypes
  <2>2. tempBody \o ChunkRest(buffer) \in Seq(Symbol)
    BY <2>1, ConcatProperties
  <2> QED
    BY <2>2 DEF ParseChunkData
<1>6. chunkBodyRead_size' \in Nat
  <2> HIDE DEF len, after
  <2>1. chunkBodyRead_size + Len(ChunkRest(buffer)) \in Nat
    BY <1>2 DEF ParserTypes
  <2>2. chunkBodyRead_size' \in {chunkBodyRead_size + Len(ChunkRest(buffer)), 0}
    BY Zenon DEF ParseChunkData
  <2> QED
    BY <2>1, <2>2
<1>7. /\ chunked_status' \in BOOLEAN /\ status' \in Statuses /\ parsing' \in BOOLEAN
      /\ UNCHANGED <<method, headers, chunk_size, data>>
  BY DEF ParseChunkData, ParserTypes, GoOn, AwaitChunkEnd, Return, Statuses
<1> QED
  BY <1>4, <1>5, <1>6, <1>7 DEF ParserTypes

LEMMA NoMoreChunksType == ParserTypes /\ ParseNoMoreChunks => ParserTypes'
  BY DEF ParseNoMoreChunks, ParserTypes, Return, Statuses, chunkVars, peerVars

LEMMA ParseType == TypeInv /\ Parse => TypeInv'
<1> SUFFICES ASSUME TypeInv, Parse PROVE TypeInv'
  OBVIOUS
<1>1. ParserTypes
  BY TypeParts
<1>2. ParserTypes'
  BY <1>1, StartLineType, HeadersType, CheckChunkedType, BodyType, ChunkSizeType,
     LastChunkType, ChunkDataType, NoMoreChunksType DEF Parse
<1>3. UNCHANGED peerVars
  BY DEF Parse, ParseStartLine, ParseHeaders, CheckChunked, ParseBodyContentLen,
         ParseChunkSize, ParseLastChunk, ParseChunkData, ParseNoMoreChunks
<1> QED
  BY <1>2, <1>3, TypeParts, TypePartsNext DEF peerVars

LEMMA StutterType == TypeInv /\ UNCHANGED vars => TypeInv'
  BY DEF TypeInv, TypeOK, vars, peerVars, chunkVars

LEMMA TypeInvHolds == Spec => []TypeInv
  BY InitType, ReceiveType, ParseType, StutterType, PTL DEF Spec, Next

\* In every behaviour every variable has its type: whatever is sent and however
\* it is cut, the two positions of the buffer stay those of an unsigned int.
THEOREM TypeCorrect == Spec => []TypeOK
  BY TypeInvHolds, PTL DEF TypeInv

----------------------------------------------------------------------------
(* The end of what was received.                                           *)

\* Streams that fit the positions and hold no zero byte, at which strlen()
\* would end a segment.
Ordinary ==
  \A s \in Streams : Len(s) < Word /\ \A i \in 1..Len(s) : s[i] # NUL

\* Is b the last Size(b) of the first d symbols of the stream?
IsEnd(b, d) ==
  /\ Size(b) <= d
  /\ \A i \in 1..Size(b) : b.bytes[i] = stream[d - Size(b) + i]
  /\ b.wpos = Size(b)

\* The read position is within the buffer, but behind the last chunk, where it
\* may walk below zero; and at its front while data of a chunk is to be taken
\* there.
PositionInv ==
  /\ \/ Final
     \/ status = "CHUNK" /\ chunked_status /\ chunk_size = 0
     \/ buffer.rpos <= Size(buffer)
  /\ status = "PREBODY" => buffer.rpos = 0
  /\ status = "CHUNK" /\ chunked_status /\ chunk_size > chunkBodyRead_size => buffer.rpos = 0

\* A buffer that parse() may leave behind.
Fit(b) == b \in TextBuffer /\ Size(b) < Word /\ IsEnd(b, delivered)

EndInv == IsEnd(buffer, delivered) /\ PositionInv

LEMMA MovedStaysFit ==
  ASSUME NEW b \in TextBuffer, NEW r \in Int, Fit(b)
  PROVE  /\ Fit(SetReadPos(b, r))
         /\ Size(SetReadPos(b, r)) = Size(b)
         /\ r \in 0..Size(b) => SetReadPos(b, r).rpos = r
<1>1. r \in 0..Size(b) => r % Word = r
  <2>1. Size(b) \in Nat /\ Size(b) < Word /\ Word \in Nat
    BY BufferFields, ByteBufferAssumption DEF Fit
  <2>2. r \in 0..Size(b) => r \in 0..(Word - 1)
    BY <2>1
  <2> QED
    BY <2>2, Wraps
<1> QED
  BY <1>1, SetReadPosType DEF Fit, IsEnd

LEMMA ErasedStaysFit ==
  ASSUME NEW b \in TextBuffer, Fit(b), b.rpos <= Size(b), delivered \in Nat
  PROVE  /\ Fit(EraseRead(b)) /\ EraseRead(b).rpos = 0
         /\ Size(EraseRead(b)) = Size(b) - b.rpos
<1> DEFINE e == b.rpos
           c == EraseRead(b)
<1>1. e \in 0..Size(b) /\ Size(b) \in Nat /\ b.bytes \in Seq(Text) /\ b.wpos = Size(b)
      /\ Size(b) = Len(b.bytes) /\ Size(b) < Word /\ Size(b) <= delivered
      /\ Word \in Nat
  BY BufferFields, ByteBufferAssumption DEF Fit, IsEnd, Size
<1>2. c \in TextBuffer
  BY EraseReadType
<1>3. CASE e = Size(b)
  <2>1. c = Empty
    BY <1>3 DEF EraseRead, Erase
  <2>2. Size(c) = 0 /\ c.wpos = 0 /\ c.rpos = 0
    BY <2>1, EmptySeq DEF Empty, Size
  <2> HIDE DEF c
  <2>3. Fit(c)
    BY <1>1, <1>2, <2>2 DEF Fit, IsEnd
  <2>4. Size(b) - e = 0
    BY <1>1, <1>3
  <2> QED
    BY <2>2, <2>3, <2>4 DEF c
<1>4. CASE e # Size(b)
  <2>1. c = [bytes |-> SubSeq(b.bytes, e + 1, Size(b)), rpos |-> (b.rpos - e) % Word,
             wpos |-> (b.wpos - e) % Word]
    BY <1>4 DEF EraseRead, Erase
  <2>2. (b.rpos - e) % Word = 0
    <3>1. b.rpos - e = 0 /\ 0 \in 0..(Word - 1) /\ 0 \in Int
      BY <1>1
    <3>2. 0 % Word = 0
      BY <3>1, Wraps
    <3> QED
      BY <3>1, <3>2
  <2>3. (b.wpos - e) % Word = Size(b) - e
    <3>1. b.wpos - e \in 0..(Word - 1) /\ b.wpos - e \in Int /\ b.wpos - e = Size(b) - e
      BY <1>1
    <3> QED
      BY <3>1, Wraps
  <2>4. /\ Len(SubSeq(b.bytes, e + 1, Size(b))) = Size(b) - e
        /\ \A i \in 1..(Size(b) - e) : SubSeq(b.bytes, e + 1, Size(b))[i] = b.bytes[e + i]
    <3>1. /\ e + 1 \in Nat /\ e + 1 >= 1 /\ e + 1 <= Size(b)
          /\ Size(b) - (e + 1) + 1 = Size(b) - e
          /\ \A i \in 1..(Size(b) - e) : (e + 1) + i - 1 = e + i
      BY <1>1, <1>4, SMTT(30)
    <3> HIDE DEF e
    <3> QED
      BY <1>1, <3>1, TailIsText
  <2>5. Size(c) = Size(b) - e /\ c.wpos = Size(b) - e /\ c.rpos = 0
        /\ \A i \in 1..(Size(b) - e) : c.bytes[i] = b.bytes[e + i]
    <3> HIDE DEF c, e
    <3> QED
      BY <2>1, <2>2, <2>3, <2>4 DEF Size
  <2>6. ASSUME NEW i \in 1..(Size(b) - e)
        PROVE  c.bytes[i] = stream[delivered - (Size(b) - e) + i]
    <3>1. e + i \in 1..Size(b)
          /\ delivered - Size(b) + (e + i) = delivered - (Size(b) - e) + i
      BY <1>1, SMTT(30)
    <3>2. b.bytes[e + i] = stream[delivered - Size(b) + (e + i)]
      BY <3>1 DEF Fit, IsEnd
    <3> QED
      BY <2>5, <3>1, <3>2
  <2>7. Size(b) - e <= delivered /\ Size(b) - e < Word
    BY <1>1
  <2> HIDE DEF c, e
  <2>8. Fit(c)
    BY <1>2, <2>5, <2>6, <2>7 DEF Fit, IsEnd
  <2> QED
    BY <2>5, <2>8 DEF c, e
<1> QED
  BY <1>3, <1>4

LEMMA GrownStaysEnd ==
  ASSUME NEW b \in TextBuffer, NEW seg \in Seq(Text), NEW d \in Nat, IsEnd(b, d),
         d + Len(seg) < Word, \A i \in 1..Len(seg) : seg[i] = stream[d + i]
  PROVE  /\ IsEnd(PutString(b, seg), d + Len(seg))
         /\ Size(PutString(b, seg)) = Size(b) + Len(seg)
<1> DEFINE c == PutString(b, seg)
<1>1. /\ Size(b) \in Nat /\ Len(seg) \in Nat /\ b.wpos = Size(b) /\ Size(b) <= d
      /\ Size(b) = Len(b.bytes) /\ Word \in Nat
  BY BufferFields, LenProperties, ByteBufferAssumption DEF IsEnd, Size
<1>2. /\ c.wpos = (Size(b) + Len(seg)) % Word
      /\ Size(c) = IF Size(b) < Size(b) + Len(seg) THEN Size(b) + Len(seg) ELSE Size(b)
      /\ \A i \in 1..Size(c) :
           c.bytes[i] = IF i \in (Size(b) + 1)..(Size(b) + Len(seg)) THEN seg[i - Size(b)]
                                                                     ELSE Read(b, i - 1)
  BY <1>1, PutStringType
<1>3. Size(c) = Size(b) + Len(seg)
  <2>1. Size(c) = IF Size(b) < Size(b) + Len(seg) THEN Size(b) + Len(seg) ELSE Size(b)
    BY <1>2
  <2>2. \A x, l \in Nat : (IF x < x + l THEN x + l ELSE x) = x + l
    OBVIOUS
  <2>3. (IF Size(b) < Size(b) + Len(seg) THEN Size(b) + Len(seg) ELSE Size(b))
          = Size(b) + Len(seg)
    BY <1>1, <2>2
  <2> HIDE DEF c
  <2> QED
    BY <2>1, <2>3, Zenon
<1>4. c.wpos = Size(c)
  <2>1. Size(b) + Len(seg) \in Int /\ Size(b) + Len(seg) \in 0..(Word - 1)
    BY <1>1
  <2> QED
    BY <1>2, <1>3, <2>1, Wraps
<1>5. ASSUME NEW i \in 1..Size(c)
      PROVE  c.bytes[i] = stream[(d + Len(seg)) - Size(c) + i]
  <2> HIDE DEF c
  <2>1. i \in Nat /\ (d + Len(seg)) - Size(c) + i = d - Size(b) + i
    <3>1. \A e, l, x, k \in Nat : k \in 1..(x + l) => (e + l) - (x + l) + k = e - x + k
      OBVIOUS
    <3>2. i \in Nat /\ i \in 1..(Size(b) + Len(seg)) /\ Len(seg) \in Nat /\ Size(b) \in Nat
      <4>1. Len(seg) \in Nat /\ Size(b) \in Nat
        BY <1>1
      <4> QED
        BY <1>3, <4>1
    <3>3. (d + Len(seg)) - (Size(b) + Len(seg)) + i = d - Size(b) + i
      BY <3>1, <3>2
    <3> QED
      BY <1>3, <3>2, <3>3
  <2>2. CASE i \in (Size(b) + 1)..(Size(b) + Len(seg))
    <3>1. i - Size(b) \in 1..Len(seg) /\ d + (i - Size(b)) = d - Size(b) + i
      BY <1>1, <2>1, <2>2, SMTT(30)
    <3>2. seg[i - Size(b)] = stream[d + (i - Size(b))]
      BY <3>1
    <3> QED
      BY <1>2, <2>1, <2>2, <3>1, <3>2
  <2>3. CASE i \notin (Size(b) + 1)..(Size(b) + Len(seg))
    <3>1. i \in 1..Size(b) /\ (i - 1) + 1 = i /\ i <= Size(b)
      BY <1>1, <1>3, <2>1, <2>3
    <3>2. Read(b, i - 1) = b.bytes[i]
      BY <3>1 DEF Read
    <3>3. b.bytes[i] = stream[d - Size(b) + i]
      BY <3>1 DEF IsEnd
    <3> QED
      BY <1>2, <2>1, <2>3, <3>2, <3>3
  <2> QED
    BY <2>2, <2>3
<1>6. Size(c) <= d + Len(seg)
  BY <1>1, <1>3
<1> QED
  <2> HIDE DEF c
  <2>1. IsEnd(c, d + Len(seg))
    BY <1>4, <1>5, <1>6 DEF IsEnd
  <2> QED
    BY <1>3, <2>1 DEF c

LEMMA AfterLineStaysFit ==
  ASSUME NEW b \in TextBuffer, Fit(b)
  PROVE  /\ Fit(AfterLine(b))
         /\ b.rpos <= Size(b) \/ LineEnds(b) # {} => AfterLine(b).rpos <= Size(AfterLine(b))
<1>1. CASE LineEnds(b) = {}
  BY <1>1 DEF AfterLine
<1>2. CASE LineEnds(b) # {}
  <2>1. FirstLineEnd(b) + 2 \in Int /\ FirstLineEnd(b) + 2 \in 0..Size(b)
    <3>1. FirstLineEnd(b) \in Nat /\ FirstLineEnd(b) + 2 <= Size(b) /\ Size(b) \in Nat
      BY <1>2, FirstLineEndIsOne, BufferFields
    <3> QED
      BY <3>1
  <2>2. AfterLine(b) = SetReadPos(b, FirstLineEnd(b) + 2)
    BY <1>2 DEF AfterLine
  <2>3. FirstLineEnd(b) + 2 <= Size(b)
    BY <1>2, FirstLineEndIsOne
  <2> QED
    BY <2>1, <2>2, <2>3, MovedStaysFit
<1> QED
  BY <1>1, <1>2

LEMMA ReadIsInside ==
  ASSUME NEW b \in TextBuffer, NEW k \in Nat, Read(b, k) # NUL
  PROVE  k + 1 <= Size(b)
  BY DEF Read

LEMMA AfterChunkEndStaysFit ==
  ASSUME NEW b \in TextBuffer, Fit(b), delivered \in Nat
  PROVE  /\ Fit(AfterChunkEnd(b)) /\ Fit(StepBack(b))
         /\ ChunkEnds(b) => AfterChunkEnd(b).rpos = 0
         /\ b.rpos <= Size(b) => AfterChunkEnd(b).rpos <= Size(AfterChunkEnd(b))
<1>1. b.rpos \in Nat /\ Size(b) \in Nat
  BY BufferFields
<1>2. Fit(StepBack(b))
  BY <1>1, MovedStaysFit DEF StepBack
<1>3. CR # NUL /\ LF # NUL
  BY DEF CR, LF, NUL
<1>4. CASE ChunkEnds(b)
  <2> DEFINE c == SetReadPos(b, b.rpos + 2)
  <2>1. b.rpos + 1 \in Nat /\ Read(b, b.rpos + 1) # NUL
    BY <1>1, <1>3, <1>4 DEF ChunkEnds
  <2>2. b.rpos + 1 + 1 <= Size(b)
    BY <2>1, ReadIsInside
  <2>3. b.rpos + 2 \in 0..Size(b) /\ b.rpos + 2 \in Int
    BY <1>1, <2>2
  <2>4. Fit(c) /\ c.rpos <= Size(c) /\ c \in TextBuffer
    <3>1. Fit(c) /\ Size(c) = Size(b) /\ c.rpos = b.rpos + 2
      BY <2>3, MovedStaysFit
    <3>2. c.rpos <= Size(c)
      <4> HIDE DEF c
      <4> QED
        BY <1>1, <2>3, <3>1
    <3> QED
      BY <3>1, <3>2 DEF Fit
  <2>5. Fit(EraseRead(c)) /\ EraseRead(c).rpos = 0
    <3> HIDE DEF c
    <3> QED
      BY <2>4, ErasedStaysFit
  <2>6. AfterChunkEnd(b) = EraseRead(c)
    BY <1>4 DEF AfterChunkEnd
  <2>7. Size(EraseRead(c)) \in Nat
    <3> HIDE DEF c
    <3> QED
      BY <2>5, BufferFields DEF Fit
  <2> HIDE DEF c
  <2> QED
    BY <1>2, <2>5, <2>6, <2>7
<1>5. CASE ~ChunkEnds(b) /\ Read(b, b.rpos) = CR
  <2>1. b.rpos + 1 <= Size(b)
    BY <1>1, <1>3, <1>5, ReadIsInside
  <2>2. b.rpos + 1 \in Int /\ b.rpos + 1 \in 0..Size(b)
    BY <1>1, <2>1
  <2>3. AfterChunkEnd(b) = SetReadPos(b, b.rpos + 1)
    BY <1>5 DEF AfterChunkEnd
  <2> QED
    BY <1>2, <1>5, <2>1, <2>2, <2>3, MovedStaysFit
<1>6. CASE ~ChunkEnds(b) /\ Read(b, b.rpos) # CR
  <2>1. AfterChunkEnd(b) = b
    BY <1>6 DEF AfterChunkEnd
  <2> QED
    BY <1>2, <1>6, <2>1
<1> QED
  BY <1>4, <1>5, <1>6

\* getDataToString() takes the first bytes and erase() those before the read
\* position: they are the same ones as long as the position was at the front.
LEMMA AfterDataStaysFit ==
  ASSUME NEW b \in TextBuffer, NEW len \in Nat, Fit(b), delivered \in Nat,
         b.rpos <= Size(b), len > 0 => b.rpos = 0
  PROVE  /\ Fit(EraseRead(AfterDataToString(b, len)))
         /\ EraseRead(AfterDataToString(b, len)).rpos = 0
<1> DEFINE r == IF len > Size(b) THEN Size(b) ELSE b.rpos + len
           c == SetReadPos(b, r)
<1>1. b.rpos \in Nat /\ Size(b) \in Nat
  BY BufferFields
<1>2. r \in 0..Size(b) /\ r \in Int /\ r <= Size(b)
  BY <1>1
<1>3. Fit(c) /\ Size(c) = Size(b) /\ c.rpos = r
  <2> HIDE DEF r
  <2> QED
    BY <1>2, MovedStaysFit
<1>4. c.rpos <= Size(c)
  <2> HIDE DEF c, r
  <2> QED
    BY <1>2, <1>3
<1>5. Fit(EraseRead(c)) /\ EraseRead(c).rpos = 0
  <2> HIDE DEF c
  <2> QED
    BY <1>3, <1>4, ErasedStaysFit DEF Fit
<1>6. AfterDataToString(b, len) = c
  BY DEF AfterDataToString
<1> QED
  BY <1>5, <1>6

LEMMA FitBuffer ==
  ASSUME Ordinary, TypeInv, EndInv
  PROVE  /\ Fit(buffer) /\ buffer \in TextBuffer /\ delivered \in Nat
         /\ Size(buffer) \in Nat /\ buffer.rpos \in Nat
         /\ stream \in Seq(Text) /\ Len(stream) \in Nat /\ Len(stream) < Word
         /\ delivered <= Len(stream)
<1>1. stream \in Streams /\ delivered \in 0..Len(stream)
  BY DEF TypeInv, TypeOK
<1>2. stream \in Seq(Text) /\ Len(stream) \in Nat /\ Len(stream) < Word
  BY <1>1, StreamsAreText, LenProperties DEF Ordinary
<1>3. delivered \in Nat /\ delivered <= Len(stream)
  BY <1>1, <1>2
<1>4. buffer \in TextBuffer
  BY BufferIsText
<1>5. Size(buffer) \in Nat /\ buffer.rpos \in Nat
  BY <1>4, BufferFields
<1>6. Size(buffer) <= delivered
  BY DEF EndInv, IsEnd
<1>7. Size(buffer) < Word
  BY <1>2, <1>3, <1>5, <1>6, ByteBufferAssumption
<1> QED
  BY <1>2, <1>3, <1>4, <1>5, <1>7 DEF Fit, EndInv

\* A step of parse() that leaves a fit buffer has only to keep the position.
LEMMA FitIsEnd ==
  ASSUME Fit(buffer'), UNCHANGED peerVars, PositionInv'
  PROVE  EndInv'
<1>1. IsEnd(buffer', delivered) /\ stream' = stream /\ delivered' = delivered
  BY DEF Fit, peerVars
<1>2. IsEnd(buffer, delivered)'
  BY <1>1 DEF IsEnd, Size
<1> QED
  BY <1>2 DEF EndInv

LEMMA InitEnd == Ordinary /\ Init => EndInv
<1> SUFFICES ASSUME Ordinary, Init PROVE EndInv
  OBVIOUS
<1>1. buffer = Empty /\ delivered = 0
  BY DEF Init
<1>2. Size(buffer) = 0 /\ buffer.wpos = 0 /\ buffer.rpos = 0
  BY <1>1, EmptySeq DEF Empty, Size
<1>3. IsEnd(buffer, delivered)
  BY <1>1, <1>2 DEF IsEnd
<1>4. PositionInv
  BY <1>2 DEF PositionInv, Init
<1> QED
  BY <1>3, <1>4 DEF EndInv

LEMMA NoNulNoEnd ==
  ASSUME NEW seg \in Seq(Text), \A i \in 1..Len(seg) : seg[i] # NUL
  PROVE  UpToNul(seg) = seg
  BY DEF UpToNul

LEMMA ReceiveEnd == Ordinary /\ TypeInv /\ EndInv /\ Receive => EndInv'
<1> SUFFICES ASSUME Ordinary, TypeInv, EndInv, Receive PROVE EndInv'
  OBVIOUS
<1>0. /\ buffer \in TextBuffer /\ delivered \in Nat /\ Size(buffer) \in Nat /\ buffer.rpos \in Nat
      /\ stream \in Seq(Text) /\ Len(stream) \in Nat /\ Len(stream) < Word
      /\ delivered <= Len(stream)
  BY FitBuffer
<1>1. PICK n \in 1..(Len(stream) - delivered) :
        /\ buffer' = PutString(buffer, UpToNul(SubSeq(stream, delivered + 1, delivered + n)))
        /\ delivered' = delivered + n
  BY DEF Receive
<1> DEFINE seg == SubSeq(stream, delivered + 1, delivered + n)
<1>2. /\ n \in Nat /\ n >= 1 /\ delivered + 1 \in Nat /\ delivered + n \in Nat
      /\ delivered + 1 >= 1 /\ delivered + 1 <= delivered + n /\ delivered + n <= Len(stream)
      /\ (delivered + n) - (delivered + 1) + 1 = n
      /\ \A i \in 1..n : (delivered + 1) + i - 1 = delivered + i
  BY <1>0
<1>3. seg \in Seq(Text) /\ Len(seg) = n /\ \A i \in 1..n : seg[i] = stream[delivered + i]
  BY <1>0, <1>2, TailIsText
<1>4. \A i \in 1..Len(seg) : seg[i] # NUL
  <2>1. \A i \in 1..n : delivered + i \in 1..Len(stream)
    BY <1>0, <1>2
  <2>2. stream \in Streams
    BY DEF TypeInv, TypeOK
  <2> HIDE DEF seg
  <2> QED
    BY <1>3, <2>1, <2>2 DEF Ordinary
<1>5. buffer' = PutString(buffer, seg)
  <2> HIDE DEF seg
  <2>1. UpToNul(seg) = seg
    BY <1>3, <1>4, NoNulNoEnd
  <2> QED
    BY <1>1, <2>1 DEF seg
<1>6. delivered + Len(seg) < Word
  <2> HIDE DEF seg
  <2> QED
    BY <1>0, <1>2, <1>3, ByteBufferAssumption
<1>7. IsEnd(buffer', delivered + n) /\ Size(buffer') = Size(buffer) + n /\ buffer'.rpos = buffer.rpos
  <2> HIDE DEF seg
  <2>1. IsEnd(buffer, delivered)
    BY DEF EndInv
  <2>2. /\ IsEnd(PutString(buffer, seg), delivered + Len(seg))
        /\ Size(PutString(buffer, seg)) = Size(buffer) + Len(seg)
    BY <1>0, <1>3, <1>6, <2>1, GrownStaysEnd
  <2>3. PutString(buffer, seg).rpos = buffer.rpos
    BY <1>0, <1>3, PutStringType
  <2> QED
    BY <1>3, <1>5, <2>2, <2>3
<1>8. IsEnd(buffer, delivered)'
  BY <1>1, <1>7 DEF IsEnd, Size, Receive
<1>9. PositionInv'
  <2>1. buffer.rpos <= Size(buffer) => buffer'.rpos <= Size(buffer')
    BY <1>0, <1>2, <1>7
  <2>2. UNCHANGED <<status, chunkVars>> /\ ~Final
    BY DEF Receive
  <2> QED
    BY <1>7, <2>1, <2>2 DEF EndInv, PositionInv, Size, Final, chunkVars
<1> QED
  BY <1>8, <1>9 DEF EndInv

LEMMA StartLineEnd == Ordinary /\ TypeInv /\ EndInv /\ ParseStartLine => EndInv'
<1> SUFFICES ASSUME Ordinary, TypeInv, EndInv, ParseStartLine PROVE EndInv'
  OBVIOUS
<1>1. buffer \in TextBuffer /\ Fit(buffer) /\ delivered \in Nat
  BY FitBuffer
<1>2. buffer.rpos <= Size(buffer)
  BY DEF EndInv, PositionInv, Final, ParseStartLine
<1> DEFINE after == AfterLine(buffer)
<1>3. Fit(after) /\ after.rpos <= Size(after) /\ after \in TextBuffer
  BY <1>1, <1>2, AfterLineStaysFit, AfterLineType
<1>4. Fit(EraseRead(after)) /\ EraseRead(after).rpos = 0 /\ Size(EraseRead(after)) \in Nat
  <2> HIDE DEF after
  <2> QED
    BY <1>1, <1>3, ErasedStaysFit, EraseReadType, BufferFields
<1> HIDE DEF after
<1>5. buffer' \in {after, EraseRead(after)} /\ status' \in {"START_LINE", "BAD_REQUEST", "HEADERS"}
  BY DEF ParseStartLine, after, Return, GoOn
<1>6. Fit(buffer') /\ buffer'.rpos <= Size(buffer')
  BY <1>3, <1>4, <1>5
<1>7. PositionInv'
  BY <1>5, <1>6 DEF PositionInv, Size
<1> QED
  BY <1>6, <1>7, FitIsEnd DEF ParseStartLine

LEMMA HeadersEnd == Ordinary /\ TypeInv /\ EndInv /\ ParseHeaders => EndInv'
<1> SUFFICES ASSUME Ordinary, TypeInv, EndInv, ParseHeaders PROVE EndInv'
  OBVIOUS
<1>1. buffer \in TextBuffer /\ Fit(buffer) /\ delivered \in Nat
  BY FitBuffer
<1>2. buffer.rpos <= Size(buffer)
  BY DEF EndInv, PositionInv, Final, ParseHeaders
<1> DEFINE after == AfterLine(buffer)
<1>3. Fit(after) /\ after.rpos <= Size(after) /\ after \in TextBuffer
  BY <1>1, <1>2, AfterLineStaysFit, AfterLineType
<1>4. Fit(EraseRead(after)) /\ EraseRead(after).rpos = 0 /\ Size(EraseRead(after)) \in Nat
  <2> HIDE DEF after
  <2> QED
    BY <1>1, <1>3, ErasedStaysFit, EraseReadType, BufferFields
<1> HIDE DEF after
<1>5. \/ buffer' = after /\ status' \in {"BAD_REQUEST", "HEADERS"}
      \/ buffer' = EraseRead(after) /\ status' \in {"HEADERS", "PREBODY"}
  BY DEF ParseHeaders, after, Return, GoOn
<1>6. Fit(buffer') /\ buffer'.rpos <= Size(buffer')
  BY <1>3, <1>4, <1>5
<1>7. PositionInv'
  BY <1>4, <1>5, <1>6 DEF PositionInv, Size
<1> QED
  BY <1>6, <1>7, FitIsEnd DEF ParseHeaders

LEMMA CheckChunkedEnd == Ordinary /\ TypeInv /\ EndInv /\ CheckChunked => EndInv'
<1> SUFFICES ASSUME Ordinary, TypeInv, EndInv, CheckChunked PROVE EndInv'
  OBVIOUS
<1>1. Fit(buffer) /\ Size(buffer) \in Nat
  BY FitBuffer
<1>2. buffer' = buffer /\ buffer.rpos = 0
  BY DEF CheckChunked, EndInv, PositionInv
<1>3. status' \in {"COMPLETE", "CHUNK", "BAD_REQUEST", "BODY"}
  BY DEF CheckChunked, Return, GoOn
<1>4. 0 <= Size(buffer)
  BY <1>1
<1>5. PositionInv'
  BY <1>2, <1>3, <1>4 DEF PositionInv, Size
<1> QED
  BY <1>1, <1>2, <1>5, FitIsEnd DEF CheckChunked

LEMMA BodyEnd == Ordinary /\ TypeInv /\ EndInv /\ ParseBodyContentLen => EndInv'
<1> SUFFICES ASSUME Ordinary, TypeInv, EndInv, ParseBodyContentLen PROVE EndInv'
  OBVIOUS
<1>1. buffer \in TextBuffer /\ Fit(buffer) /\ delivered \in Nat
  BY FitBuffer
<1>2. buffer.rpos <= Size(buffer)
  BY DEF EndInv, PositionInv, Final, ParseBodyContentLen
<1>3. Fit(EraseRead(buffer)) /\ EraseRead(buffer).rpos = 0 /\ Size(EraseRead(buffer)) \in Nat
  BY <1>1, <1>2, ErasedStaysFit, EraseReadType, BufferFields
<1>4. buffer' \in {buffer, EraseRead(buffer)} /\ status' \in {"BODY", "COMPLETE"}
  BY DEF ParseBodyContentLen, Return
<1>5. Fit(buffer') /\ buffer'.rpos <= Size(buffer')
  BY <1>1, <1>2, <1>3, <1>4
<1>6. PositionInv'
  BY <1>4, <1>5 DEF PositionInv, Size
<1> QED
  BY <1>5, <1>6, FitIsEnd DEF ParseBodyContentLen

LEMMA ChunkSizeEnd == Ordinary /\ TypeInv /\ EndInv /\ ParseChunkSize => EndInv'
<1> SUFFICES ASSUME Ordinary, TypeInv, EndInv, ParseChunkSize PROVE EndInv'
  OBVIOUS
<1>1. buffer \in TextBuffer /\ Fit(buffer) /\ delivered \in Nat
  BY FitBuffer
<1>2. buffer.rpos <= Size(buffer)
  BY DEF EndInv, PositionInv, Final, ParseChunkSize
<1> DEFINE after == AfterLine(buffer)
<1>3. Fit(after) /\ after.rpos <= Size(after) /\ after \in TextBuffer
  BY <1>1, <1>2, AfterLineStaysFit, AfterLineType
<1>4. Fit(EraseRead(after)) /\ EraseRead(after).rpos = 0 /\ Size(EraseRead(after)) \in Nat
  <2> HIDE DEF after
  <2> QED
    BY <1>1, <1>3, ErasedStaysFit, EraseReadType, BufferFields
<1> HIDE DEF after
<1>5. \/ buffer' = after /\ status' = "CHUNK" /\ ~chunked_status'
      \/ buffer' = EraseRead(after) /\ status' = "CHUNK"
  BY DEF ParseChunkSize, after, Return, GoOn
<1>6. Fit(buffer') /\ buffer'.rpos <= Size(buffer')
  BY <1>3, <1>4, <1>5
<1>7. PositionInv'
  BY <1>4, <1>5, <1>6 DEF PositionInv, Size
<1> QED
  BY <1>6, <1>7, FitIsEnd DEF ParseChunkSize

LEMMA LastChunkEnd == Ordinary /\ TypeInv /\ EndInv /\ ParseLastChunk => EndInv'
<1> SUFFICES ASSUME Ordinary, TypeInv, EndInv, ParseLastChunk PROVE EndInv'
  OBVIOUS
<1> DEFINE after == AfterChunkEnd(buffer)
<1>1. Fit(after) /\ after \in TextBuffer
  BY FitBuffer, AfterChunkEndStaysFit, AfterChunkEndType
<1>2. Fit(StepBack(after))
  <2> HIDE DEF after
  <2> QED
    BY <1>1, FitBuffer, AfterChunkEndStaysFit
<1>3. Fit(buffer')
  BY <1>1, <1>2 DEF ParseLastChunk
<1>4. /\ status' \in {"COMPLETE", "CHUNK"}
      /\ chunked_status' /\ chunk_size' = 0 /\ chunkBodyRead_size' = chunkBodyRead_size
  BY DEF ParseLastChunk, Return, chunkVars
<1>5. chunkBodyRead_size \in Nat
  BY DEF TypeInv, TypeOK
<1>6. ~(chunk_size' > chunkBodyRead_size')
  BY <1>4, <1>5
<1>7. PositionInv'
  BY <1>4, <1>6 DEF PositionInv, Final
<1> QED
  BY <1>3, <1>7, FitIsEnd DEF ParseLastChunk

LEMMA ChunkDataEnd == Ordinary /\ TypeInv /\ EndInv /\ ParseChunkData => EndInv'
<1> SUFFICES ASSUME Ordinary, TypeInv, EndInv, ParseChunkData PROVE EndInv'
  OBVIOUS
<1> DEFINE len   == chunk_size - chunkBodyRead_size
           after == EraseRead(AfterDataToString(buffer, len))
           read  == chunkBodyRead_size + Len(ChunkRest(buffer))
<1>1. /\ buffer \in TextBuffer /\ Fit(buffer) /\ delivered \in Nat
      /\ chunk_size \in Int /\ chunkBodyRead_size \in Nat
  BY FitBuffer DEF TypeInv, TypeOK
<1>2. /\ status = "CHUNK" /\ chunked_status /\ chunk_size # 0
      /\ chunk_size >= chunkBodyRead_size /\ len \in Nat
  BY <1>1 DEF ParseChunkData
<1>3. buffer.rpos <= Size(buffer) /\ (len > 0 => buffer.rpos = 0)
  BY <1>1, <1>2 DEF EndInv, PositionInv, Final
<1>4. Fit(after) /\ after.rpos = 0 /\ after \in TextBuffer /\ Size(after) \in Nat
  <2> HIDE DEF len
  <2>1. Fit(after) /\ after.rpos = 0
    BY <1>1, <1>2, <1>3, AfterDataStaysFit
  <2> HIDE DEF after
  <2> QED
    BY <2>1, BufferFields DEF Fit
<1> HIDE DEF after
<1>5. /\ Fit(AfterChunkEnd(after)) /\ AfterChunkEnd(after).rpos <= Size(AfterChunkEnd(after))
      /\ ChunkEnds(after) => AfterChunkEnd(after).rpos = 0
  BY <1>1, <1>4, AfterChunkEndStaysFit
<1> HIDE DEF len
<1>6. /\ status' = "CHUNK" /\ chunk_size' = chunk_size
      /\ \/ buffer' = after
         \/ buffer' = AfterChunkEnd(after) /\ ~chunked_status'
         \/ buffer' = AfterChunkEnd(after) /\ chunkBodyRead_size' = chunk_size
  <2> HIDE DEF read
  <2>1. /\ status' = "CHUNK" /\ chunk_size' = chunk_size
        /\ \/ /\ read # chunk_size /\ buffer' = after
           \/ /\ read = chunk_size /\ buffer' = AfterChunkEnd(after) /\ chunked_status' = FALSE
           \/ /\ read = chunk_size /\ chunkBodyRead_size' = read
              /\ buffer' = IF Size(after) >= 2 THEN AfterChunkEnd(after) ELSE after
    BY DEF ParseChunkData, after, len, read, GoOn, AwaitChunkEnd, Return
  <2> QED
    BY <2>1
<1>7. Fit(buffer') /\ buffer'.rpos <= Size(buffer')
  BY <1>4, <1>5, <1>6
<1>8. PositionInv'
  <2>1. CASE buffer' = after
    BY <1>4, <1>6, <1>7, <2>1 DEF PositionInv, Size
  <2>2. CASE ~chunked_status'
    BY <1>6, <1>7, <2>2 DEF PositionInv, Size
  <2>3. CASE chunkBodyRead_size' = chunk_size
    <3>1. ~(chunk_size' > chunkBodyRead_size')
      BY <1>1, <1>6, <2>3
    <3> QED
      BY <1>6, <1>7, <3>1 DEF PositionInv, Size
  <2> QED
    BY <1>6, <2>1, <2>2, <2>3
<1> QED
  BY <1>7, <1>8, FitIsEnd DEF ParseChunkData

LEMMA NoMoreChunksEnd == Ordinary /\ TypeInv /\ EndInv /\ ParseNoMoreChunks => EndInv'
<1> SUFFICES ASSUME Ordinary, TypeInv, EndInv, ParseNoMoreChunks PROVE EndInv'
  OBVIOUS
<1>1. Fit(buffer) /\ buffer' = buffer
  BY FitBuffer DEF ParseNoMoreChunks
<1>2. PositionInv'
  BY DEF ParseNoMoreChunks, EndInv, PositionInv, Return, chunkVars, Final, Size
<1> QED
  BY <1>1, <1>2, FitIsEnd DEF ParseNoMoreChunks

LEMMA StutterEnd == EndInv /\ UNCHANGED vars => EndInv'
  BY DEF EndInv, IsEnd, PositionInv, Size, Final, vars, peerVars, chunkVars

LEMMA EndIsUnparsedEnd == TypeInv /\ EndInv => BufferIsUnparsedEnd
<1> SUFFICES ASSUME TypeInv, EndInv PROVE BufferIsUnparsedEnd
  OBVIOUS
<1>1. /\ stream \in Seq(Text) /\ Len(stream) \in Nat /\ delivered \in 0..Len(stream)
      /\ buffer.bytes \in Seq(Text) /\ Size(buffer) \in Nat /\ Size(buffer) = Len(buffer.bytes)
  BY StreamsAreText, LenProperties DEF TypeInv, TypeOK, Size
<1>2. /\ Size(buffer) <= delivered /\ buffer.wpos = Size(buffer)
      /\ \A i \in 1..Size(buffer) : buffer.bytes[i] = stream[delivered - Size(buffer) + i]
  BY DEF EndInv, IsEnd
<1> DEFINE m == delivered - Size(buffer) + 1
           t == SubSeq(stream, m, delivered)
<1>3. /\ m \in Nat /\ m >= 1 /\ delivered \in Nat /\ delivered <= Len(stream)
      /\ delivered - m + 1 = Size(buffer)
      /\ (IF m <= delivered THEN delivered - m + 1 ELSE 0) = Size(buffer)
      /\ \A i \in 1..Size(buffer) : m + i - 1 = delivered - Size(buffer) + i
  BY <1>1, <1>2
<1>4. t \in Seq(Text) /\ Len(t) = Size(buffer) /\ \A i \in 1..Size(buffer) : t[i] = stream[m + i - 1]
  <2> HIDE DEF m
  <2> QED
    BY <1>1, <1>3, TailIsText
<1>5. \A i \in 1..Size(buffer) : t[i] = buffer.bytes[i]
  <2> HIDE DEF m, t
  <2> QED
    BY <1>2, <1>3, <1>4
<1>6. t = buffer.bytes
  <2> HIDE DEF t
  <2> QED
    BY <1>1, <1>4, <1>5, SeqEqual
<1> QED
  BY <1>2, <1>6 DEF BufferIsUnparsedEnd

LEMMA EndStep == Ordinary /\ TypeInv /\ EndInv /\ [Next]_vars => TypeInv' /\ EndInv'
<1> SUFFICES ASSUME Ordinary, TypeInv, EndInv, [Next]_vars PROVE TypeInv' /\ EndInv'
  OBVIOUS
<1>1. CASE Receive
  BY <1>1, ReceiveType, ReceiveEnd
<1>2. CASE Parse
  <2>1. TypeInv'
    BY <1>2, ParseType
  <2>2. EndInv'
    BY <1>2, StartLineEnd, HeadersEnd, CheckChunkedEnd, BodyEnd, ChunkSizeEnd,
       LastChunkEnd, ChunkDataEnd, NoMoreChunksEnd DEF Parse
  <2> QED
    BY <2>1, <2>2
<1>3. CASE UNCHANGED vars
  BY <1>3, StutterType, StutterEnd
<1> QED
  BY <1>1, <1>2, <1>3 DEF Next

\* Whatever is sent and however it is cut, the buffer holds just the end of what
\* was received that has not been parsed: no erase() loses or repeats a byte.
\* The streams are shorter than an unsigned int counts and hold no zero byte.
THEOREM BufferHoldsTheRest ==
  ASSUME Ordinary
  PROVE  Spec => []BufferIsUnparsedEnd
<1>1. Init => TypeInv /\ EndInv
  BY InitType, InitEnd
<1> QED
  BY <1>1, EndStep, EndIsUnparsedEnd, PTL DEF Spec

----------------------------------------------------------------------------
(* Where the read position is.                                             *)

\* getLine() finds no line: it reads nothing, or the CR LF at the read position.
LEMMA NoLine ==
  ASSUME NEW b \in TextBuffer, Fit(b), b.rpos <= Size(b), Line(b) = <<>>
  PROVE  \/ LineEnds(b) = {} /\ AfterLine(b) = b
         \/ /\ AfterLine(b).bytes = b.bytes /\ AfterLine(b).rpos = b.rpos + 2
            /\ b.rpos + 2 <= Size(b)
            /\ Read(b, b.rpos) = CR /\ Read(b, b.rpos + 1) = LF
            /\ b.bytes[b.rpos + 1] = CR /\ b.bytes[b.rpos + 2] = LF
<1>1. CASE LineEnds(b) = {}
  BY <1>1 DEF AfterLine
<1>2. CASE LineEnds(b) # {}
  <2> DEFINE k == FirstLineEnd(b)
  <2>1. k \in LineEnds(b) /\ k \in Nat /\ b.rpos <= k /\ k + 2 <= Size(b)
    BY <1>2, FirstLineEndIsOne
  <2>2. b.rpos \in Nat /\ Size(b) \in Nat /\ b.bytes \in Seq(Text) /\ Size(b) = Len(b.bytes)
    BY BufferFields DEF Size
  <2>3. Line(b) = SubSeq(b.bytes, b.rpos + 1, k)
    BY <1>2 DEF Line
  <2> HIDE DEF k
  <2>4. k = b.rpos
    <3>1. b.rpos + 1 \in Nat /\ k <= Len(b.bytes) /\ b.rpos + 1 >= 1
      BY <2>1, <2>2
    <3>2. Len(SubSeq(b.bytes, b.rpos + 1, k)) = IF b.rpos + 1 <= k THEN k - (b.rpos + 1) + 1 ELSE 0
      BY <2>1, <2>2, <3>1, TailIsText
    <3>3. Len(SubSeq(b.bytes, b.rpos + 1, k)) = 0
      BY <2>3, EmptySeq
    <3> QED
      BY <2>1, <2>2, <3>2, <3>3
  <2>5. Read(b, b.rpos) = CR /\ Read(b, b.rpos + 1) = LF
    BY <2>1, <2>4 DEF LineEnds
  <2>6. Read(b, b.rpos) = b.bytes[b.rpos + 1] /\ Read(b, b.rpos + 1) = b.bytes[b.rpos + 2]
    <3>1. b.rpos + 1 <= Size(b) /\ (b.rpos + 1) + 1 <= Size(b) /\ (b.rpos + 1) + 1 = b.rpos + 2
      BY <2>1, <2>2, <2>4
    <3> QED
      BY <3>1 DEF Read
  <2>7. AfterLine(b) = SetReadPos(b, b.rpos + 2)
    BY <1>2, <2>4 DEF AfterLine, k
  <2>8. b.rpos + 2 \in Int /\ b.rpos + 2 \in 0..Size(b)
    BY <2>1, <2>2, <2>4
  <2>9. AfterLine(b).bytes = b.bytes /\ AfterLine(b).rpos = b.rpos + 2
    BY SMTT(30), <2>7, <2>8, MovedStaysFit, SetReadPosType
  <2> QED
    BY <2>5, <2>6, <2>8, <2>9
<1> QED
  BY <1>1, <1>2

\* parse() has read a line or an empty one, or waits for its end.
LEMMA EmptyLinesGrow ==
  ASSUME NEW b \in TextBuffer, Fit(b), b.rpos <= Size(b), Line(b) = <<>>,
         \A i \in 1..Size(b) : i <= b.rpos => b.bytes[i] \in {CR, LF}
  PROVE  \A i \in 1..Size(AfterLine(b)) :
           i <= AfterLine(b).rpos => AfterLine(b).bytes[i] \in {CR, LF}
<1>1. CASE AfterLine(b) = b
  BY <1>1
<1>2. CASE AfterLine(b) # b
  <2>1. /\ AfterLine(b).bytes = b.bytes /\ AfterLine(b).rpos = b.rpos + 2
        /\ b.bytes[b.rpos + 1] = CR /\ b.bytes[b.rpos + 2] = LF
        /\ Size(AfterLine(b)) = Size(b) /\ b.rpos \in Nat /\ Size(b) \in Nat
    BY <1>2, NoLine, BufferFields DEF Size
  <2>2. ASSUME NEW i \in 1..Size(b), i <= b.rpos + 2
        PROVE  b.bytes[i] \in {CR, LF}
    <3>1. i <= b.rpos \/ i = b.rpos + 1 \/ i = b.rpos + 2
      BY <2>1, <2>2
    <3> QED
      BY <2>1, <3>1
  <2> QED
    BY <2>1, <2>2
<1> QED
  BY <1>1, <1>2

\* At the end of the headers the empty line is recognised.
LEMMA HeaderEndSeen ==
  ASSUME NEW b \in TextBuffer, Fit(b), b.rpos <= Size(b), Line(b) = <<>>,
         ~CheckHeaderEnd(AfterLine(b))
  PROVE  AfterLine(b) = b
<1> SUFFICES ASSUME AfterLine(b) # b PROVE FALSE
  OBVIOUS
<1> DEFINE c == AfterLine(b)
<1>1. /\ c.bytes = b.bytes /\ c.rpos = b.rpos + 2 /\ b.rpos + 2 <= Size(b)
      /\ Read(b, b.rpos) = CR /\ Read(b, b.rpos + 1) = LF
  BY NoLine
<1>2. b.rpos \in Nat /\ Size(b) \in Nat /\ Size(b) < Word /\ Word \in Nat
  BY BufferFields, ByteBufferAssumption DEF Fit
<1>3. (b.rpos + 2) - 2 = b.rpos /\ b.rpos \in Int /\ b.rpos + 1 \in Int
      /\ b.rpos \in 0..(Word - 1) /\ b.rpos + 1 \in 0..(Word - 1)
  BY <1>1, <1>2
<1> HIDE DEF c
<1>4. (c.rpos - 2) % Word = b.rpos
  BY <1>1, <1>3, Wraps
<1>5. (b.rpos + 1) % Word = b.rpos + 1
  BY <1>3, Wraps
<1>6. Read(c, b.rpos) = CR /\ Read(c, b.rpos + 1) = LF
  BY <1>1 DEF Read, Size
<1>7. CheckHeaderEnd(c)
  BY <1>4, <1>5, <1>6 DEF CheckHeaderEnd
<1> QED
  BY <1>7 DEF c

\* checkEnd_chunkBody() does not find the end of a chunk.
LEMMA NoChunkEnd ==
  ASSUME NEW b \in TextBuffer, Fit(b), ~ChunkEnds(b)
  PROVE  /\ AfterChunkEnd(b).bytes = b.bytes
         /\ AfterChunkEnd(b).rpos = IF Read(b, b.rpos) = CR THEN b.rpos + 1 ELSE b.rpos
         /\ StepBack(AfterChunkEnd(b)).bytes = b.bytes
         /\ Read(b, b.rpos) = CR => StepBack(AfterChunkEnd(b)).rpos = b.rpos
<1>1. b.rpos \in Nat /\ Size(b) \in Nat
  BY BufferFields
<1>2. CASE Read(b, b.rpos) = CR
  <2>1. b.rpos + 1 <= Size(b)
    BY <1>1, <1>2, ReadIsInside DEF CR, NUL
  <2>2. b.rpos + 1 \in Int /\ b.rpos + 1 \in 0..Size(b) /\ b.rpos \in 0..Size(b)
    BY <1>1, <2>1
  <2> DEFINE c == SetReadPos(b, b.rpos + 1)
  <2>3. AfterChunkEnd(b) = c
    BY <1>2 DEF AfterChunkEnd
  <2>4. c.bytes = b.bytes /\ c.rpos = b.rpos + 1 /\ c \in TextBuffer /\ Fit(c) /\ Size(c) = Size(b)
    BY <2>2, MovedStaysFit, SetReadPosType
  <2> HIDE DEF c
  <2>5. c.rpos - 1 = b.rpos /\ c.rpos - 1 \in Int /\ c.rpos - 1 \in 0..Size(c)
    BY <1>1, <2>2, <2>4
  <2>6. StepBack(c).bytes = b.bytes /\ StepBack(c).rpos = b.rpos
    BY <2>4, <2>5, MovedStaysFit, SetReadPosType DEF StepBack
  <2> QED
    BY <1>2, <2>3, <2>4, <2>6
<1>3. CASE Read(b, b.rpos) # CR
  <2>1. AfterChunkEnd(b) = b
    BY <1>3 DEF AfterChunkEnd
  <2>2. b.rpos - 1 \in Int
    BY <1>1
  <2>3. StepBack(b).bytes = b.bytes
    BY <2>2, SetReadPosType DEF StepBack
  <2> QED
    BY <1>3, <2>1, <2>3
<1> QED
  BY <1>2, <1>3

\* What arrives is put behind what is there.
LEMMA FrontStays ==
  ASSUME Ordinary, TypeInv, EndInv, Receive
  PROVE  /\ buffer'.rpos = buffer.rpos /\ Size(buffer) \in Nat
         /\ Size(buffer) <= Size(buffer') /\ Size(buffer') \in Nat
         /\ \A i \in 1..Size(buffer) : buffer'.bytes[i] = buffer.bytes[i]
         /\ delivered' - Size(buffer') = delivered - Size(buffer)
<1>0. /\ buffer \in TextBuffer /\ delivered \in Nat /\ Size(buffer) \in Nat /\ buffer.rpos \in Nat
      /\ stream \in Seq(Text) /\ Len(stream) \in Nat /\ delivered <= Len(stream)
  BY FitBuffer
<1>1. PICK n \in 1..(Len(stream) - delivered) :
        /\ buffer' = PutString(buffer, UpToNul(SubSeq(stream, delivered + 1, delivered + n)))
        /\ delivered' = delivered + n
  BY DEF Receive
<1> DEFINE seg == SubSeq(stream, delivered + 1, delivered + n)
<1>2. /\ n \in Nat /\ n >= 1 /\ delivered + 1 \in Nat /\ delivered + n \in Nat
      /\ delivered + 1 >= 1 /\ delivered + 1 <= delivered + n /\ delivered + n <= Len(stream)
      /\ (delivered + n) - (delivered + 1) + 1 = n
      /\ \A i \in 1..n : (delivered + 1) + i - 1 = delivered + i
  BY <1>0
<1>3. seg \in Seq(Text) /\ Len(seg) = n /\ \A i \in 1..n : seg[i] = stream[delivered + i]
  BY <1>0, <1>2, TailIsText
<1>4. \A i \in 1..Len(seg) : seg[i] # NUL
  <2>1. \A i \in 1..n : delivered + i \in 1..Len(stream)
    BY <1>0, <1>2
  <2>2. stream \in Streams
    BY DEF TypeInv, TypeOK
  <2> HIDE DEF seg
  <2> QED
    BY <1>3, <2>1, <2>2 DEF Ordinary
<1> HIDE DEF seg
<1>5. buffer' = PutString(buffer, seg)
  <2>1. UpToNul(seg) = seg
    BY <1>3, <1>4, NoNulNoEnd
  <2> QED
    BY <1>1, <2>1 DEF seg
<1>6. buffer.wpos = Size(buffer)
  BY DEF EndInv, IsEnd
<1>7. /\ buffer'.rpos = buffer.rpos
      /\ Size(buffer') = IF Size(buffer) < Size(buffer) + n THEN Size(buffer) + n ELSE Size(buffer)
      /\ \A i \in 1..Size(buffer') :
           buffer'.bytes[i] = IF i \in (Size(buffer) + 1)..(Size(buffer) + n)
                                THEN seg[i - Size(buffer)] ELSE Read(buffer, i - 1)
  BY ZenonT(40), <1>0, <1>3, <1>5, <1>6, PutStringType
<1>8. Size(buffer') = Size(buffer) + n
  <2>1. \A x, l \in Nat : (IF x < x + l THEN x + l ELSE x) = x + l
    OBVIOUS
  <2> QED
    BY <1>0, <1>2, <1>7, <2>1
<1>9. ASSUME NEW i \in 1..Size(buffer) PROVE buffer'.bytes[i] = buffer.bytes[i]
  <2>1. /\ i \in 1..Size(buffer') /\ i \notin (Size(buffer) + 1)..(Size(buffer) + n)
        /\ (i - 1) + 1 = i /\ i <= Size(buffer)
    BY <1>0, <1>2, <1>8
  <2> QED
    BY <1>7, <2>1 DEF Read
<1>10. \A d, k, x \in Nat : (d + k) - (x + k) = d - x
  OBVIOUS
<1> QED
  BY <1>0, <1>1, <1>2, <1>7, <1>8, <1>9, <1>10

LEMMA ReceiveFront == Ordinary /\ TypeInv /\ EndInv /\ ReadPosAtFront /\ Receive => ReadPosAtFront'
<1> SUFFICES ASSUME Ordinary, TypeInv, EndInv, ReadPosAtFront, Receive PROVE ReadPosAtFront'
  OBVIOUS
<1>1. /\ buffer'.rpos = buffer.rpos /\ Size(buffer) \in Nat
      /\ Size(buffer) <= Size(buffer') /\ Size(buffer') \in Nat
      /\ \A i \in 1..Size(buffer) : buffer'.bytes[i] = buffer.bytes[i]
  BY FrontStays
<1>2. UNCHANGED <<status, chunked_status>> /\ ~Final
  BY DEF Receive, chunkVars
<1>3. CASE buffer.rpos = 0
  BY <1>1, <1>3 DEF ReadPosAtFront
<1>4. CASE OnlyEmptyLinesRead
  <2>1. buffer.rpos <= Size(buffer) /\ buffer.rpos \in Nat
    BY <1>2, <1>4, FitBuffer DEF OnlyEmptyLinesRead, EndInv, PositionInv
  <2>2. ASSUME NEW i \in 1..Size(buffer'), i <= buffer'.rpos
        PROVE  buffer'.bytes[i] \in {CR, LF}
    <3>1. i \in 1..Size(buffer) /\ i <= buffer.rpos
      BY <1>1, <2>1, <2>2
    <3> QED
      BY <1>1, <1>4, <3>1 DEF OnlyEmptyLinesRead
  <2>3. OnlyEmptyLinesRead'
    BY <1>2, <1>4, <2>2 DEF OnlyEmptyLinesRead, Size
  <2> QED
    BY <2>3 DEF ReadPosAtFront
<1>5. CASE StrayAtChunkEnd
  <2>1. Size(buffer) >= 1 => Size(buffer') >= 1 /\ buffer'.bytes[1] = buffer.bytes[1]
    BY <1>1
  <2>2. Size(buffer) >= 2 => Size(buffer') >= 2 /\ buffer'.bytes[2] = buffer.bytes[2]
    BY <1>1
  <2>3. StrayAtChunkEnd'
    BY <1>2, <1>5, <2>1, <2>2 DEF StrayAtChunkEnd, Size
  <2> QED
    BY <2>3 DEF ReadPosAtFront
<1> QED
  BY <1>2, <1>3, <1>4, <1>5 DEF ReadPosAtFront

LEMMA LineFront ==
  ASSUME Ordinary, TypeInv, EndInv, ReadPosAtFront, ParseStartLine \/ ParseHeaders \/ ParseChunkSize
  PROVE  ReadPosAtFront'
<1>1. buffer \in TextBuffer /\ Fit(buffer) /\ delivered \in Nat /\ buffer.rpos \in Nat
  BY FitBuffer
<1>2. buffer.rpos <= Size(buffer)
  BY DEF EndInv, PositionInv, Final, ParseStartLine, ParseHeaders, ParseChunkSize
<1> DEFINE after == AfterLine(buffer)
<1>3. EraseRead(after).rpos = 0
  <2>1. Fit(after) /\ after.rpos <= Size(after) /\ after \in TextBuffer
    BY <1>1, <1>2, AfterLineStaysFit, AfterLineType
  <2> HIDE DEF after
  <2> QED
    BY <1>1, <2>1, ErasedStaysFit
<1>4. CASE buffer' = EraseRead(after)
  BY <1>3, <1>4 DEF ReadPosAtFront
<1>5. CASE status' = "BAD_REQUEST"
  BY <1>5 DEF ReadPosAtFront, Final
<1>6. CASE ParseHeaders
  <2>1. CASE Line(buffer) = <<>> /\ ~CheckHeaderEnd(after) /\ buffer' = after
    <3>1. buffer' = buffer
      BY <1>1, <1>2, <2>1, HeaderEndSeen
    <3>2. buffer.rpos = 0
      BY <1>6 DEF ReadPosAtFront, Final, OnlyEmptyLinesRead, StrayAtChunkEnd, ParseHeaders
    <3> QED
      BY <3>1, <3>2 DEF ReadPosAtFront
  <2> QED
    BY <1>4, <1>5, <1>6, <2>1 DEF ParseHeaders, Return
<1>7. CASE (ParseStartLine \/ ParseChunkSize) /\ Line(buffer) = <<>> /\ buffer' = after
  <2>1. \A i \in 1..Size(buffer) : i <= buffer.rpos => buffer.bytes[i] \in {CR, LF}
    <3>1. CASE buffer.rpos = 0
      BY <1>1, <3>1
    <3>2. CASE buffer.rpos # 0
      BY <1>7, <3>2 DEF ReadPosAtFront, Final, OnlyEmptyLinesRead, StrayAtChunkEnd,
         ParseStartLine, ParseChunkSize
    <3> QED
      BY <3>1, <3>2
  <2>2. \A i \in 1..Size(after) : i <= after.rpos => after.bytes[i] \in {CR, LF}
    BY <1>1, <1>2, <1>7, <2>1, EmptyLinesGrow
  <2> HIDE DEF after
  <2>3. status' = "START_LINE" \/ (status' = "CHUNK" /\ ~chunked_status')
    BY <1>7 DEF ParseStartLine, ParseChunkSize, Return
  <2>4. OnlyEmptyLinesRead'
    BY <1>7, <2>2, <2>3 DEF OnlyEmptyLinesRead, Size
  <2> QED
    BY <2>4 DEF ReadPosAtFront
<1> HIDE DEF after
<1>8. CASE ParseStartLine
  BY <1>4, <1>5, <1>7, <1>8 DEF ParseStartLine, Return, after
<1>9. CASE ParseChunkSize
  BY <1>4, <1>7, <1>9 DEF ParseChunkSize, after
<1> QED
  BY <1>6, <1>8, <1>9

LEMMA LastChunkFront ==
  ASSUME Ordinary, TypeInv, EndInv, ReadPosAtFront, ParseLastChunk
  PROVE  ReadPosAtFront'
<1>1. buffer \in TextBuffer /\ Fit(buffer) /\ buffer.rpos \in Nat /\ Size(buffer) \in Nat
  BY FitBuffer
<1>2. CASE ChunkEnds(buffer)
  BY <1>2 DEF ParseLastChunk, Return, ReadPosAtFront, Final
<1>3. CASE ~ChunkEnds(buffer)
  <2>1. /\ buffer' = StepBack(AfterChunkEnd(buffer)) /\ status' = "CHUNK"
        /\ status = "CHUNK" /\ chunked_status /\ chunked_status' = chunked_status /\ Size(buffer) > 0
    BY <1>3 DEF ParseLastChunk, Return, chunkVars
  <2>2. buffer'.bytes = buffer.bytes /\ (Read(buffer, buffer.rpos) = CR => buffer'.rpos = buffer.rpos)
    BY <1>1, <1>3, <2>1, NoChunkEnd
  <2>3. CASE StrayAtChunkEnd
    <3>1. StrayAtChunkEnd'
      BY <2>1, <2>2, <2>3 DEF StrayAtChunkEnd, Size
    <3> QED
      BY <3>1 DEF ReadPosAtFront
  <2>4. CASE buffer.rpos = 0 /\ Read(buffer, buffer.rpos) = CR
    BY <2>2, <2>4 DEF ReadPosAtFront
  <2>5. CASE buffer.rpos = 0 /\ Read(buffer, buffer.rpos) # CR
    <3>1. Size(buffer) >= 1 /\ buffer.bytes[1] # CR
      BY <1>1, <2>1, <2>5 DEF Read
    <3>2. StrayAtChunkEnd'
      BY <2>1, <2>2, <3>1 DEF StrayAtChunkEnd, Size
    <3> QED
      BY <3>2 DEF ReadPosAtFront
  <2> QED
    BY <2>1, <2>3, <2>4, <2>5 DEF ReadPosAtFront, Final, OnlyEmptyLinesRead
<1> QED
  BY <1>2, <1>3

LEMMA ChunkDataFront ==
  ASSUME Ordinary, TypeInv, EndInv, ReadPosAtFront, ParseChunkData
  PROVE  ReadPosAtFront'
<1> DEFINE len   == chunk_size - chunkBodyRead_size
           after == EraseRead(AfterDataToString(buffer, len))
<1>1. /\ buffer \in TextBuffer /\ Fit(buffer) /\ delivered \in Nat
      /\ chunk_size \in Int /\ chunkBodyRead_size \in Nat
  BY FitBuffer DEF TypeInv, TypeOK
<1>2. /\ status = "CHUNK" /\ chunked_status /\ chunk_size # 0
      /\ chunk_size >= chunkBodyRead_size /\ len \in Nat
  BY <1>1 DEF ParseChunkData
<1>3. buffer.rpos <= Size(buffer) /\ (len > 0 => buffer.rpos = 0)
  BY <1>1, <1>2 DEF EndInv, PositionInv, Final
<1>4. Fit(after) /\ after.rpos = 0 /\ after \in TextBuffer /\ Size(after) \in Nat
  <2> HIDE DEF len
  <2>1. Fit(after) /\ after.rpos = 0
    BY <1>1, <1>2, <1>3, AfterDataStaysFit
  <2> HIDE DEF after
  <2> QED
    BY <2>1, BufferFields DEF Fit
<1>5. \/ buffer' = after
      \/ buffer' = AfterChunkEnd(after) /\ ChunkEnds(after)
      \/ /\ buffer' = AfterChunkEnd(after) /\ ~ChunkEnds(after) /\ Size(after) >= 2
         /\ status' = "CHUNK" /\ chunked_status'
  <2> HIDE DEF after
  <2>1. \/ buffer' = after
        \/ buffer' = AfterChunkEnd(after) /\ ChunkEnds(after)
        \/ /\ ~(Size(after) >= 2 /\ ChunkEnds(after)) /\ AwaitChunkEnd /\ UNCHANGED chunked_status
           /\ buffer' = IF Size(after) >= 2 THEN AfterChunkEnd(after) ELSE after
    BY DEF ParseChunkData, after, len
  <2> QED
    BY <1>2, <2>1 DEF AwaitChunkEnd, Return
<1> HIDE DEF after, len
<1>6. CASE buffer' = after
  BY <1>4, <1>6 DEF ReadPosAtFront
<1>7. CASE buffer' = AfterChunkEnd(after) /\ ChunkEnds(after)
  BY <1>1, <1>4, <1>7, AfterChunkEndStaysFit DEF ReadPosAtFront
<1>8. CASE /\ buffer' = AfterChunkEnd(after) /\ ~ChunkEnds(after) /\ Size(after) >= 2
           /\ status' = "CHUNK" /\ chunked_status'
  <2>1. buffer'.bytes = after.bytes /\ (Read(after, 0) # CR => buffer'.rpos = 0)
    BY <1>4, <1>8, NoChunkEnd
  <2>2. CASE Read(after, 0) # CR
    BY <2>1, <2>2 DEF ReadPosAtFront
  <2>3. CASE Read(after, 0) = CR
    <3>1. Read(after, 1) # LF
      BY <1>4, <1>8, <2>3 DEF ChunkEnds
    <3>2. after.bytes[2] # LF
      BY <1>4, <1>8, <3>1 DEF Read
    <3>3. StrayAtChunkEnd'
      BY <1>8, <2>1, <3>2 DEF StrayAtChunkEnd, Size
    <3> QED
      BY <3>3 DEF ReadPosAtFront
  <2> QED
    BY <2>2, <2>3
<1> QED
  BY <1>5, <1>6, <1>7, <1>8

LEMMA OtherFront ==
  ASSUME Ordinary, TypeInv, EndInv, ReadPosAtFront,
         CheckChunked \/ ParseBodyContentLen \/ ParseNoMoreChunks \/ UNCHANGED vars
  PROVE  ReadPosAtFront'
<1>1. CASE CheckChunked
  BY <1>1 DEF CheckChunked, EndInv, PositionInv, ReadPosAtFront
<1>2. CASE ParseBodyContentLen
  <2>1. buffer.rpos = 0
    BY <1>2 DEF ReadPosAtFront, Final, OnlyEmptyLinesRead, StrayAtChunkEnd, ParseBodyContentLen
  <2>2. status' = "COMPLETE" \/ buffer' = buffer
    BY <1>2 DEF ParseBodyContentLen, Return
  <2> QED
    BY <2>1, <2>2 DEF ReadPosAtFront, Final
<1>3. CASE ParseNoMoreChunks
  BY <1>3 DEF ParseNoMoreChunks, Return, chunkVars, ReadPosAtFront, Final, OnlyEmptyLinesRead,
     StrayAtChunkEnd, Size
<1>4. CASE UNCHANGED vars
  BY <1>4 DEF vars, chunkVars, ReadPosAtFront, Final, OnlyEmptyLinesRead, StrayAtChunkEnd, Size
<1> QED
  BY <1>1, <1>2, <1>3, <1>4

\* Whatever is sent and however it is cut, each step of parse() leaves the read
\* position at the front but behind empty lines and where the end of a chunk is
\* missing.
THEOREM PositionAtFront ==
  ASSUME Ordinary
  PROVE  Spec => []ReadPosAtFront
<1>1. Init => TypeInv /\ EndInv /\ ReadPosAtFront
  BY InitType, InitEnd DEF Init, Empty, ReadPosAtFront
<1>2. TypeInv /\ EndInv /\ ReadPosAtFront /\ [Next]_vars => ReadPosAtFront'
  BY ReceiveFront, LineFront, LastChunkFront, ChunkDataFront, OtherFront DEF Next, Parse
<1> QED
  BY <1>1, <1>2, EndStep, PTL DEF Spec

----------------------------------------------------------------------------
(* What a step of parse() takes from a well-formed request.                *)

\* b is what was received behind the first p symbols, read from its front.
At(b, p) == Fit(b) /\ b.rpos = 0 /\ p \in Nat /\ p + Size(b) = delivered

LEMMA AtBytes ==
  ASSUME NEW b, NEW p, At(b, p)
  PROVE  /\ b \in TextBuffer /\ Fit(b) /\ b.rpos = 0 /\ p \in Nat /\ Size(b) \in Nat
         /\ p + Size(b) = delivered /\ delivered \in Nat /\ b.bytes \in Seq(Text)
         /\ Size(b) = Len(b.bytes) /\ Size(b) < Word /\ Word \in Nat
         /\ \A i \in 1..Size(b) : b.bytes[i] = stream[p + i] /\ Read(b, i - 1) = stream[p + i]
<1>1. /\ b \in TextBuffer /\ Size(b) < Word /\ Size(b) \in Nat /\ p \in Nat /\ p + Size(b) = delivered
      /\ b.bytes \in Seq(Text) /\ Size(b) = Len(b.bytes) /\ Word \in Nat
  BY BufferFields, ByteBufferAssumption DEF At, Fit, Size
<1>2. \A x, y \in Nat : (x + y) - y = x
  OBVIOUS
<1>3. delivered - Size(b) = p /\ delivered \in Nat
  BY <1>1, <1>2
<1>4. \A i \in 1..Size(b) : b.bytes[i] = stream[p + i]
  BY <1>3 DEF At, Fit, IsEnd
<1>5. \A i \in 1..Size(b) : (i - 1) + 1 <= Size(b) /\ (i - 1) + 1 = i
  BY <1>1
<1>6. \A i \in 1..Size(b) : Read(b, i - 1) = stream[p + i]
  BY <1>4, <1>5 DEF Read
<1> QED
  BY <1>1, <1>3, <1>4, <1>6 DEF At

\* The position moves on by k and what lies before it is erased.
LEMMA AtMoves ==
  ASSUME NEW b, NEW p, At(b, p), NEW k \in Nat, k <= Size(b)
  PROVE  At(EraseRead(SetReadPos(b, k)), p + k)
<1>1. /\ b \in TextBuffer /\ Fit(b) /\ p \in Nat /\ Size(b) \in Nat
      /\ p + Size(b) = delivered /\ delivered \in Nat
  BY AtBytes
<1>2. k \in Int /\ k \in 0..Size(b)
  BY <1>1
<1> DEFINE c == SetReadPos(b, k)
<1>3. Fit(c) /\ Size(c) = Size(b) /\ c.rpos = k /\ c \in TextBuffer
  BY <1>1, <1>2, MovedStaysFit, SetReadPosType
<1> HIDE DEF c
<1>4. Fit(EraseRead(c)) /\ EraseRead(c).rpos = 0 /\ Size(EraseRead(c)) = Size(b) - k
  BY <1>1, <1>3, ErasedStaysFit
<1>5. p + k \in Nat /\ (p + k) + (Size(b) - k) = delivered
  BY <1>1
<1> QED
  BY <1>4, <1>5 DEF At, c

\* Without an LF the end of the headers is not seen.
LEMMA NoHeaderEnd ==
  ASSUME NEW b \in TextBuffer, \A i \in 1..Size(b) : b.bytes[i] # LF
  PROVE  ~CheckHeaderEnd(b)
<1> DEFINE k == (((b.rpos - 2) % Word) + 1) % Word
<1>1. k \in Nat
  <2>1. (b.rpos - 2) % Word \in 0..(Word - 1)
    BY BufferFields, Wraps
  <2>2. ((b.rpos - 2) % Word) + 1 \in Int
    BY <2>1, ByteBufferAssumption
  <2>3. k \in 0..(Word - 1)
    BY <2>2, Wraps
  <2> QED
    BY <2>3, ByteBufferAssumption
<1>2. Read(b, k) # LF
  <2> HIDE DEF k
  <2>1. Size(b) \in Nat
    BY BufferFields
  <2>2. k + 1 <= Size(b) => k + 1 \in 1..Size(b)
    BY <1>1, <2>1
  <2> QED
    BY <2>2 DEF Read, NUL, LF
<1> QED
  BY <1>2 DEF CheckHeaderEnd

\* getLine() on a line of text takes it when all of it is there.
LEMMA TakeLine ==
  ASSUME NEW b, NEW p, NEW kind \in {"start", "header", "size"}, At(b, p),
         TextLineAt(stream, p, kind)
  PROVE  \/ /\ Size(b) < 3 /\ Line(b) = <<>> /\ AfterLine(b) = b /\ ~CheckHeaderEnd(b)
         \/ /\ Size(b) >= 3 /\ Line(b) # <<>> /\ Line(b)[1] = stream[p + 1]
            /\ At(EraseRead(AfterLine(b)), p + 3)
<1>1. /\ b \in TextBuffer /\ b.rpos = 0 /\ p \in Nat /\ Size(b) \in Nat /\ b.bytes \in Seq(Text)
      /\ Size(b) = Len(b.bytes)
      /\ \A i \in 1..Size(b) : b.bytes[i] = stream[p + i] /\ Read(b, i - 1) = stream[p + i]
  BY AtBytes
<1>2. /\ stream[p + 1] # CR /\ stream[p + 1] # LF /\ CR # LF
      /\ stream[p + 2] = CR /\ stream[p + 3] = LF
  BY DEF TextLineAt, CR, LF
<1>3. CASE Size(b) < 3
  <2>1. ASSUME NEW k \in LineEnds(b) PROVE FALSE
    <3>1. k \in 0..(Size(b) - 2) /\ Read(b, k) = CR
      BY <1>1, <2>1 DEF LineEnds
    <3>2. k = 0 /\ 1 \in 1..Size(b) /\ 1 - 1 = 0
      BY <1>1, <1>3, <3>1
    <3>3. Read(b, 0) = stream[p + 1]
      BY <1>1, <3>2
    <3> QED
      BY <1>2, <3>1, <3>2, <3>3
  <2>2. LineEnds(b) = {}
    BY <2>1
  <2>3. \A i \in 1..Size(b) : i = 1 \/ i = 2
    BY <1>1, <1>3
  <2>4. \A i \in 1..Size(b) : b.bytes[i] # LF
    BY <1>1, <1>2, <2>3
  <2> QED
    BY <1>1, <1>3, <2>2, <2>4, NoHeaderEnd DEF Line, AfterLine
<1>4. CASE Size(b) >= 3
  <2>1. 1 \in 1..Size(b) /\ 2 \in 1..Size(b) /\ 3 \in 1..Size(b) /\ 1 - 1 = 0 /\ 2 - 1 = 1
        /\ 3 - 1 = 2
    BY <1>1, <1>4
  <2>2. Read(b, 0) # CR /\ Read(b, 1) = CR /\ Read(b, 2) = LF
    BY <1>1, <1>2, <2>1
  <2>3. 1 \in 0..(Size(b) - 2) /\ 1 + 1 = 2
    BY <1>1, <1>4
  <2>4. 1 \in LineEnds(b) /\ 0 \notin LineEnds(b)
    BY <1>1, <2>2, <2>3 DEF LineEnds
  <2>5. \A k \in LineEnds(b) : k \in Nat /\ k # 0
    BY <1>1, <2>4 DEF LineEnds
  <2>6. FirstLineEnd(b) = 1
    <3>1. \A k \in LineEnds(b) : 1 <= k
      BY <2>5
    <3>2. \A k \in LineEnds(b) : (\A j \in LineEnds(b) : k <= j) => k = 1
      BY <2>4, <2>5
    <3> QED
      BY <2>4, <3>1, <3>2 DEF FirstLineEnd
  <2>7. AfterLine(b) = SetReadPos(b, 3) /\ Line(b) = SubSeq(b.bytes, 1, 1)
    BY <1>1, <2>4, <2>6 DEF AfterLine, Line
  <2>8. Len(SubSeq(b.bytes, 1, 1)) = 1 /\ SubSeq(b.bytes, 1, 1)[1] = b.bytes[1]
    BY <1>1, <1>4
  <2>9. At(EraseRead(SetReadPos(b, 3)), p + 3)
    BY <1>4, AtMoves
  <2> QED
    BY <1>1, <1>4, <2>1, <2>7, <2>8, <2>9
<1> QED
  BY <1>1, <1>3, <1>4

\* And on an empty line.
LEMMA TakeEmptyLine ==
  ASSUME NEW b, NEW p, At(b, p), EmptyLineAt(stream, p)
  PROVE  \/ /\ Size(b) < 2 /\ Line(b) = <<>> /\ AfterLine(b) = b /\ ~CheckHeaderEnd(b)
         \/ /\ Size(b) >= 2 /\ Line(b) = <<>> /\ CheckHeaderEnd(AfterLine(b))
            /\ AfterLine(b) = SetReadPos(b, 2) /\ At(EraseRead(AfterLine(b)), p + 2)
<1>1. /\ b \in TextBuffer /\ b.rpos = 0 /\ p \in Nat /\ Size(b) \in Nat /\ b.bytes \in Seq(Text)
      /\ Size(b) = Len(b.bytes) /\ Size(b) < Word /\ Word \in Nat /\ Fit(b)
      /\ \A i \in 1..Size(b) : b.bytes[i] = stream[p + i] /\ Read(b, i - 1) = stream[p + i]
  BY AtBytes
<1>2. CR # LF /\ stream[p + 1] = CR /\ stream[p + 2] = LF
  BY DEF EmptyLineAt, CR, LF
<1>3. CASE Size(b) < 2
  <2>1. \A k \in 0..(Size(b) - 2) : FALSE
    BY <1>1, <1>3
  <2>2. LineEnds(b) = {}
    BY <1>1, <2>1 DEF LineEnds
  <2>3. \A i \in 1..Size(b) : i = 1
    BY <1>1, <1>3
  <2>4. \A i \in 1..Size(b) : b.bytes[i] # LF
    BY <1>1, <1>2, <2>3
  <2> QED
    BY <1>1, <1>3, <2>2, <2>4, NoHeaderEnd DEF Line, AfterLine
<1>4. CASE Size(b) >= 2
  <2>1. 1 \in 1..Size(b) /\ 2 \in 1..Size(b) /\ 1 - 1 = 0 /\ 2 - 1 = 1 /\ 0 + 1 = 1
        /\ 0 \in 0..(Size(b) - 2)
    BY <1>1, <1>4
  <2>2. Read(b, 0) = CR /\ Read(b, 1) = LF
    BY <1>1, <1>2, <2>1
  <2>3. 0 \in LineEnds(b)
    BY <1>1, <2>1, <2>2 DEF LineEnds
  <2>4. \A k \in LineEnds(b) : k \in Nat
    BY <1>1 DEF LineEnds
  <2>5. FirstLineEnd(b) = 0
    <3>1. \A k \in LineEnds(b) : 0 <= k
      BY <2>4
    <3>2. \A k \in LineEnds(b) : (\A j \in LineEnds(b) : k <= j) => k = 0
      BY <2>3, <2>4
    <3> QED
      BY <2>3, <3>1, <3>2 DEF FirstLineEnd
  <2>6. AfterLine(b) = SetReadPos(b, 2) /\ Line(b) = SubSeq(b.bytes, 1, 0)
    BY <1>1, <2>3, <2>5 DEF AfterLine, Line
  <2>7. SubSeq(b.bytes, 1, 0) = <<>>
    BY <1>1, EmptySeq
  <2>8. At(EraseRead(SetReadPos(b, 2)), p + 2)
    BY <1>4, AtMoves
  <2>9. CheckHeaderEnd(SetReadPos(b, 2))
    <3>1. 2 \in Int /\ 2 \in 0..Size(b)
      BY <1>1, <1>4
    <3>2. SetReadPos(b, 2).rpos = 2 /\ SetReadPos(b, 2).bytes = b.bytes
      BY <1>1, <3>1, MovedStaysFit, SetReadPosType
    <3>3. 2 - 2 = 0 /\ 0 \in Int /\ 1 \in Int /\ 0 \in 0..(Word - 1) /\ 1 \in 0..(Word - 1)
      BY <1>1, <1>4
    <3>4. 0 % Word = 0 /\ 1 % Word = 1
      BY <3>3, Wraps
    <3>5. Read(SetReadPos(b, 2), 0) = CR /\ Read(SetReadPos(b, 2), 1) = LF
      BY <2>2, <3>2 DEF Read, Size
    <3> QED
      BY <2>1, <3>2, <3>3, <3>4, <3>5 DEF CheckHeaderEnd
  <2> QED
    BY <1>4, <2>6, <2>7, <2>8, <2>9
<1> QED
  BY <1>1, <1>3, <1>4

\* checkEnd_chunkBody() takes the CR LF, or leaves the CR to be read again.
LEMMA TakeChunkEnd ==
  ASSUME NEW b, NEW p, At(b, p), EmptyLineAt(stream, p)
  PROVE  \/ Size(b) >= 2 /\ ChunkEnds(b) /\ At(AfterChunkEnd(b), p + 2)
         \/ /\ Size(b) < 2 /\ ~ChunkEnds(b)
            /\ Size(b) > 0 => At(StepBack(AfterChunkEnd(b)), p)
<1>1. /\ b \in TextBuffer /\ b.rpos = 0 /\ p \in Nat /\ Size(b) \in Nat /\ Fit(b)
      /\ delivered \in Nat /\ p + Size(b) = delivered
      /\ \A i \in 1..Size(b) : b.bytes[i] = stream[p + i] /\ Read(b, i - 1) = stream[p + i]
  BY AtBytes
<1>2. stream[p + 1] = CR /\ stream[p + 2] = LF /\ LF # NUL
  BY DEF EmptyLineAt, LF, NUL
<1>3. CASE Size(b) >= 2
  <2>1. 1 \in 1..Size(b) /\ 2 \in 1..Size(b) /\ 1 - 1 = 0 /\ 2 - 1 = 1 /\ 0 + 1 = 1 /\ 0 + 2 = 2
    BY <1>1, <1>3
  <2>2. Read(b, 0) = CR /\ Read(b, 1) = LF
    BY <1>1, <1>2, <2>1
  <2>3. ChunkEnds(b)
    BY <1>1, <2>1, <2>2 DEF ChunkEnds
  <2>4. AfterChunkEnd(b) = EraseRead(SetReadPos(b, 2))
    BY <1>1, <2>1, <2>3 DEF AfterChunkEnd
  <2> QED
    BY <1>3, <2>3, <2>4, AtMoves
<1>4. CASE Size(b) < 2
  <2>1. ~(1 + 1 <= Size(b)) /\ 0 + 1 = 1
    BY <1>1, <1>4
  <2>2. Read(b, 1) = NUL
    BY <2>1 DEF Read
  <2>3. ~ChunkEnds(b)
    BY <1>1, <1>2, <2>1, <2>2 DEF ChunkEnds
  <2>4. ASSUME Size(b) > 0 PROVE At(StepBack(AfterChunkEnd(b)), p)
    <3>1. 1 \in 1..Size(b) /\ 1 - 1 = 0
      BY <1>1, <2>4
    <3>2. Read(b, b.rpos) = CR
      BY <1>1, <1>2, <3>1
    <3>3. /\ StepBack(AfterChunkEnd(b)).bytes = b.bytes
          /\ StepBack(AfterChunkEnd(b)).rpos = 0
      BY <1>1, <2>3, <3>2, NoChunkEnd
    <3>4. Fit(StepBack(AfterChunkEnd(b)))
      <4>1. Fit(AfterChunkEnd(b)) /\ AfterChunkEnd(b) \in TextBuffer
        BY <1>1, AfterChunkEndStaysFit, AfterChunkEndType
      <4> QED
        BY <1>1, <4>1, AfterChunkEndStaysFit
    <3> QED
      BY <1>1, <3>3, <3>4 DEF At, Size
  <2> QED
    BY <1>4, <2>3, <2>4
<1> QED
  BY <1>1, <1>3, <1>4

\* getDataToString() takes as much of the data as there is.
LEMMA TakeData ==
  ASSUME NEW b, NEW p, At(b, p), NEW len \in Nat
  PROVE  \E n \in Nat :
           /\ n <= len /\ n <= Size(b) /\ (n = len \/ n = Size(b))
           /\ DataToString(b, len) \in Seq(Text) /\ Len(DataToString(b, len)) = n
           /\ \A i \in 1..n : DataToString(b, len)[i] = stream[p + i]
           /\ At(EraseRead(AfterDataToString(b, len)), p + n)
<1>1. /\ b \in TextBuffer /\ b.rpos = 0 /\ p \in Nat /\ Size(b) \in Nat /\ Size(b) = Len(b.bytes)
      /\ b.bytes \in Seq(Text) /\ \A i \in 1..Size(b) : b.bytes[i] = stream[p + i]
  BY AtBytes
<1>2. PICK n \in Nat : n = IF len > Size(b) THEN Size(b) ELSE len
  BY <1>1
<1>3. n <= len /\ n <= Size(b) /\ (n = len \/ n = Size(b))
  BY <1>1, <1>2
<1>4. DataToString(b, len) = SubSeq(b.bytes, 1, n)
  BY <1>2 DEF DataToString
<1>5. /\ SubSeq(b.bytes, 1, n) \in Seq(Text) /\ Len(SubSeq(b.bytes, 1, n)) = n
      /\ \A i \in 1..n : SubSeq(b.bytes, 1, n)[i] = b.bytes[i]
  <2>1. /\ SubSeq(b.bytes, 1, n) \in Seq(Text)
        /\ Len(SubSeq(b.bytes, 1, n)) = IF 1 <= n THEN n - 1 + 1 ELSE 0
        /\ \A i \in 1..(n - 1 + 1) : SubSeq(b.bytes, 1, n)[i] = b.bytes[1 + i - 1]
    BY SMTT(30), <1>1, <1>3, TailIsText
  <2>2. (IF 1 <= n THEN n - 1 + 1 ELSE 0) = n /\ n - 1 + 1 = n /\ \A i \in 1..n : 1 + i - 1 = i
    OBVIOUS
  <2> QED
    BY <2>1, <2>2
<1>6. \A i \in 1..n : b.bytes[i] = stream[p + i]
  BY <1>1, <1>3
<1>7. AfterDataToString(b, len) = SetReadPos(b, n)
  <2>1. 0 + len = len
    OBVIOUS
  <2> QED
    BY <1>1, <1>2, <2>1 DEF AfterDataToString
<1>8. At(EraseRead(SetReadPos(b, n)), p + n)
  BY <1>3, AtMoves
<1> QED
  BY <1>3, <1>4, <1>5, <1>6, <1>7, <1>8

----------------------------------------------------------------------------
(* The data of the chunks.                                                 *)

\* u is appended to t, and the places a+1 .. a+m behind those of t.
LEMMA SelectionGrows ==
  ASSUME NEW s, NEW t \in Seq(Symbol), NEW u \in Seq(Symbol), NEW a \in Nat, NEW I \in SUBSET (1..a),
         IsSelection(t, s, I), \A i \in 1..Len(u) : u[i] = s[a + i]
  PROVE  IsSelection(t \o u, s, I \cup ((a + 1)..(a + Len(u))))
<1> DEFINE new  == (a + 1)..(a + Len(u))
           J    == I \cup new
           UpTo(S, i) == {j \in S : j <= i}
<1>1. /\ Len(t) \in Nat /\ Len(u) \in Nat /\ Len(t) = Cardinality(I)
      /\ Len(t \o u) = Len(t) + Len(u)
      /\ \A i \in 1..Len(t) : (t \o u)[i] = t[i]
      /\ \A i \in 1..Len(u) : (t \o u)[Len(t) + i] = u[i]
  <2>1. Len(t) \in Nat /\ Len(u) \in Nat /\ Len(t) = Cardinality(I)
    BY LenProperties DEF IsSelection
  <2>2. /\ Len(t \o u) = Len(t) + Len(u)
        /\ \A i \in 1..(Len(t) + Len(u)) : (t \o u)[i] = IF i <= Len(t) THEN t[i] ELSE u[i - Len(t)]
    BY ConcatProperties
  <2>3. \A i \in 1..Len(t) : i \in 1..(Len(t) + Len(u)) /\ i <= Len(t)
    BY <2>1
  <2>4. \A i \in 1..Len(u) : /\ Len(t) + i \in 1..(Len(t) + Len(u)) /\ ~(Len(t) + i <= Len(t))
                             /\ (Len(t) + i) - Len(t) = i
    BY <2>1
  <2> QED
    BY <2>1, <2>2, <2>3, <2>4
<1>2. IsFiniteSet(I) /\ Cardinality(I) \in Nat
  <2>1. IsFiniteSet(1..a)
    BY FS_Interval
  <2> QED
    BY <2>1, FS_Subset, FS_CardinalityType
<1>3. ASSUME NEW k \in 0..Len(u)
      PROVE  /\ IsFiniteSet(I \cup ((a + 1)..(a + k)))
             /\ Cardinality(I \cup ((a + 1)..(a + k))) = Len(t) + k
  <2>1. a + 1 \in Int /\ a + k \in Int /\ k \in Nat
    BY <1>1
  <2>2. /\ IsFiniteSet((a + 1)..(a + k))
        /\ Cardinality((a + 1)..(a + k)) = IF a + 1 > a + k THEN 0 ELSE (a + k) - (a + 1) + 1
    BY <2>1, FS_Interval
  <2>3. Cardinality((a + 1)..(a + k)) = k
    BY <2>1, <2>2
  <2>4. I \cap ((a + 1)..(a + k)) = {}
    BY <2>1
  <2>5. Cardinality(I \cap ((a + 1)..(a + k))) = 0
    BY <2>4, FS_EmptySet
  <2>6. /\ IsFiniteSet(I \cup ((a + 1)..(a + k)))
        /\ Cardinality(I \cup ((a + 1)..(a + k)))
             = Cardinality(I) + Cardinality((a + 1)..(a + k))
                 - Cardinality(I \cap ((a + 1)..(a + k)))
    BY <1>2, <2>2, FS_Union
  <2> QED
    BY <1>1, <2>1, <2>3, <2>5, <2>6
<1>4. Cardinality(J) = Len(t \o u)
  <2>1. Len(u) \in 0..Len(u)
    BY <1>1
  <2> QED
    BY <1>1, <1>3, <2>1
<1>5. ASSUME NEW i \in I
      PROVE  (t \o u)[Cardinality(UpTo(J, i))] = s[i]
  <2>1. UpTo(J, i) = UpTo(I, i)
    BY <1>1
  <2>2. t[Cardinality(UpTo(I, i))] = s[i]
    BY DEF IsSelection
  <2>3. Cardinality(UpTo(I, i)) \in 1..Len(t)
    <3>1. /\ IsFiniteSet(UpTo(I, i)) /\ Cardinality(UpTo(I, i)) \in Nat
          /\ Cardinality(UpTo(I, i)) <= Cardinality(I)
      BY <1>2, FS_Subset, FS_CardinalityType
    <3>2. i \in UpTo(I, i)
      OBVIOUS
    <3>3. Cardinality(UpTo(I, i)) # 0
      BY <3>1, <3>2, FS_EmptySet
    <3> HIDE DEF UpTo
    <3> QED
      BY <1>1, <3>1, <3>3
  <2> HIDE DEF J, UpTo
  <2> QED
    BY <1>1, <2>1, <2>2, <2>3
<1>6. ASSUME NEW i \in new
      PROVE  (t \o u)[Cardinality(UpTo(J, i))] = s[i]
  <2>1. PICK k \in 1..Len(u) : i = a + k
    <3>1. i - a \in 1..Len(u) /\ i = a + (i - a)
      BY <1>1
    <3> QED
      BY <3>1
  <2>2. UpTo(J, i) = I \cup ((a + 1)..(a + k))
    <3>1. \A j \in 1..a : j <= a + k
      BY <1>1, <2>1
    <3>2. \A j \in I : j <= i
      BY <2>1, <3>1
    <3>3. \A j \in new : j <= i <=> j \in (a + 1)..(a + k)
      BY <1>1, <2>1
    <3>4. (a + 1)..(a + k) \subseteq new
      BY <1>1, <2>1
    <3> QED
      BY <3>2, <3>3, <3>4
  <2>3. k \in 0..Len(u)
    BY <1>1, <2>1
  <2>4. Cardinality(UpTo(J, i)) = Len(t) + k
    BY <1>3, <2>2, <2>3
  <2> HIDE DEF J, UpTo
  <2> QED
    BY <1>1, <2>1, <2>4
<1>7. \A i \in J : (t \o u)[Cardinality({j \in J : j <= i})] = s[i]
  BY <1>5, <1>6
<1> HIDE DEF J
<1>8. IsSelection(t \o u, s, J)
  BY <1>4, <1>7 DEF IsSelection
<1> QED
  BY <1>8 DEF J

\* tempBody is the data among the first p symbols.
Kept(p) == IsSelection(tempBody, stream, DataPlaces(p))

LEMMA NothingKept ==
  ASSUME tempBody = <<>>
  PROVE  Kept(0)
<1>1. DataPlaces(0) = {}
  BY DEF DataPlaces
<1>2. Cardinality(DataPlaces(0)) = 0
  BY <1>1, FS_EmptySet
<1>3. Len(tempBody) = 0
  BY EmptySeq
<1> QED
  BY <1>1, <1>2, <1>3 DEF Kept, IsSelection

\* A step over symbols that are no data, and one over data.
LEMMA StaysKept ==
  ASSUME NEW p \in Nat, NEW q \in Nat, p <= q, Kept(p), \A i \in (p + 1)..q : stream[i].kind # "data",
         tempBody' = tempBody, stream' = stream
  PROVE  Kept(q)'
<1>1. \A i \in 1..q : i \in 1..p \/ i \in (p + 1)..q
  OBVIOUS
<1>2. 1..p \subseteq 1..q
  OBVIOUS
<1>3. DataPlaces(q) = DataPlaces(p)
  BY <1>1, <1>2 DEF DataPlaces
<1>4. DataPlaces(q)' = DataPlaces(q)
  BY DEF DataPlaces
<1> QED
  BY <1>3, <1>4 DEF Kept, IsSelection

LEMMA GrowsKept ==
  ASSUME TypeInv, NEW p \in Nat, NEW u \in Seq(Symbol), Kept(p),
         \A i \in 1..Len(u) : u[i] = stream[p + i] /\ stream[p + i].kind = "data",
         tempBody' = tempBody \o u, stream' = stream
  PROVE  Kept(p + Len(u))'
<1>1. tempBody \in Seq(Symbol) /\ Len(u) \in Nat
  BY LenProperties DEF TypeInv, TypeOK
<1>2. DataPlaces(p) \in SUBSET (1..p)
  BY DEF DataPlaces
<1>3. IsSelection(tempBody \o u, stream, DataPlaces(p) \cup ((p + 1)..(p + Len(u))))
  <2> DEFINE I == DataPlaces(p)
  <2>1. I \in SUBSET (1..p) /\ IsSelection(tempBody, stream, I) /\ \A i \in 1..Len(u) : u[i] = stream[p + i]
    BY <1>2 DEF Kept
  <2> HIDE DEF I
  <2>2. IsSelection(tempBody \o u, stream, I \cup ((p + 1)..(p + Len(u))))
    BY <1>1, <2>1, SelectionGrows
  <2> QED
    BY <2>2 DEF I
<1>4. DataPlaces(p + Len(u)) = DataPlaces(p) \cup ((p + 1)..(p + Len(u)))
  <2>1. \A i \in (p + 1)..(p + Len(u)) : i - p \in 1..Len(u) /\ p + (i - p) = i
    BY <1>1
  <2>2. \A i \in (p + 1)..(p + Len(u)) : stream[i].kind = "data"
    BY ZenonT(40), <2>1
  <2>3. \A i \in 1..(p + Len(u)) : i \in 1..p \/ i \in (p + 1)..(p + Len(u))
    BY <1>1
  <2>4. 1..p \subseteq 1..(p + Len(u)) /\ (p + 1)..(p + Len(u)) \subseteq 1..(p + Len(u))
    BY <1>1
  <2> QED
    BY <2>2, <2>3, <2>4 DEF DataPlaces
<1>5. DataPlaces(p + Len(u))' = DataPlaces(p + Len(u))
  BY DEF DataPlaces
<1> QED
  BY <1>3, <1>4, <1>5 DEF Kept, IsSelection

----------------------------------------------------------------------------
(* Well-formed requests.                                                   *)

\* te is the first Transfer-Encoding among the first k headers of f, Other if none.
FirstCoding(f, k, te) ==
  /\ te \in {Chunked, NotChunked, Other}
  /\ te = Other <=> \A i \in 1..k : f[i] \notin {Chunked, NotChunked}
  /\ te = Chunked <=>
       \E i \in 1..k : f[i] = Chunked /\ \A j \in 1..(i - 1) : f[j] # NotChunked

LEMMA CodingsDiffer == Chunked # NotChunked /\ Chunked # Other /\ NotChunked # Other
BY DEF Chunked, NotChunked, Other

LEMMA NoHeaderCoding == ASSUME NEW f PROVE FirstCoding(f, 0, Other)
BY CodingsDiffer DEF FirstCoding

\* One more header: the first Transfer-Encoding stays the first.
LEMMA FirstCodingGrows ==
  ASSUME NEW f, NEW k \in Nat, NEW te, FirstCoding(f, k, te), NEW x, x = f[k + 1]
  PROVE  FirstCoding(f, k + 1, IF x \in {Chunked, NotChunked} THEN First(te, x) ELSE te)
<1>1. \A i \in 1..(k + 1) : i \in 1..k \/ i = k + 1
  OBVIOUS
<1>2. k + 1 \in 1..(k + 1) /\ (k + 1) - 1 = k /\ \A i \in 1..k : i \in 1..(k + 1)
  OBVIOUS
<1>3. \A i \in 1..k, j \in 1..k : j \in 1..(i - 1) \/ i <= j
  OBVIOUS
<1>4. CASE te = Other
  <2>1. \A i \in 1..k : f[i] \notin {Chunked, NotChunked}
    BY <1>4 DEF FirstCoding
  <2>2. CASE x \in {Chunked, NotChunked}
    <3>1. x = Chunked <=> \E i \in 1..(k + 1) : f[i] = Chunked /\ \A j \in 1..(i - 1) : f[j] # NotChunked
      BY <1>1, <1>2, <2>1, CodingsDiffer
    <3>2. ~\A i \in 1..(k + 1) : f[i] \notin {Chunked, NotChunked}
      BY <1>2, <2>2
    <3>3. FirstCoding(f, k + 1, x)
      BY <2>2, <3>1, <3>2, CodingsDiffer DEF FirstCoding
    <3> QED
      BY <1>4, <2>2, <3>3 DEF First
  <2>3. CASE x \notin {Chunked, NotChunked}
    <3>1. \A i \in 1..(k + 1) : f[i] \notin {Chunked, NotChunked}
      BY <1>1, <2>1, <2>3
    <3>2. FirstCoding(f, k + 1, Other)
      BY <3>1, CodingsDiffer DEF FirstCoding
    <3> QED
      BY <1>4, <2>3, <3>2
  <2> QED
    BY <2>2, <2>3
<1>5. CASE te # Other
  <2>1. ~\A i \in 1..(k + 1) : f[i] \notin {Chunked, NotChunked}
    BY <1>2, <1>5 DEF FirstCoding
  <2>2. CASE te = Chunked
    <3>1. \E i \in 1..(k + 1) : f[i] = Chunked /\ \A j \in 1..(i - 1) : f[j] # NotChunked
      BY <1>2, <2>2 DEF FirstCoding
    <3> QED
      BY <1>5, <2>1, <2>2, <3>1 DEF FirstCoding, First
  <2>3. CASE te = NotChunked
    <3>1. PICK i \in 1..k : f[i] = NotChunked
      <4>1. PICK i \in 1..k : f[i] \in {Chunked, NotChunked} /\ (f[i] = Chunked => \E j \in 1..(i - 1) : f[j] = NotChunked)
        BY <1>5, <2>3, CodingsDiffer DEF FirstCoding
      <4>2. \A j \in 1..(i - 1) : j \in 1..k
        OBVIOUS
      <4> QED
        BY <4>1, <4>2
    <3>2. ~\E j \in 1..(k + 1) : f[j] = Chunked /\ \A l \in 1..(j - 1) : f[l] # NotChunked
      <4> SUFFICES ASSUME NEW j \in 1..(k + 1), f[j] = Chunked, \A l \in 1..(j - 1) : f[l] # NotChunked
                   PROVE  FALSE
        OBVIOUS
      <4>1. CASE j \in 1..k
        BY <2>3, <4>1, CodingsDiffer DEF FirstCoding
      <4>2. CASE j = k + 1
        BY <1>2, <3>1, <4>2
      <4> QED
        BY <1>1, <4>1, <4>2
    <3>3. FirstCoding(f, k + 1, te)
      BY <1>5, <2>1, <2>3, <3>2, CodingsDiffer DEF FirstCoding
    <3> QED
      BY <1>5, <3>3 DEF First
  <2> QED
    BY <1>5, <2>2, <2>3 DEF FirstCoding
<1> QED
  BY <1>4, <1>5

\* What a header changes.
LEMMA HeaderAdds ==
  ASSUME NEW h \in [te : {Chunked, NotChunked, Other}, cl : Int], NEW x
  PROVE  /\ AddHeader(h, x).te = IF x \in {Chunked, NotChunked} THEN First(h.te, x) ELSE h.te
         /\ AddHeader(h, x).cl = IF x \in {Chunked, NotChunked} THEN h.cl ELSE First(h.cl, x)
BY DEF AddHeader

\* The values of the n headers of the stream.
HeaderVals(n) == [i \in 1..n |-> stream[3 * i + 1].val]

\* The parser has taken the first p symbols, and their data.
Stands(p) == At(buffer, p) /\ Kept(p)

\* Where parse() is in a request with n header lines.
ReadInv(n) ==
  /\ status \in {"START_LINE", "HEADERS", "PREBODY", "CHUNK", "COMPLETE"}
  /\ status = "START_LINE" => Stands(0) /\ headers.te = Other
  /\ status = "HEADERS" =>
       \E k \in 1..(n + 1) :
         Stands(3 * k) /\ FirstCoding(HeaderVals(n), k - 1, headers.te)
  /\ status = "PREBODY" =>
       Stands(3 * n + 5) /\ FirstCoding(HeaderVals(n), n, headers.te)
  /\ status = "CHUNK" =>
       /\ method \in BodyMethods
       /\ \E p \in SizesOf(stream) :
            IF chunked_status
              THEN /\ chunk_size = stream[p + 1].val /\ chunkBodyRead_size <= chunk_size
                   /\ Stands(p + 3 + chunkBodyRead_size)
              ELSE Stands(p)
  /\ status = "COMPLETE" => Stands(Len(stream)) /\ (method \in BodyMethods => data = tempBody)
  /\ status # "START_LINE" => method = stream[1].val
  /\ ~chunked_status => chunkBodyRead_size = 0
  /\ status \in {"START_LINE", "HEADERS", "PREBODY"} => ~chunked_status
  /\ ~parsing => status = "COMPLETE" \/ delivered < Len(stream)

LEMMA StandsAfter ==
  ASSUME NEW p \in Nat, NEW q \in Nat, p <= q, Kept(p),
         \A i \in (p + 1)..q : stream[i].kind # "data",
         UNCHANGED <<peerVars, tempBody>>, At(buffer', q)
  PROVE  Stands(q)'
<1>1. stream' = stream /\ delivered' = delivered /\ tempBody' = tempBody
  BY DEF peerVars
<1>2. Kept(q)'
  BY <1>1, StaysKept
<1>3. At(buffer, q)'
  BY <1>1 DEF At, Fit, IsEnd, Size
<1> QED
  BY <1>2, <1>3 DEF Stands

LEMMA StandsStill ==
  ASSUME NEW p, Stands(p), UNCHANGED <<peerVars, tempBody, buffer>>
  PROVE  Stands(p)'
  BY DEF Stands, Kept, IsSelection, DataPlaces, At, Fit, IsEnd, Size, peerVars

\* Lines hold no data.
LEMMA LineNoData ==
  ASSUME NEW s, NEW p \in Nat
  PROVE  /\ \A kind \in {"start", "header", "size"} :
              TextLineAt(s, p, kind) => \A i \in (p + 1)..(p + 3) : s[i].kind # "data"
         /\ EmptyLineAt(s, p) => \A i \in (p + 1)..(p + 2) : s[i].kind # "data"
<1>1. CR.kind # "data" /\ LF.kind # "data"
  BY DEF CR, LF
<1>2. \A i \in (p + 1)..(p + 3) : i = p + 1 \/ i = p + 2 \/ i = p + 3
  OBVIOUS
<1>3. \A i \in (p + 1)..(p + 2) : i = p + 1 \/ i = p + 2
  OBVIOUS
<1>4. ASSUME NEW kind \in {"start", "header", "size"}, TextLineAt(s, p, kind),
             NEW i \in (p + 1)..(p + 3)
      PROVE  s[i].kind # "data"
  BY <1>1, <1>2, <1>4 DEF TextLineAt
<1>5. ASSUME EmptyLineAt(s, p), NEW i \in (p + 1)..(p + 2)
      PROVE  s[i].kind # "data"
  BY <1>1, <1>3, <1>5 DEF EmptyLineAt
<1> QED
  BY <1>4, <1>5

\* The chunk behind p.
LEMMA ChunkPlaces ==
  ASSUME NEW s \in Seq(Text), NEW n \in Nat, LaidOut(s, n), s[1].val \in BodyMethods,
         NEW p \in SizesOf(s)
  PROVE  /\ p \in Nat /\ TextLineAt(s, p, "size") /\ s[p + 1].val \in Nat
         /\ \A i \in 1..s[p + 1].val : s[p + 3 + i].kind = "data"
         /\ EmptyLineAt(s, p + 3 + s[p + 1].val)
         /\ p + 5 + s[p + 1].val <= Len(s)
         /\ s[p + 1].val = 0 => Len(s) = p + 5
         /\ s[p + 1].val # 0 => p + 5 + s[p + 1].val \in SizesOf(s)
<1>1. Len(s) \in Nat
  BY LenProperties
<1>2. p \in Nat /\ p + 1 \in 1..Len(s)
  BY <1>1 DEF SizesOf
<1>3. s[p + 1].val \in Int
  BY <1>2, ElementOfSeq, TextIsSymbol DEF Symbol
<1>4. ChunkAt(s, p)
  BY DEF LaidOut
<1> DEFINE size == s[p + 1].val
<1>5. /\ TextLineAt(s, p, "size") /\ size >= 0 /\ EmptyLineAt(s, p + 3 + size)
      /\ \A i \in 1..size : s[p + 3 + i].kind = "data"
      /\ IF size = 0 THEN Len(s) = p + 5 ELSE p + 5 + size \in SizesOf(s)
  BY <1>4 DEF ChunkAt
<1> HIDE DEF size
<1>6. p + 3 + size + 2 <= Len(s)
  BY <1>5 DEF EmptyLineAt
<1>7. size \in Nat /\ p + 5 + size <= Len(s)
  BY <1>1, <1>2, <1>3, <1>5, <1>6 DEF size
<1> QED
  BY <1>2, <1>5, <1>7 DEF size

\* What a step starts from.
Premises(n) == Ordinary /\ TypeInv /\ EndInv /\ LaidOut(stream, n) /\ ReadInv(n)

LEMMA PremisesGive ==
  ASSUME NEW n \in Nat, Premises(n)
  PROVE  /\ stream \in Seq(Text) /\ Len(stream) \in Nat /\ delivered \in Nat
         /\ delivered <= Len(stream) /\ buffer \in TextBuffer /\ Size(buffer) \in Nat
         /\ ReadInv(n) /\ LaidOut(stream, n)
         /\ HeadOf(stream, n) /\ TextLineAt(stream, 0, "start") /\ stream[1].val # Invalid
         /\ EmptyLineAt(stream, 3 * n + 3)
         /\ chunkBodyRead_size \in Nat /\ chunk_size \in Int
<1>1. stream \in Streams
  BY DEF Premises, TypeInv, TypeOK
<1>2. /\ stream \in Seq(Text) /\ Len(stream) \in Nat /\ delivered \in Nat
      /\ delivered <= Len(stream) /\ buffer \in TextBuffer /\ Size(buffer) \in Nat
  BY FitBuffer DEF Premises
<1>3. HeadOf(stream, n) /\ ReadInv(n) /\ LaidOut(stream, n)
  BY DEF Premises, LaidOut
<1>4. chunkBodyRead_size \in Nat /\ chunk_size \in Int
  BY DEF Premises, TypeInv, TypeOK
<1> QED
  BY <1>2, <1>3, <1>4 DEF HeadOf

LEMMA ReadStartLine ==
  ASSUME NEW n \in Nat, Premises(n), ParseStartLine
  PROVE  ReadInv(n)'
<1>1. /\ status = "START_LINE" /\ parsing /\ UNCHANGED <<peerVars, headers, chunkVars, data>>
      /\ stream' = stream /\ delivered' = delivered /\ tempBody' = tempBody
      /\ chunked_status' = chunked_status /\ chunkBodyRead_size' = chunkBodyRead_size
      /\ headers' = headers
  BY DEF ParseStartLine, peerVars, chunkVars
<1>2. Stands(0) /\ ~chunked_status /\ chunkBodyRead_size = 0 /\ At(buffer, 0) /\ headers.te = Other
  BY <1>1, PremisesGive DEF ReadInv, Stands
<1>3. TextLineAt(stream, 0, "start") /\ 3 <= Len(stream) /\ 0 + 1 = 1 /\ 0 + 3 = 3
  BY PremisesGive DEF TextLineAt
<1>4. 0 + Size(buffer) = delivered /\ Size(buffer) \in Nat
  BY <1>2, AtBytes
<1>5. CASE Size(buffer) < 3
  <2>1. Line(buffer) = <<>> /\ AfterLine(buffer) = buffer
    <3>1. \/ Size(buffer) < 3 /\ Line(buffer) = <<>> /\ AfterLine(buffer) = buffer
          \/ Size(buffer) >= 3
      BY <1>2, <1>3, TakeLine
    <3> QED
      BY <1>4, <1>5, <3>1
  <2>2. buffer' = buffer /\ status' = "START_LINE" /\ ~parsing'
    BY <2>1 DEF ParseStartLine, Return
  <2>3. Stands(0)'
    BY <1>1, <1>2, <2>2, StandsStill
  <2>4. delivered < Len(stream)
    BY <1>3, <1>4, <1>5, PremisesGive
  <2> QED
    BY <1>1, <1>2, <2>2, <2>3, <2>4 DEF ReadInv
<1>6. CASE Size(buffer) >= 3
  <2>1. /\ Line(buffer) # <<>> /\ Line(buffer)[1] = stream[1]
        /\ At(EraseRead(AfterLine(buffer)), 3)
    BY <1>2, <1>3, <1>4, <1>6, TakeLine
  <2>2. stream[1].kind = "start" /\ stream[1].val # Invalid
    BY <1>3, PremisesGive DEF TextLineAt
  <2>3. /\ buffer' = EraseRead(AfterLine(buffer)) /\ status' = "HEADERS" /\ parsing'
        /\ method' = stream[1].val
    BY <1>1, <2>1, <2>2 DEF ParseStartLine, GoOn
  <2>4. Stands(3 * 1)'
    <3>1. \A i \in (0 + 1)..3 : stream[i].kind # "data"
      BY <1>3, LineNoData
    <3>2. Stands(3)'
      BY <1>1, <1>2, <2>1, <2>3, <3>1, StandsAfter DEF Stands
    <3> QED
      BY <3>2
  <2>5. FirstCoding(HeaderVals(n), 1 - 1, headers.te)'
    <3>1. FirstCoding(HeaderVals(n)', 0, Other) /\ headers'.te = Other /\ 1 - 1 = 0
      BY <1>1, <1>2, NoHeaderCoding
    <3> QED
      BY <3>1 DEF FirstCoding
  <2>6. 1 \in 1..(n + 1)
    OBVIOUS
  <2> QED
    BY <1>1, <1>2, <2>3, <2>4, <2>5, <2>6 DEF ReadInv
<1> QED
  BY <1>4, <1>5, <1>6

LEMMA ReadHeaderLine ==
  ASSUME NEW n \in Nat, Premises(n), ParseHeaders
  PROVE  ReadInv(n)'
<1>1. /\ status = "HEADERS" /\ parsing /\ UNCHANGED <<peerVars, method, chunkVars, data>>
      /\ stream' = stream /\ delivered' = delivered /\ tempBody' = tempBody /\ method' = method
      /\ chunked_status' = chunked_status /\ chunkBodyRead_size' = chunkBodyRead_size
  BY DEF ParseHeaders, peerVars, chunkVars
<1>2. PICK k \in 1..(n + 1) :
        Stands(3 * k) /\ FirstCoding(HeaderVals(n), k - 1, headers.te)
  BY <1>1, PremisesGive DEF ReadInv
<1>3. method = stream[1].val /\ ~chunked_status /\ chunkBodyRead_size = 0
  BY <1>1, PremisesGive DEF ReadInv
<1>4. /\ At(buffer, 3 * k) /\ Kept(3 * k) /\ 3 * k + Size(buffer) = delivered
      /\ Size(buffer) \in Nat /\ 3 * k \in Nat /\ Len(stream) \in Nat
  BY <1>2, AtBytes, PremisesGive DEF Stands
<1>5. ASSUME Line(buffer) = <<>>, AfterLine(buffer) = buffer, ~CheckHeaderEnd(buffer),
             delivered < Len(stream)
      PROVE  ReadInv(n)'
  <2>1. buffer' = buffer /\ status' = "HEADERS" /\ headers' = headers
    BY <1>5 DEF ParseHeaders, Return
  <2>2. Stands(3 * k)'
    BY <1>1, <1>2, <2>1, StandsStill
  <2>3. FirstCoding(HeaderVals(n), k - 1, headers.te)'
    BY <1>1, <1>2, <2>1 DEF FirstCoding, HeaderVals
  <2> QED
    BY <1>1, <1>2, <1>3, <1>5, <2>1, <2>2, <2>3 DEF ReadInv
<1>6. CASE k <= n
  <2>1. k \in 1..n /\ TextLineAt(stream, 3 * k, "header") /\ stream[3 * k + 1].val # NoColon
        /\ 3 * k + 3 <= Len(stream)
    <3>1. k \in 1..n
      BY <1>6
    <3>2. TextLineAt(stream, 3 * k, "header") /\ stream[3 * k + 1].val # NoColon
      BY <3>1, PremisesGive DEF HeadOf
    <3> QED
      BY <3>1, <3>2 DEF TextLineAt
  <2>2. CASE Size(buffer) < 3
    <3>1. Line(buffer) = <<>> /\ AfterLine(buffer) = buffer /\ ~CheckHeaderEnd(buffer)
      <4>1. \/ /\ Size(buffer) < 3 /\ Line(buffer) = <<>> /\ AfterLine(buffer) = buffer
               /\ ~CheckHeaderEnd(buffer)
            \/ Size(buffer) >= 3
        BY <1>4, <2>1, TakeLine
      <4> QED
        BY <1>4, <2>2, <4>1
    <3>2. delivered < Len(stream)
      BY <1>4, <2>1, <2>2
    <3> QED
      BY <1>5, <3>1, <3>2
  <2>3. CASE Size(buffer) >= 3
    <3>1. /\ Line(buffer) # <<>> /\ Line(buffer)[1] = stream[3 * k + 1]
          /\ At(EraseRead(AfterLine(buffer)), 3 * k + 3)
      BY <1>4, <2>1, <2>3, TakeLine
    <3>2. stream[3 * k + 1].kind = "header"
      BY <2>1 DEF TextLineAt
    <3>3. /\ buffer' = EraseRead(AfterLine(buffer)) /\ status' = "HEADERS" /\ parsing'
          /\ headers' = AddHeader(headers, stream[3 * k + 1].val)
      BY <1>1, <2>1, <3>1, <3>2 DEF ParseHeaders, GoOn
    <3>4. Stands(3 * k + 3)'
      <4>1. \A i \in (3 * k + 1)..(3 * k + 3) : stream[i].kind # "data"
        BY <1>4, <2>1, LineNoData
      <4>2. 3 * k + 3 \in Nat /\ 3 * k <= 3 * k + 3
        BY <1>4
      <4> DEFINE p == 3 * k
                 q == 3 * k + 3
      <4>3. p \in Nat /\ q \in Nat /\ p <= q /\ Kept(p) /\ At(buffer', q)
            /\ \A i \in (p + 1)..q : stream[i].kind # "data"
        BY <1>4, <3>1, <3>3, <4>1, <4>2
      <4> HIDE DEF p, q
      <4>4. Stands(q)'
        BY <1>1, <4>3, StandsAfter
      <4> QED
        BY <4>4 DEF q
    <3>5. k + 1 \in 1..(n + 1) /\ 3 * (k + 1) = 3 * k + 3 /\ (k + 1) - 1 = k
          /\ (k - 1) + 1 = k /\ k - 1 \in Nat
      BY <2>1
    <3>6. FirstCoding(HeaderVals(n), k, headers'.te)
      <4> DEFINE x == stream[3 * k + 1].val
      <4>1. headers \in [te : {Chunked, NotChunked, Other}, cl : Int]
        BY DEF Premises, TypeInv, TypeOK
      <4>2. headers'.te = IF x \in {Chunked, NotChunked} THEN First(headers.te, x) ELSE headers.te
        BY <3>3, <4>1, HeaderAdds
      <4>3. x = HeaderVals(n)[(k - 1) + 1]
        BY <2>1, <3>5 DEF HeaderVals
      <4> HIDE DEF x
      <4>4. FirstCoding(HeaderVals(n), (k - 1) + 1,
                        IF x \in {Chunked, NotChunked} THEN First(headers.te, x) ELSE headers.te)
        BY <1>2, <3>5, <4>3, FirstCodingGrows
      <4> QED
        BY <3>5, <4>2, <4>4
    <3>7. FirstCoding(HeaderVals(n), (k + 1) - 1, headers.te)'
      BY <1>1, <3>5, <3>6 DEF FirstCoding, HeaderVals
    <3>8. Stands(3 * (k + 1))'
      BY <3>4, <3>5
    <3> QED
      BY <1>1, <1>3, <3>3, <3>5, <3>7, <3>8 DEF ReadInv
  <2> QED
    BY <1>4, <2>2, <2>3
<1>7. CASE k = n + 1
  <2>1. 3 * k = 3 * n + 3 /\ EmptyLineAt(stream, 3 * k) /\ 3 * k + 2 <= Len(stream)
        /\ k - 1 = n /\ 3 * k + 2 = 3 * n + 5
    <3>1. 3 * k = 3 * n + 3 /\ k - 1 = n /\ 3 * k + 2 = 3 * n + 5
      BY <1>7
    <3> QED
      BY <3>1, PremisesGive DEF EmptyLineAt
  <2>2. CASE Size(buffer) < 2
    <3>1. Line(buffer) = <<>> /\ AfterLine(buffer) = buffer /\ ~CheckHeaderEnd(buffer)
      BY <1>4, <2>1, <2>2, TakeEmptyLine
    <3>2. delivered < Len(stream)
      BY <1>4, <2>1, <2>2
    <3> QED
      BY <1>5, <3>1, <3>2
  <2>3. CASE Size(buffer) >= 2
    <3>1. /\ Line(buffer) = <<>> /\ CheckHeaderEnd(AfterLine(buffer))
          /\ At(EraseRead(AfterLine(buffer)), 3 * k + 2)
      BY <1>4, <2>1, <2>3, TakeEmptyLine
    <3>2. /\ buffer' = EraseRead(AfterLine(buffer)) /\ status' = "PREBODY" /\ parsing'
          /\ headers' = headers
      BY <1>1, <3>1 DEF ParseHeaders, GoOn
    <3>3. Stands(3 * n + 5)'
      <4> DEFINE p == 3 * k
                 q == 3 * n + 5
      <4>1. p \in Nat /\ q \in Nat /\ p <= q /\ q = p + 2 /\ Kept(p) /\ At(buffer', q)
        BY <1>4, <2>1, <3>1, <3>2
      <4>2. EmptyLineAt(stream, p)
        BY <2>1
      <4> HIDE DEF p, q
      <4>3. \A i \in (p + 1)..q : stream[i].kind # "data"
        BY <4>1, <4>2, LineNoData
      <4>4. Stands(q)'
        BY <1>1, <4>1, <4>3, StandsAfter
      <4> QED
        BY <4>4 DEF q
    <3>4. FirstCoding(HeaderVals(n), n, headers.te)'
      <4>1. FirstCoding(HeaderVals(n), n, headers.te)
        BY <1>2, <2>1
      <4>2. HeaderVals(n)' = HeaderVals(n) /\ headers' = headers
        BY <1>1, <3>2 DEF HeaderVals
      <4> QED
        BY <4>1, <4>2 DEF FirstCoding
    <3> QED
      BY <1>1, <1>3, <3>2, <3>3, <3>4 DEF ReadInv
  <2> QED
    BY <1>4, <2>2, <2>3
<1> QED
  BY <1>6, <1>7

LEMMA ReadBodyKind ==
  ASSUME NEW n \in Nat, Premises(n), CheckChunked
  PROVE  ReadInv(n)'
<1>1. /\ status = "PREBODY" /\ parsing /\ UNCHANGED <<peerVars, buffer, method, headers, chunkVars, data>>
      /\ stream' = stream /\ delivered' = delivered /\ tempBody' = tempBody /\ method' = method
      /\ chunked_status' = chunked_status /\ chunkBodyRead_size' = chunkBodyRead_size
      /\ buffer' = buffer
  BY DEF CheckChunked, peerVars, chunkVars
<1>2. /\ Stands(3 * n + 5) /\ FirstCoding(HeaderVals(n), n, headers.te)
      /\ method = stream[1].val /\ ~chunked_status /\ chunkBodyRead_size = 0
  BY <1>1, PremisesGive DEF ReadInv
<1>3. Stands(3 * n + 5)'
  <2> DEFINE p == 3 * n + 5
  <2> HIDE DEF p
  <2>1. Stands(p) => Stands(p)'
    BY <1>1, StandsStill
  <2> QED
    BY <1>2, <2>1 DEF p
<1>4. CASE method \notin BodyMethods
  <2>1. status' = "COMPLETE"
    BY <1>4 DEF CheckChunked, Return
  <2>2. Len(stream) = 3 * n + 5
    BY <1>2, <1>4, PremisesGive DEF LaidOut
  <2>3. Stands(Len(stream))'
    BY <1>1, <1>3, <2>2
  <2> QED
    BY <1>1, <1>2, <1>4, <2>1, <2>3 DEF ReadInv
<1>5. CASE method \in BodyMethods
  <2>1. headers.te = Chunked /\ 3 * n + 5 \in SizesOf(stream)
    <3>1. /\ 3 * n + 5 \in SizesOf(stream)
          /\ \E k \in 1..n :
               /\ stream[3 * k + 1].val = Chunked
               /\ \A j \in 1..(k - 1) : stream[3 * j + 1].val # NotChunked
      BY <1>2, <1>5, PremisesGive DEF LaidOut
    <3>2. \A k \in 1..n : \A j \in 1..(k - 1) : j \in 1..n
      OBVIOUS
    <3>3. \E k \in 1..n : /\ HeaderVals(n)[k] = Chunked
                          /\ \A j \in 1..(k - 1) : HeaderVals(n)[j] # NotChunked
      BY <3>1, <3>2 DEF HeaderVals
    <3> QED
      BY <1>2, <3>1, <3>3 DEF FirstCoding
  <2>2. status' = "CHUNK" /\ parsing'
    BY <1>1, <1>5, <2>1 DEF CheckChunked, GoOn
  <2>3. \E p \in SizesOf(stream') : Stands(p)'
    BY <1>1, <1>3, <2>1
  <2> QED
    BY <1>1, <1>2, <1>5, <2>2, <2>3 DEF ReadInv
<1> QED
  BY <1>4, <1>5

LEMMA ReadChunkSize ==
  ASSUME NEW n \in Nat, Premises(n), ParseChunkSize
  PROVE  ReadInv(n)'
<1>1. /\ status = "CHUNK" /\ parsing /\ ~chunked_status
      /\ UNCHANGED <<peerVars, method, headers, chunkBodyRead_size, tempBody, data>>
      /\ stream' = stream /\ delivered' = delivered /\ tempBody' = tempBody /\ method' = method
      /\ chunkBodyRead_size' = chunkBodyRead_size
  BY DEF ParseChunkSize, peerVars
<1>2. PICK p \in SizesOf(stream) : Stands(p)
  BY <1>1, PremisesGive DEF ReadInv
<1>3. method \in BodyMethods /\ method = stream[1].val /\ chunkBodyRead_size = 0
  BY <1>1, PremisesGive DEF ReadInv
<1>4. /\ At(buffer, p) /\ Kept(p) /\ p + Size(buffer) = delivered
      /\ Size(buffer) \in Nat /\ p \in Nat /\ Len(stream) \in Nat
  BY <1>2, AtBytes, PremisesGive DEF Stands
<1>5. TextLineAt(stream, p, "size") /\ stream[p + 1].val \in Nat
  BY <1>3, ChunkPlaces, PremisesGive
<1>6. p + 3 <= Len(stream) /\ stream[p + 1].kind = "size"
  BY <1>5 DEF TextLineAt
<1>7. \/ Size(buffer) < 3 /\ Line(buffer) = <<>> /\ AfterLine(buffer) = buffer
      \/ /\ Size(buffer) >= 3 /\ Line(buffer) # <<>> /\ Line(buffer)[1] = stream[p + 1]
         /\ At(EraseRead(AfterLine(buffer)), p + 3)
  BY <1>4, <1>5, TakeLine
<1>8. CASE Size(buffer) < 3 /\ Line(buffer) = <<>> /\ AfterLine(buffer) = buffer
  <2>1. buffer' = buffer /\ status' = "CHUNK" /\ chunked_status' = chunked_status
    BY <1>8 DEF ParseChunkSize, Return
  <2>2. Stands(p)'
    BY <1>1, <1>2, <2>1, StandsStill
  <2>3. delivered < Len(stream)
    BY <1>4, <1>6, <1>8
  <2>4. p \in SizesOf(stream')
    BY <1>1
  <2> QED
    BY <1>1, <1>3, <2>1, <2>2, <2>3, <2>4 DEF ReadInv
<1>9. CASE /\ Size(buffer) >= 3 /\ Line(buffer) # <<>> /\ Line(buffer)[1] = stream[p + 1]
           /\ At(EraseRead(AfterLine(buffer)), p + 3)
  <2>1. /\ buffer' = EraseRead(AfterLine(buffer)) /\ status' = "CHUNK" /\ chunked_status'
        /\ chunk_size' = stream[p + 1].val /\ parsing'
    BY <1>1, <1>6, <1>9 DEF ParseChunkSize, GoOn, Strtol
  <2>2. Stands(p + 3)'
    <3> DEFINE q == p + 3
    <3>1. q \in Nat /\ p <= q
      BY <1>4
    <3>2. \A i \in (p + 1)..q : stream[i].kind # "data"
      BY <1>4, <1>5, LineNoData
    <3>3. At(buffer', q)
      BY <1>9, <2>1
    <3> HIDE DEF q
    <3>4. Stands(q)'
      BY <1>1, <1>4, <3>1, <3>2, <3>3, StandsAfter
    <3> QED
      BY <3>4 DEF q
  <2>3. p + 3 + chunkBodyRead_size' = p + 3 /\ chunkBodyRead_size' <= chunk_size'
    BY <1>1, <1>3, <1>4, <1>5, <2>1
  <2>4. Stands(p + 3 + chunkBodyRead_size)'
    BY <1>1, <2>2, <2>3
  <2>5. p \in SizesOf(stream') /\ chunk_size' = stream'[p + 1].val
    BY <1>1, <2>1
  <2> QED
    BY <1>1, <1>3, <2>1, <2>3, <2>4, <2>5 DEF ReadInv
<1> QED
  BY <1>7, <1>8, <1>9

\* In a chunk: where it began, and what is left of it.
LEMMA InChunk ==
  ASSUME NEW n \in Nat, Premises(n), status = "CHUNK", chunked_status
  PROVE  /\ method \in BodyMethods /\ method = stream[1].val
         /\ \E p \in SizesOf(stream) :
              /\ chunk_size = stream[p + 1].val /\ chunkBodyRead_size <= chunk_size
              /\ chunkBodyRead_size \in Nat /\ chunk_size \in Nat
              /\ At(buffer, p + 3 + chunkBodyRead_size) /\ Kept(p + 3 + chunkBodyRead_size)
              /\ p + 3 + chunkBodyRead_size + Size(buffer) = delivered
              /\ Size(buffer) \in Nat /\ p \in Nat
              /\ \A i \in 1..chunk_size : stream[p + 3 + i].kind = "data"
              /\ EmptyLineAt(stream, p + 3 + chunk_size)
              /\ p + 5 + chunk_size <= Len(stream)
              /\ chunk_size = 0 => Len(stream) = p + 5
              /\ chunk_size # 0 => p + 5 + chunk_size \in SizesOf(stream)
<1>1. method \in BodyMethods /\ method = stream[1].val /\ chunkBodyRead_size \in Nat
  BY PremisesGive DEF ReadInv
<1>2. PICK p \in SizesOf(stream) :
        /\ chunk_size = stream[p + 1].val /\ chunkBodyRead_size <= chunk_size
        /\ Stands(p + 3 + chunkBodyRead_size)
  BY PremisesGive DEF ReadInv
<1>3. /\ p \in Nat /\ chunk_size \in Nat
      /\ \A i \in 1..chunk_size : stream[p + 3 + i].kind = "data"
      /\ EmptyLineAt(stream, p + 3 + chunk_size)
      /\ p + 5 + chunk_size <= Len(stream)
      /\ chunk_size = 0 => Len(stream) = p + 5
      /\ chunk_size # 0 => p + 5 + chunk_size \in SizesOf(stream)
  BY <1>1, <1>2, ChunkPlaces, PremisesGive
<1>4. /\ At(buffer, p + 3 + chunkBodyRead_size) /\ Kept(p + 3 + chunkBodyRead_size)
      /\ p + 3 + chunkBodyRead_size + Size(buffer) = delivered /\ Size(buffer) \in Nat
  <2> DEFINE q == p + 3 + chunkBodyRead_size
  <2>1. Stands(q)
    BY <1>2
  <2> HIDE DEF q
  <2>2. At(buffer, q) /\ Kept(q) /\ q + Size(buffer) = delivered /\ Size(buffer) \in Nat
    BY <2>1, AtBytes DEF Stands
  <2> QED
    BY <2>2 DEF q
<1> QED
  BY <1>1, <1>2, <1>3, <1>4

LEMMA ReadLastChunk ==
  ASSUME NEW n \in Nat, Premises(n), ParseLastChunk
  PROVE  ReadInv(n)'
<1>1. /\ status = "CHUNK" /\ parsing /\ chunked_status /\ chunk_size = 0 /\ Size(buffer) > 0
      /\ UNCHANGED <<peerVars, method, headers, chunkVars>>
      /\ stream' = stream /\ delivered' = delivered /\ tempBody' = tempBody /\ method' = method
      /\ chunkBodyRead_size' = chunkBodyRead_size /\ chunked_status' = chunked_status
      /\ chunk_size' = chunk_size
  BY DEF ParseLastChunk, peerVars, chunkVars
<1>2. method \in BodyMethods /\ method = stream[1].val
  BY <1>1, InChunk
<1>3. PICK p \in SizesOf(stream) :
        /\ chunk_size = stream[p + 1].val /\ chunkBodyRead_size <= chunk_size
        /\ chunkBodyRead_size \in Nat
        /\ At(buffer, p + 3 + chunkBodyRead_size) /\ Kept(p + 3 + chunkBodyRead_size)
        /\ p + 3 + chunkBodyRead_size + Size(buffer) = delivered
        /\ Size(buffer) \in Nat /\ p \in Nat
        /\ EmptyLineAt(stream, p + 3 + chunk_size)
        /\ chunk_size = 0 => Len(stream) = p + 5
  BY <1>1, InChunk
<1>4. PICK q \in Nat : q = p + 3
  BY <1>3
<1>5. chunkBodyRead_size = 0 /\ p + 3 + chunkBodyRead_size = q /\ p + 3 + chunk_size = q
      /\ Len(stream) = q + 2
  BY <1>1, <1>3, <1>4
<1>6. At(buffer, q) /\ Kept(q) /\ EmptyLineAt(stream, q) /\ q + Size(buffer) = delivered
  BY <1>3, <1>5
<1>7. CASE Size(buffer) >= 2
  <2>1. ChunkEnds(buffer) /\ At(AfterChunkEnd(buffer), q + 2)
    <3>1. \/ Size(buffer) >= 2 /\ ChunkEnds(buffer) /\ At(AfterChunkEnd(buffer), q + 2)
          \/ Size(buffer) < 2
      BY <1>6, TakeChunkEnd
    <3>2. Size(buffer) \in Nat
      BY <1>3
    <3> QED
      BY <3>1, <3>2, <1>7
  <2>2. status' = "COMPLETE" /\ buffer' = AfterChunkEnd(buffer) /\ data' = tempBody
    BY <2>1 DEF ParseLastChunk, Return
  <2>3. Stands(q + 2)'
    <3>1. \A i \in (q + 1)..(q + 2) : stream[i].kind # "data"
      BY <1>6, LineNoData
    <3>2. PICK r \in Nat : r = q + 2
      OBVIOUS
    <3>3. q <= r /\ At(buffer', r) /\ \A i \in (q + 1)..r : stream[i].kind # "data"
      BY <2>1, <2>2, <3>1, <3>2
    <3>4. Stands(r)'
      BY <1>1, <1>6, <3>3, StandsAfter DEF chunkVars
    <3> QED
      BY <3>2, <3>4
  <2>4. Stands(Len(stream))'
    BY <1>1, <1>5, <2>3
  <2> QED
    BY <1>1, <1>2, <1>5, <2>2, <2>4 DEF ReadInv
<1>8. CASE Size(buffer) < 2
  <2>1. ~ChunkEnds(buffer) /\ At(StepBack(AfterChunkEnd(buffer)), q)
    BY <1>1, <1>3, <1>6, <1>8, TakeChunkEnd
  <2>2. status' = "CHUNK" /\ buffer' = StepBack(AfterChunkEnd(buffer)) /\ data' = data
    BY <2>1 DEF ParseLastChunk, Return
  <2>3. Stands(q)'
    <3>1. \A i \in (q + 1)..q : stream[i].kind # "data"
      OBVIOUS
    <3>2. q <= q
      OBVIOUS
    <3> QED
      BY <1>1, <1>6, <2>1, <2>2, <3>1, <3>2, StandsAfter DEF chunkVars
  <2>4. delivered < Len(stream)
    BY <1>3, <1>5, <1>6, <1>8
  <2>5. /\ p \in SizesOf(stream') /\ chunk_size' = stream'[p + 1].val
        /\ chunkBodyRead_size' <= chunk_size' /\ Stands(p + 3 + chunkBodyRead_size)'
    BY <1>1, <1>3, <1>5, <2>3
  <2> QED
    BY <1>1, <1>2, <2>2, <2>4, <2>5 DEF ReadInv
<1> QED
  BY <1>3, <1>7, <1>8

LEMMA ReadChunkData ==
  ASSUME NEW n \in Nat, Premises(n), ParseChunkData
  PROVE  ReadInv(n)'
<1>1. /\ status = "CHUNK" /\ parsing /\ chunked_status /\ chunk_size # 0
      /\ UNCHANGED <<peerVars, method, headers, chunk_size, data>>
      /\ stream' = stream /\ delivered' = delivered /\ method' = method /\ chunk_size' = chunk_size
      /\ tempBody' = tempBody \o ChunkRest(buffer)
  BY DEF ParseChunkData, peerVars
<1>2. method \in BodyMethods /\ method = stream[1].val
  BY <1>1, InChunk
<1>3. PICK p \in SizesOf(stream) :
        /\ chunk_size = stream[p + 1].val /\ chunkBodyRead_size <= chunk_size
        /\ chunkBodyRead_size \in Nat /\ chunk_size \in Nat
        /\ At(buffer, p + 3 + chunkBodyRead_size) /\ Kept(p + 3 + chunkBodyRead_size)
        /\ Size(buffer) \in Nat /\ p \in Nat
        /\ \A i \in 1..chunk_size : stream[p + 3 + i].kind = "data"
        /\ EmptyLineAt(stream, p + 3 + chunk_size)
        /\ p + 5 + chunk_size <= Len(stream)
        /\ chunk_size # 0 => p + 5 + chunk_size \in SizesOf(stream)
  BY <1>1, InChunk
<1>a. /\ p \in Nat /\ chunk_size \in Nat /\ chunkBodyRead_size \in Nat
      /\ chunkBodyRead_size <= chunk_size
  BY <1>3
<1>4. PICK q \in Nat, len \in Nat, r \in Nat :
        q = p + 3 + chunkBodyRead_size /\ len = chunk_size - chunkBodyRead_size
        /\ r = chunkBodyRead_size
  BY <1>a
<1>b. q = p + 3 + r /\ r + len = chunk_size
  BY <1>a, <1>4
<1>5. At(buffer, q) /\ Kept(q)
  BY <1>3, <1>4
<1> DEFINE rest  == DataToString(buffer, len)
           after == EraseRead(AfterDataToString(buffer, len))
<1>6. PICK m \in Nat :
        /\ m <= len /\ m <= Size(buffer) /\ (m = len \/ m = Size(buffer))
        /\ rest \in Seq(Text) /\ Len(rest) = m
        /\ \A i \in 1..m : rest[i] = stream[q + i]
        /\ At(after, q + m)
  BY <1>5, TakeData
<1>7. ChunkRest(buffer) = rest
  BY <1>4 DEF ChunkRest
<1> HIDE DEF rest
<1>8. \A i \in 1..m : stream[q + i].kind = "data"
  <2> SUFFICES ASSUME NEW i \in 1..m PROVE stream[q + i].kind = "data"
    OBVIOUS
  <2>1. r + len = chunk_size /\ q = p + 3 + r /\ chunk_size \in Nat /\ p \in Nat
    BY <1>a, <1>b
  <2>2. i \in Nat /\ i >= 1 /\ i <= len
    BY <1>6
  <2>3. r + i \in 1..chunk_size /\ q + i = p + 3 + (r + i)
    BY <2>1, <2>2
  <2> QED
    BY <1>3, <2>3
<1>9. Kept(q + m)'
  <2>1. PICK u : u = rest
    OBVIOUS
  <2>2. u \in Seq(Symbol) /\ Len(u) = m
    BY <1>6, <2>1, TextIsSymbol
  <2>3. tempBody' = tempBody \o u
    BY <1>1, <1>7, <2>1
  <2>4. \A i \in 1..Len(u) : u[i] = stream[q + i] /\ stream[q + i].kind = "data"
    BY <1>6, <1>8, <2>1
  <2>5. TypeInv
    BY DEF Premises
  <2>6. Kept(q + Len(u))'
    BY <1>1, <1>5, <2>2, <2>3, <2>4, <2>5, GrowsKept
  <2> QED
    BY <2>2, <2>6
<1>10. \/ /\ r + m # chunk_size
          /\ buffer' = after /\ chunkBodyRead_size' = r + m /\ status' = "CHUNK"
          /\ parsing' /\ chunked_status'
       \/ /\ r + m = chunk_size /\ Size(after) >= 2 /\ ChunkEnds(after)
          /\ buffer' = AfterChunkEnd(after) /\ chunkBodyRead_size' = 0 /\ ~chunked_status'
          /\ status' = "CHUNK" /\ parsing'
       \/ /\ r + m = chunk_size /\ ~(Size(after) >= 2 /\ ChunkEnds(after))
          /\ buffer' = (IF Size(after) >= 2 THEN AfterChunkEnd(after) ELSE after)
          /\ chunkBodyRead_size' = r + m /\ status' = "CHUNK" /\ chunked_status'
  BY <1>1, <1>4, <1>6, <1>7 DEF ParseChunkData, GoOn, AwaitChunkEnd, Return
<1> HIDE DEF after
<1>11. PICK k \in Nat : k = q + m
  BY <1>6
<1>12. At(after, k) /\ Kept(k)' /\ k = p + 3 + (r + m) /\ r + m \in Nat /\ r + m <= chunk_size
       /\ k + Size(after) = delivered /\ Size(after) \in Nat
  <2>1. At(after, k) /\ Kept(k)'
    BY <1>6, <1>9, <1>11
  <2>2. k = p + 3 + (r + m) /\ r + m \in Nat /\ r + m <= chunk_size
    <3>1. m <= len
      BY <1>6
    <3> QED
      BY <1>a, <1>b, <1>11, <3>1
  <2> QED
    BY <2>1, <2>2, AtBytes
<1>13. ASSUME buffer' = after PROVE Stands(k)'
  <2>1. At(buffer, k)'
    BY <1>1, <1>12, <1>13 DEF At, Fit, IsEnd, Size
  <2> QED
    BY <1>12, <2>1 DEF Stands
<1>14. ASSUME buffer' = after, chunkBodyRead_size' = r + m, status' = "CHUNK", chunked_status',
              parsing' \/ delivered < Len(stream)
       PROVE  ReadInv(n)'
  <2>1. Stands(p + 3 + chunkBodyRead_size)'
    BY <1>12, <1>13, <1>14
  <2>2. p \in SizesOf(stream') /\ chunk_size' = stream'[p + 1].val
        /\ chunkBodyRead_size' <= chunk_size'
    BY <1>1, <1>3, <1>12, <1>14
  <2> QED
    BY <1>1, <1>2, <1>14, <2>1, <2>2 DEF ReadInv
<1>15. CASE r + m # chunk_size
  BY <1>10, <1>14, <1>15
<1>16. CASE r + m = chunk_size
  <2>1. k = p + 3 + chunk_size /\ EmptyLineAt(stream, k) /\ k + 2 = p + 5 + chunk_size
        /\ k + 2 <= Len(stream) /\ k + 2 \in SizesOf(stream) /\ k + 2 \in Nat
    <3>0. k = p + 3 + (r + m)
      BY <1>12
    <3>1. k = p + 3 + chunk_size /\ k + 2 = p + 5 + chunk_size /\ k + 2 \in Nat
      BY <1>a, <1>16, <3>0
    <3> QED
      BY <1>1, <1>3, <3>1
  <2>2. CASE Size(after) >= 2
    <3>1. ChunkEnds(after) /\ At(AfterChunkEnd(after), k + 2)
      BY <1>12, <2>1, <2>2, TakeChunkEnd
    <3>2. /\ buffer' = AfterChunkEnd(after) /\ chunkBodyRead_size' = 0 /\ ~chunked_status'
          /\ status' = "CHUNK" /\ parsing'
      BY <1>10, <1>16, <2>2, <3>1
    <3>3. PICK j \in Nat : j = k + 2
      BY <2>1
    <3>4. At(buffer, j)'
      BY <1>1, <3>1, <3>2, <3>3 DEF At, Fit, IsEnd, Size
    <3>5. Kept(j)'
      <4>1. \A i \in (k + 1)..j : stream[i].kind # "data"
        BY <2>1, <3>3, LineNoData
      <4>2. DataPlaces(j) = DataPlaces(k)
        <5>1. \A i \in 1..j : i \in 1..k \/ i \in (k + 1)..j
          OBVIOUS
        <5>2. 1..k \subseteq 1..j
          BY <3>3
        <5> QED
          BY <4>1, <5>1, <5>2 DEF DataPlaces
      <4>3. DataPlaces(j)' = DataPlaces(k)'
        BY <1>1, <4>2 DEF DataPlaces
      <4> QED
        BY <1>12, <4>3 DEF Kept
    <3>6. Stands(j)' /\ j \in SizesOf(stream')
      BY <1>1, <2>1, <3>3, <3>4, <3>5 DEF Stands
    <3> QED
      BY <1>1, <1>2, <3>2, <3>6 DEF ReadInv
  <2>3. CASE Size(after) < 2
    <3>1. ~(Size(after) >= 2)
      BY <1>12, <2>3
    <3>2. buffer' = after /\ chunkBodyRead_size' = r + m /\ status' = "CHUNK" /\ chunked_status'
      BY <1>10, <1>16, <3>1
    <3>3. delivered < Len(stream)
      BY SMTT(30), <1>12, <2>1, <2>3, PremisesGive
    <3> QED
      BY <1>14, <3>2, <3>3
  <2> QED
    BY <1>12, <2>2, <2>3
<1> QED
  BY <1>15, <1>16

LEMMA ReadNoMore ==
  ASSUME NEW n \in Nat, Premises(n), ParseNoMoreChunks
  PROVE  ReadInv(n)'
<1>1. /\ status = "CHUNK" /\ parsing /\ Size(buffer) = 0 /\ status' = "CHUNK"
      /\ UNCHANGED <<peerVars, buffer, method, headers, chunkVars, data>>
      /\ stream' = stream /\ delivered' = delivered /\ method' = method /\ chunk_size' = chunk_size
      /\ tempBody' = tempBody /\ chunked_status' = chunked_status
      /\ chunkBodyRead_size' = chunkBodyRead_size /\ buffer' = buffer
  BY DEF ParseNoMoreChunks, Return, peerVars, chunkVars
<1>2. method \in BodyMethods /\ method = stream[1].val
      /\ (~chunked_status => chunkBodyRead_size = 0)
  BY <1>1, PremisesGive DEF ReadInv
<1>3. CASE chunked_status
  <2>1. PICK p \in SizesOf(stream) :
          /\ chunk_size = stream[p + 1].val /\ chunkBodyRead_size <= chunk_size
          /\ chunkBodyRead_size \in Nat /\ chunk_size \in Nat
          /\ At(buffer, p + 3 + chunkBodyRead_size) /\ Kept(p + 3 + chunkBodyRead_size)
          /\ p + 3 + chunkBodyRead_size + Size(buffer) = delivered
          /\ p \in Nat /\ p + 5 + chunk_size <= Len(stream)
    BY <1>1, <1>3, InChunk
  <2>2. delivered < Len(stream)
    BY <1>1, <2>1, PremisesGive
  <2>3. PICK q : q = p + 3 + chunkBodyRead_size
    OBVIOUS
  <2>4. Stands(q)
    BY <2>1, <2>3 DEF Stands
  <2>5. Stands(q)'
    BY <1>1, <2>4, StandsStill
  <2>6. /\ p \in SizesOf(stream') /\ chunk_size' = stream'[p + 1].val
        /\ chunkBodyRead_size' <= chunk_size' /\ Stands(p + 3 + chunkBodyRead_size)'
    BY <1>1, <2>1, <2>3, <2>5
  <2> QED
    BY <1>1, <1>2, <1>3, <2>2, <2>6 DEF ReadInv
<1>4. CASE ~chunked_status
  <2>1. PICK p \in SizesOf(stream) : Stands(p)
    BY <1>1, <1>4, PremisesGive DEF ReadInv
  <2>2. p \in Nat /\ p + Size(buffer) = delivered /\ TextLineAt(stream, p, "size")
    BY <1>2, <2>1, AtBytes, ChunkPlaces, PremisesGive DEF Stands
  <2>3. p + 3 <= Len(stream)
    BY <2>2 DEF TextLineAt
  <2>4. delivered < Len(stream)
    BY <1>1, <2>2, <2>3, PremisesGive
  <2>5. Stands(p)' /\ p \in SizesOf(stream')
    BY <1>1, <2>1, StandsStill
  <2> QED
    BY <1>1, <1>2, <1>4, <2>4, <2>5 DEF ReadInv
<1> QED
  BY <1>3, <1>4

LEMMA ReadReceive ==
  ASSUME NEW n \in Nat, Premises(n), Receive
  PROVE  ReadInv(n)'
<1>1. /\ parsing' /\ ~Final /\ stream' = stream /\ tempBody' = tempBody
      /\ UNCHANGED <<status, method, headers, chunkVars, data>>
      /\ status' = status /\ method' = method /\ headers' = headers
      /\ chunk_size' = chunk_size /\ chunked_status' = chunked_status
      /\ chunkBodyRead_size' = chunkBodyRead_size
  BY DEF Receive, chunkVars
<1>2. ASSUME NEW p, Stands(p) PROVE Stands(p)'
  <2>1. p \in Nat /\ Size(buffer) \in Nat /\ p + Size(buffer) = delivered /\ buffer.rpos = 0
    BY <1>2, AtBytes DEF Stands
  <2>2. /\ buffer'.rpos = buffer.rpos /\ Size(buffer') \in Nat
        /\ delivered' - Size(buffer') = delivered - Size(buffer)
    BY FrontStays DEF Premises
  <2>3. TypeInv' /\ EndInv'
    BY ReceiveType, ReceiveEnd DEF Premises
  <2>4. Fit(buffer)'
    <3>1. stream' \in Streams /\ delivered' \in 0..Len(stream') /\ buffer' \in TextBuffer
      BY <2>3 DEF TypeInv, TypeOK, TextBuffer
    <3>2. stream' \in Seq(Text) /\ Len(stream') \in Nat /\ Len(stream') < Word
      BY <3>1, StreamsAreText, LenProperties DEF Premises, Ordinary
    <3>3. IsEnd(buffer, delivered)'
      BY <2>3 DEF EndInv
    <3>4. Size(buffer') <= delivered'
      BY <3>3 DEF IsEnd, Size
    <3>5. Size(buffer') < Word
      BY <2>2, <3>1, <3>2, <3>4, ByteBufferAssumption
    <3> QED
      BY <3>1, <3>3, <3>5 DEF Fit, Size
  <2>5. p + Size(buffer') = delivered'
    <3>1. delivered' \in Nat
      BY <2>3 DEF TypeInv, TypeOK
    <3> QED
      BY <2>1, <2>2, <3>1
  <2>6. At(buffer, p)'
    BY <2>1, <2>2, <2>4, <2>5 DEF At, Size
  <2>7. Kept(p)'
    BY <1>1, <1>2 DEF Stands, Kept, IsSelection, DataPlaces
  <2> QED
    BY <2>6, <2>7 DEF Stands
<1>3. ReadInv(n)
  BY PremisesGive
<1>4. status \in {"START_LINE", "HEADERS", "PREBODY", "CHUNK"}
  BY <1>1, <1>3 DEF ReadInv, Final
<1>5. CASE status = "START_LINE"
  BY <1>1, <1>2, <1>3, <1>5 DEF ReadInv
<1>6. CASE status = "HEADERS"
  <2>1. PICK k \in 1..(n + 1) :
          Stands(3 * k) /\ FirstCoding(HeaderVals(n), k - 1, headers.te)
    BY <1>3, <1>6 DEF ReadInv
  <2>2. PICK q : q = 3 * k
    OBVIOUS
  <2>3. Stands(q)'
    BY <1>2, <2>1, <2>2
  <2>4. Stands(3 * k)' /\ FirstCoding(HeaderVals(n), k - 1, headers.te)'
    BY <1>1, <2>1, <2>2, <2>3 DEF FirstCoding, HeaderVals
  <2> QED
    BY <1>1, <1>3, <1>6, <2>4 DEF ReadInv
<1>7. CASE status = "PREBODY"
  <2>1. Stands(3 * n + 5) /\ FirstCoding(HeaderVals(n), n, headers.te)
    BY <1>3, <1>7 DEF ReadInv
  <2>2. PICK q : q = 3 * n + 5
    OBVIOUS
  <2>3. Stands(q)'
    BY <1>2, <2>1, <2>2
  <2>4. Stands(3 * n + 5)' /\ FirstCoding(HeaderVals(n), n, headers.te)'
    BY <1>1, <2>1, <2>2, <2>3 DEF FirstCoding, HeaderVals
  <2> QED
    BY <1>1, <1>3, <1>7, <2>4 DEF ReadInv
<1>8. CASE status = "CHUNK"
  <2>1. PICK p \in SizesOf(stream) :
            IF chunked_status
              THEN /\ chunk_size = stream[p + 1].val /\ chunkBodyRead_size <= chunk_size
                   /\ Stands(p + 3 + chunkBodyRead_size)
              ELSE Stands(p)
    BY <1>3, <1>8 DEF ReadInv
  <2>2. PICK q : q = IF chunked_status THEN p + 3 + chunkBodyRead_size ELSE p
    OBVIOUS
  <2>3. Stands(q)'
    BY <1>2, <2>1, <2>2
  <2>4. /\ p \in SizesOf(stream')
        /\ IF chunked_status'
              THEN /\ chunk_size' = stream'[p + 1].val /\ chunkBodyRead_size' <= chunk_size'
                   /\ Stands(p + 3 + chunkBodyRead_size)'
              ELSE Stands(p)'
    BY <1>1, <2>1, <2>2, <2>3
  <2> QED
    BY <1>1, <1>3, <1>8, <2>4 DEF ReadInv
<1> QED
  BY <1>4, <1>5, <1>6, <1>7, <1>8

\* The invariant of a well-formed request.
WellReadInv == WellFormed(stream) => \E n \in 0..Len(stream) : LaidOut(stream, n) /\ ReadInv(n)

LEMMA WellReadInit == Ordinary /\ Init => WellReadInv
<1> SUFFICES ASSUME Ordinary, Init, WellFormed(stream) PROVE WellReadInv
  BY DEF WellReadInv
<1>1. PICK n \in 0..Len(stream) : LaidOut(stream, n)
  BY DEF WellFormed
<1>2. /\ buffer = Empty /\ delivered = 0 /\ tempBody = <<>> /\ status = "START_LINE"
      /\ ~chunked_status /\ chunkBodyRead_size = 0 /\ headers.te = Other
  BY DEF Init
<1>3. TypeInv /\ EndInv
  BY InitType, InitEnd
<1>4. Fit(buffer) /\ Size(buffer) = 0 /\ buffer.rpos = 0
  BY <1>2, <1>3, FitBuffer, EmptySeq DEF Empty, Size
<1>5. Stands(0)
  BY <1>2, <1>4, NothingKept DEF Stands, At
<1>6. delivered < Len(stream)
  <2>1. 0 + 3 <= Len(stream)
    BY <1>1 DEF LaidOut, HeadOf, TextLineAt
  <2>2. Len(stream) \in Nat
    BY <1>3, FitBuffer
  <2> QED
    BY <1>2, <2>1, <2>2
<1>7. ReadInv(n)
  BY <1>2, <1>5, <1>6 DEF ReadInv
<1> QED
  BY <1>1, <1>7 DEF WellReadInv

LEMMA StreamStays == [Next]_vars => stream' = stream
BY DEF Next, Receive, Parse, ParseStartLine, ParseHeaders, CheckChunked, ParseBodyContentLen,
       ParseChunkSize, ParseLastChunk, ParseChunkData, ParseNoMoreChunks, peerVars, vars

LEMMA ReadParse ==
  ASSUME NEW n \in Nat, Premises(n), Parse
  PROVE  ReadInv(n)'
<1>1. ~ParseBodyContentLen
  BY PremisesGive DEF ReadInv, ParseBodyContentLen
<1>2. CASE ParseStartLine
  BY <1>2, ReadStartLine
<1>3. CASE ParseHeaders
  BY <1>3, ReadHeaderLine
<1>4. CASE CheckChunked
  BY <1>4, ReadBodyKind
<1>5. CASE ParseChunkSize
  BY <1>5, ReadChunkSize
<1>6. CASE ParseLastChunk
  BY <1>6, ReadLastChunk
<1>7. CASE ParseChunkData
  BY <1>7, ReadChunkData
<1>8. CASE ParseNoMoreChunks
  BY <1>8, ReadNoMore
<1> QED
  BY <1>1, <1>2, <1>3, <1>4, <1>5, <1>6, <1>7, <1>8 DEF Parse

LEMMA ReadStutter ==
  ASSUME NEW n \in Nat, ReadInv(n), UNCHANGED vars
  PROVE  ReadInv(n)'
<1>1. /\ stream' = stream /\ delivered' = delivered /\ buffer' = buffer /\ tempBody' = tempBody
      /\ status' = status /\ method' = method /\ headers' = headers /\ data' = data
      /\ parsing' = parsing /\ chunk_size' = chunk_size /\ chunked_status' = chunked_status
      /\ chunkBodyRead_size' = chunkBodyRead_size
  BY DEF vars, peerVars, chunkVars
<1>2. ASSUME NEW p, Stands(p) PROVE Stands(p)'
  BY <1>1, <1>2 DEF Stands, Kept, IsSelection, DataPlaces, At, Fit, IsEnd, Size
<1>3. SizesOf(stream)' = SizesOf(stream)
  BY <1>1 DEF SizesOf
<1>4. ASSUME NEW k, FirstCoding(HeaderVals(n), k, headers.te)
      PROVE  FirstCoding(HeaderVals(n), k, headers.te)'
  BY <1>1, <1>4 DEF FirstCoding, HeaderVals
<1> QED
  BY <1>1, <1>2, <1>3, <1>4 DEF ReadInv

LEMMA WellReadStep == Ordinary /\ TypeInv /\ EndInv /\ WellReadInv /\ [Next]_vars => WellReadInv'
<1> SUFFICES ASSUME Ordinary, TypeInv, EndInv, WellReadInv, [Next]_vars, WellFormed(stream)'
             PROVE  \E n \in 0..Len(stream') : LaidOut(stream, n)' /\ ReadInv(n)'
  BY DEF WellReadInv
<1>1. stream' = stream
  BY StreamStays
<1>2. WellFormed(stream)
  <2>1. PICK n \in 0..Len(stream') : LaidOut(stream, n)'
    BY DEF WellFormed
  <2>2. LaidOut(stream', n)
    BY ZenonT(30), <2>1 DEF LaidOut, HeadOf, TextLineAt, EmptyLineAt, SizesOf, ChunkAt
  <2>3. LaidOut(stream, n)
    BY <1>1, <2>2
  <2> QED
    BY <1>1, <2>1, <2>3 DEF WellFormed
<1>3. PICK n \in 0..Len(stream) : LaidOut(stream, n) /\ ReadInv(n)
  BY <1>2 DEF WellReadInv
<1>4. n \in Nat /\ Premises(n)
  <2>1. Len(stream) \in Nat
    BY FitBuffer
  <2> QED
    BY <1>3, <2>1 DEF Premises
<1>5. ReadInv(n)'
  <2>1. CASE Receive
    BY <1>4, <2>1, ReadReceive
  <2>2. CASE Parse
    BY <1>4, <2>2, ReadParse
  <2>3. CASE UNCHANGED vars
    BY <1>3, <1>4, <2>3, ReadStutter
  <2> QED
    BY <2>1, <2>2, <2>3 DEF Next
<1>6. LaidOut(stream, n)'
  <2>1. LaidOut(stream', n)
    BY <1>1, <1>3
  <2> QED
    BY ZenonT(30), <2>1 DEF LaidOut, HeadOf, TextLineAt, EmptyLineAt, SizesOf, ChunkAt
<1> QED
  BY <1>1, <1>3, <1>5, <1>6

LEMMA WellReadHolds == Ordinary => (Spec => [](TypeInv /\ EndInv /\ WellReadInv))
<1>1. Ordinary /\ Init => TypeInv /\ EndInv /\ WellReadInv
  BY InitType, InitEnd, WellReadInit
<1>2. Ordinary /\ TypeInv /\ EndInv /\ WellReadInv /\ [Next]_vars
        => (TypeInv /\ EndInv /\ WellReadInv)'
  BY EndStep, WellReadStep
<1> SUFFICES ASSUME Ordinary PROVE Spec => [](TypeInv /\ EndInv /\ WellReadInv)
  OBVIOUS
<1>3. Init => TypeInv /\ EndInv /\ WellReadInv
  BY <1>1
<1>4. TypeInv /\ EndInv /\ WellReadInv /\ [Next]_vars => (TypeInv /\ EndInv /\ WellReadInv)'
  BY <1>2
<1> QED
  BY <1>3, <1>4, PTL DEF Spec

\* What the invariant says of a well-formed request.
LEMMA ReadToTheEnd ==
  ASSUME Ordinary, TypeInv, EndInv, WellReadInv, WellFormed(stream)
  PROVE  /\ status # "BAD_REQUEST"
         /\ ~parsing /\ delivered = Len(stream) => status = "COMPLETE"
         /\ status = "COMPLETE" =>
              /\ delivered = Len(stream) /\ Size(buffer) = 0
              /\ method \in BodyMethods => IsSelection(data, stream, DataPlaces(Len(stream)))
<1>1. PICK n \in 0..Len(stream) : LaidOut(stream, n) /\ ReadInv(n)
  BY DEF WellReadInv
<1>2. Len(stream) \in Nat /\ delivered \in Nat /\ delivered <= Len(stream) /\ Size(buffer) \in Nat
  BY FitBuffer
<1>3. status # "BAD_REQUEST"
  BY <1>1 DEF ReadInv
<1>4. ~parsing /\ delivered = Len(stream) => status = "COMPLETE"
  BY <1>1, <1>2 DEF ReadInv
<1>5. ASSUME status = "COMPLETE" PROVE delivered = Len(stream) /\ Size(buffer) = 0
  <2>1. Len(stream) + Size(buffer) = delivered
    BY <1>1, <1>5, AtBytes DEF ReadInv, Stands
  <2> QED
    BY <1>2, <2>1
<1>6. ASSUME status = "COMPLETE", method \in BodyMethods
      PROVE  IsSelection(data, stream, DataPlaces(Len(stream)))
  <2>1. Kept(Len(stream)) /\ data = tempBody
    BY <1>1, <1>6 DEF ReadInv, Stands
  <2> QED
    BY <2>1 DEF Kept
<1> QED
  BY <1>3, <1>4, <1>5, <1>6

LEMMA DataOnTheWay ==
  ASSUME Ordinary, TypeInv, EndInv, WellReadInv, WellFormed(stream)
  PROVE  ChunkDataKept
<1> SUFFICES ASSUME status = "CHUNK"
             PROVE  /\ IsSelection(tempBody, stream, DataPlaces(delivered - Size(buffer)))
                    /\ chunkBodyRead_size
                         \in 0..(IF chunked_status /\ chunk_size > 0 THEN chunk_size ELSE 0)
  BY DEF ChunkDataKept
<1>1. PICK n \in 0..Len(stream) : LaidOut(stream, n) /\ ReadInv(n)
  BY DEF WellReadInv
<1>2. n \in Nat /\ Premises(n)
  <2>1. Len(stream) \in Nat
    BY FitBuffer
  <2> QED
    BY <1>1, <2>1 DEF Premises
<1>3. ASSUME NEW q, Stands(q)
      PROVE  IsSelection(tempBody, stream, DataPlaces(delivered - Size(buffer)))
  <2>1. q \in Nat /\ Size(buffer) \in Nat /\ q + Size(buffer) = delivered
    BY <1>3, AtBytes DEF Stands
  <2>2. delivered - Size(buffer) = q
    BY <2>1
  <2> QED
    BY <1>3, <2>2 DEF Stands, Kept
<1>4. CASE chunked_status
  <2>1. PICK p \in SizesOf(stream) :
          /\ chunkBodyRead_size <= chunk_size /\ chunkBodyRead_size \in Nat /\ chunk_size \in Nat
          /\ Stands(p + 3 + chunkBodyRead_size)
    BY <1>2, <1>4, InChunk DEF Stands
  <2>2. chunkBodyRead_size \in 0..(IF chunk_size > 0 THEN chunk_size ELSE 0)
    BY <2>1
  <2> QED
    BY <1>3, <1>4, <2>1, <2>2
<1>5. CASE ~chunked_status
  <2>1. chunkBodyRead_size = 0 /\ \E p \in SizesOf(stream) : Stands(p)
    BY <1>1, <1>5 DEF ReadInv
  <2> QED
    BY <1>3, <1>5, <2>1
<1> QED
  BY <1>4, <1>5

\* Whatever a well-formed request is cut into, parse() does not reject it, calls
\* it complete with its last byte and no sooner, and hands over the data of all
\* its chunks in order: for any number of headers and chunks of any size.
THEOREM WellFormedRequestsAreRead ==
  ASSUME Ordinary
  PROVE  Spec => []WellFormedIsRead
<1>1. TypeInv /\ EndInv /\ WellReadInv => WellFormedIsRead
  BY ReadToTheEnd DEF WellFormedIsRead
<1> QED
  BY <1>1, WellReadHolds, PTL

\* While the chunks of a well-formed request are read, tempBody is at every step
\* the data of just what has been parsed, and chunkBodyRead_size counts within
\* its chunk.
THEOREM WellFormedDataKept ==
  ASSUME Ordinary
  PROVE  Spec => [](WellFormed(stream) => ChunkDataKept)
<1>1. TypeInv /\ EndInv /\ WellReadInv => (WellFormed(stream) => ChunkDataKept)
  BY DataOnTheWay
<1> QED
  BY <1>1, WellReadHolds, PTL

\* Of a well-formed request nothing is left to be read as the beginning of the
\* next one: it is complete only when all of it was received and parsed.
THEOREM WellFormedEndsAtEnd ==
  ASSUME Ordinary
  PROVE  Spec => [](WellFormed(stream) => CompleteOnlyAtEnd)
<1>1. TypeInv /\ EndInv /\ WellReadInv => (WellFormed(stream) => CompleteOnlyAtEnd)
  BY ReadToTheEnd DEF CompleteOnlyAtEnd
<1> QED
  BY <1>1, WellReadHolds, PTL

----------------------------------------------------------------------------
(* Requests as RequestGrammar renders them.                                *)

\* t has u behind its first p members; and ends with it.
Stretch(t, p, u) == p + Len(u) <= Len(t) /\ \A j \in 1..Len(u) : t[p + j] = u[j]

EndsWith(t, p, u) == Stretch(t, p, u) /\ Len(t) = p + Len(u)

LEMMA StretchSplits ==
  ASSUME NEW X, NEW t, NEW p \in Nat, NEW u \in Seq(X), NEW v \in Seq(X), Len(t) \in Nat
  PROVE  /\ Len(u) \in Nat /\ Len(v) \in Nat /\ p + Len(u) \in Nat
         /\ Len(u \o v) = Len(u) + Len(v)
         /\ Stretch(t, p, u \o v) => Stretch(t, p, u) /\ Stretch(t, p + Len(u), v)
         /\ EndsWith(t, p, u \o v) => Stretch(t, p, u) /\ EndsWith(t, p + Len(u), v)
<1>1. /\ u \o v \in Seq(X) /\ Len(u) \in Nat /\ Len(v) \in Nat /\ Len(u \o v) = Len(u) + Len(v)
      /\ \A j \in 1..Len(u) : (u \o v)[j] = u[j]
      /\ \A j \in 1..Len(v) : (u \o v)[Len(u) + j] = v[j]
  BY TwoJoined
<1>2. PICK a \in Nat, b \in Nat : a = Len(u) /\ b = Len(v)
  BY <1>1
<1>3. ASSUME Stretch(t, p, u \o v) PROVE Stretch(t, p, u) /\ Stretch(t, p + a, v)
  <2>1. p + (a + b) <= Len(t) /\ \A j \in 1..(a + b) : t[p + j] = (u \o v)[j]
    BY <1>1, <1>2, <1>3 DEF Stretch
  <2>2. p + a <= Len(t) /\ (p + a) + b <= Len(t)
    BY <2>1
  <2>3. \A j \in 1..a : j \in 1..(a + b)
    OBVIOUS
  <2>4. \A j \in 1..b : a + j \in 1..(a + b) /\ (p + a) + j = p + (a + j)
    OBVIOUS
  <2>5. \A j \in 1..a : t[p + j] = u[j]
    BY <1>1, <1>2, <2>1, <2>3
  <2>6. \A j \in 1..b : t[(p + a) + j] = v[j]
    BY SMTT(30), <1>1, <1>2, <2>1, <2>4
  <2> QED
    BY <1>2, <2>2, <2>5, <2>6 DEF Stretch
<1>4. ASSUME EndsWith(t, p, u \o v) PROVE Len(t) = (p + a) + b
  <2>1. Len(t) = p + (a + b)
    BY <1>1, <1>2, <1>4 DEF EndsWith
  <2> QED
    BY <2>1
<1> QED
  BY <1>1, <1>2, <1>3, <1>4 DEF EndsWith

LEMMA TextLineIs ==
  ASSUME NEW kind \in Kinds, NEW val \in Int
  PROVE  /\ TextLine(kind, val) \in Seq(Symbol) /\ Len(TextLine(kind, val)) = 3
         /\ <<CR, LF>> \in Seq(Symbol) /\ Len(<<CR, LF>>) = 2
         /\ \A t, p : Stretch(t, p, TextLine(kind, val)) =>
              TextLineAt(t, p, kind) /\ t[p + 1].val = val
         /\ \A t, p : Stretch(t, p, <<CR, LF>>) => EmptyLineAt(t, p)
<1>1. CR \in Symbol /\ LF \in Symbol /\ [kind |-> kind, val |-> val] \in Symbol
  BY TextIsSymbol DEF Symbol
<1>2. PICK x \in Symbol : x = [kind |-> kind, val |-> val]
  BY <1>1
<1>3. TextLine(kind, val) = <<x, CR, LF>>
  BY <1>2 DEF TextLine
<1>4. <<x, CR, LF>> \in Seq(Symbol) /\ <<CR, LF>> \in Seq(Symbol)
  BY <1>1, ShortSeqs
<1>5. /\ Len(<<x, CR, LF>>) = 3 /\ Len(<<CR, LF>>) = 2
      /\ <<x, CR, LF>>[1] = x /\ <<x, CR, LF>>[2] = CR /\ <<x, CR, LF>>[3] = LF
      /\ <<CR, LF>>[1] = CR /\ <<CR, LF>>[2] = LF
  OBVIOUS
<1>6. x.kind = kind /\ x.val = val
  BY <1>2
<1>7. ASSUME NEW t, NEW p, Stretch(t, p, <<x, CR, LF>>)
      PROVE  TextLineAt(t, p, kind) /\ t[p + 1].val = val
  <2>1. p + 3 <= Len(t) /\ t[p + 1] = x /\ t[p + 2] = CR /\ t[p + 3] = LF
    BY <1>5, <1>7 DEF Stretch
  <2> QED
    BY <1>6, <2>1 DEF TextLineAt
<1>8. ASSUME NEW t, NEW p, Stretch(t, p, <<CR, LF>>)
      PROVE  EmptyLineAt(t, p)
  BY <1>5, <1>8 DEF Stretch, EmptyLineAt
<1> QED
  BY <1>3, <1>4, <1>5, <1>7, <1>8

LEMMA EndOfLineIs ==
  /\ <<CR, LF>> \in Seq(Symbol) /\ Len(<<CR, LF>>) = 2
  /\ \A t, p : Stretch(t, p, <<CR, LF>>) => EmptyLineAt(t, p)
<1>1. "start" \in Kinds /\ 0 \in Int
  BY DEF Kinds
<1> QED
  BY <1>1, TextLineIs

\* How many bytes of data a chunk has.
Room(size) == IF size > 0 THEN size ELSE 0

LEMMA BytesAre ==
  ASSUME NEW from \in Int, NEW n \in Int
  PROVE  /\ Bytes(from, n) \in Seq(Symbol) /\ Len(Bytes(from, n)) = Room(n) /\ Room(n) \in Nat
         /\ \A i \in 1..n : Bytes(from, n)[i] = [kind |-> "data", val |-> from + i - 1]
<1>1. \A i \in 1..n : [kind |-> "data", val |-> from + i - 1] \in Symbol
  BY DEF Symbol, Kinds
<1>2. Room(n) \in Nat /\ 1..n = 1..Room(n)
  BY DEF Room
<1>3. Bytes(from, n) \in [1..Room(n) -> Symbol]
  BY <1>1, <1>2 DEF Bytes
<1> QED
  BY <1>2, <1>3, FcnIsSeq DEF Bytes

\* The numbers of the first bytes, as far as chunk n + 1.
Firsts(l, n, g) == g = [c \in 1..(n + 1) |-> IF c = 1 THEN 1 ELSE g[c - 1] + l[c - 1]]

LEMMA FirstsExist ==
  ASSUME NEW l, NEW n \in Nat
  PROVE  \E g : Firsts(l, n, g)
<1> DEFINE S == {m \in Nat : \E g : Firsts(l, m, g)}
<1>1. 0 \in S
  <2>1. Firsts(l, 0, [c \in 1..1 |-> 1])
    BY DEF Firsts
  <2> QED
    BY <2>1
<1>2. ASSUME NEW m \in Nat, m \in S PROVE m + 1 \in S
  <2>1. PICK g : Firsts(l, m, g)
    BY <1>2
  <2> DEFINE h == [c \in 1..(m + 2) |-> IF c = 1 THEN 1 ELSE g[c - 1] + l[c - 1]]
  <2>2. \A c \in 1..(m + 1) : h[c] = g[c]
    <3>1. \A c \in 1..(m + 1) : c \in 1..(m + 2)
      OBVIOUS
    <3>2. \A c \in 1..(m + 1) : g[c] = IF c = 1 THEN 1 ELSE g[c - 1] + l[c - 1]
      BY <2>1, Zenon DEF Firsts
    <3> QED
      BY <3>1, <3>2
  <2>3. \A c \in 1..(m + 2) : c # 1 => c - 1 \in 1..(m + 1)
    OBVIOUS
  <2>4. h = [c \in 1..(m + 2) |-> IF c = 1 THEN 1 ELSE h[c - 1] + l[c - 1]]
    BY <2>2, <2>3
  <2> HIDE DEF h
  <2>5. (m + 1) + 1 = m + 2
    OBVIOUS
  <2>6. Firsts(l, m + 1, h)
    BY <2>4, <2>5 DEF Firsts
  <2> QED
    BY <2>6
<1> HIDE DEF S
<1>3. n \in S
  BY <1>1, <1>2, Reaches
<1> QED
  BY <1>3 DEF S

LEMMA FirstBytesAre ==
  ASSUME NEW l \in Seq(Int)
  PROVE  /\ FirstBytes(l)[1] = 1
         /\ \A c \in 1..(Len(l) + 1) : FirstBytes(l)[c] \in Int
         /\ \A c \in 1..Len(l) : FirstBytes(l)[c + 1] = FirstBytes(l)[c] + l[c]
<1>1. Len(l) \in Nat /\ \A c \in 1..Len(l) : l[c] \in Int
  BY LenProperties, ElementOfSeq
<1>2. PICK n \in Nat : n = Len(l)
  BY <1>1
<1> DEFINE g == CHOOSE g : Firsts(l, Len(l), g)
<1>3. Firsts(l, Len(l), g)
  BY <1>1, FirstsExist
<1>4. FirstBytes(l) = g
  BY Zenon DEF FirstBytes, Firsts
<1> HIDE DEF g
<1>5. \A c \in 1..(n + 1) : g[c] = IF c = 1 THEN 1 ELSE g[c - 1] + l[c - 1]
  BY <1>2, <1>3, Zenon DEF Firsts
<1>6. g[1] = 1
  <2>1. 1 \in 1..(n + 1)
    OBVIOUS
  <2> QED
    BY <1>5, <2>1
<1>7. \A c \in 1..n : g[c + 1] = g[c] + l[c]
  <2>1. \A c \in 1..n : c + 1 \in 1..(n + 1) /\ c + 1 # 1 /\ (c + 1) - 1 = c
    OBVIOUS
  <2> QED
    BY <1>5, <2>1
<1> DEFINE S == {m \in Nat : m \in 0..n => g[m + 1] \in Int}
<1>8. 0 \in S
  BY <1>6
<1>9. ASSUME NEW m \in Nat, m \in S PROVE m + 1 \in S
  <2> SUFFICES ASSUME m + 1 \in 0..n PROVE g[(m + 1) + 1] \in Int
    OBVIOUS
  <2>1. m \in 0..n /\ m + 1 \in 1..n
    OBVIOUS
  <2>2. g[m + 1] \in Int /\ l[m + 1] \in Int
    BY <1>1, <1>2, <1>9, <2>1
  <2> QED
    BY <1>7, <2>1, <2>2
<1> HIDE DEF S
<1>10. \A c \in 1..(n + 1) : g[c] \in Int
  <2>1. Nat \subseteq S
    BY <1>8, <1>9, Reaches
  <2>2. \A c \in 1..(n + 1) : c - 1 \in Nat /\ c - 1 \in 0..n /\ (c - 1) + 1 = c
    OBVIOUS
  <2> QED
    BY <2>1, <2>2 DEF S
<1> QED
  BY <1>2, <1>4, <1>6, <1>7, <1>10

\* The members of e stand in t behind the places o, and p of t is the first.
LEMMA PiecesStretch ==
  ASSUME NEW X, NEW e \in Seq(Seq(X)), NEW t, NEW p \in Nat, Len(t) \in Nat,
         Stretch(t, p, FlattenSeq(e))
  PROVE  \E o \in [1..(Len(e) + 1) -> Nat] :
           /\ o[1] = p /\ o[Len(e) + 1] = p + Len(FlattenSeq(e))
           /\ \A k \in 1..Len(e) : o[k + 1] = o[k] + Len(e[k]) /\ Stretch(t, o[k], e[k])
<1>1. PICK w : w = FlattenSeq(e) /\ w \in Seq(X) /\ Stretch(t, p, w)
  BY FlattenPlaces
<1>2. PICK q : PlacesIn(e, w, q)
  BY <1>1, FlattenPlaces
<1>3. PICK n \in Nat : n = Len(e)
  BY LenProperties
<1>4. \A k \in 1..n : Len(e[k]) \in Nat
  BY <1>3, ElementOfSeq, LenProperties
<1>5. /\ q \in [1..(n + 1) -> Nat] /\ q[1] = 0 /\ Len(w) = q[n + 1]
      /\ \A k \in 1..n : q[k + 1] = q[k] + Len(e[k]) /\ \A j \in 1..Len(e[k]) : w[q[k] + j] = e[k][j]
  BY <1>2, <1>3 DEF PlacesIn
<1> DEFINE o == [k \in 1..(n + 1) |-> p + q[k]]
<1>6. /\ o \in [1..(n + 1) -> Nat] /\ o[1] = p /\ o[n + 1] = p + Len(w)
      /\ \A k \in 1..n : o[k] = p + q[k] /\ o[k + 1] = p + q[k + 1] /\ q[k] \in Nat /\ q[k + 1] \in Nat
  <2>1. 1 \in 1..(n + 1) /\ n + 1 \in 1..(n + 1) /\ \A k \in 1..n : k \in 1..(n + 1) /\ k + 1 \in 1..(n + 1)
    OBVIOUS
  <2> QED
    BY <1>5, <2>1
<1> HIDE DEF o
<1>7. ASSUME NEW k \in 1..n PROVE q[k + 1] <= Len(w)
  <2> DEFINE S == {m \in Nat : k + m <= n => q[k + 1] <= q[k + m + 1]}
  <2>1. 0 \in S
    <3>1. q[k + 1] <= q[k + 0 + 1]
      <4>1. k + 0 + 1 = k + 1
        OBVIOUS
      <4>2. PICK x \in Nat : x = q[k + 1]
        BY <1>6
      <4>3. x <= x
        OBVIOUS
      <4> QED
        BY <4>1, <4>2, <4>3
    <3> QED
      BY <3>1
  <2>2. ASSUME NEW m \in Nat, m \in S PROVE m + 1 \in S
    <3> SUFFICES ASSUME k + (m + 1) <= n PROVE q[k + 1] <= q[k + (m + 1) + 1]
      OBVIOUS
    <3>1. k + m + 1 \in 1..n /\ k + m <= n /\ k + (m + 1) + 1 = (k + m + 1) + 1
      OBVIOUS
    <3>2. q[k + 1] <= q[k + m + 1]
      BY <2>2, <3>1
    <3>3. q[(k + m + 1) + 1] = q[k + m + 1] + Len(e[k + m + 1])
      BY <1>5, <3>1
    <3>4. q[k + m + 1] \in Nat /\ q[k + 1] \in Nat /\ Len(e[k + m + 1]) \in Nat
      BY <1>4, <1>6, <3>1
    <3> QED
      BY <3>1, <3>2, <3>3, <3>4
  <2> HIDE DEF S
  <2>3. n - k \in S
    <3>1. n - k \in Nat
      OBVIOUS
    <3> QED
      BY <2>1, <2>2, <3>1, Reaches
  <2>4. q[k + 1] <= q[k + (n - k) + 1] /\ k + (n - k) + 1 = n + 1
    BY <2>3 DEF S
  <2> QED
    BY <1>5, <2>4
<1>8. ASSUME NEW k \in 1..n
      PROVE  o[k + 1] = o[k] + Len(e[k]) /\ Stretch(t, o[k], e[k])
  <2>1. PICK a \in Nat, b \in Nat, c \in Nat : a = q[k] /\ b = Len(e[k]) /\ c = Len(w)
    BY <1>1, <1>4, <1>6, LenProperties
  <2>2. q[k + 1] = a + b /\ a + b <= c
    BY <1>5, <1>7, <2>1
  <2>3. o[k] = p + a /\ o[k + 1] = (p + a) + b
    <3>1. o[k] = p + a /\ o[k + 1] = p + (a + b)
      BY <1>6, <2>1, <2>2
    <3> QED
      BY <3>1
  <2>4. p + c <= Len(t) /\ \A j \in 1..c : t[p + j] = w[j]
    BY <1>1, <2>1 DEF Stretch
  <2>5. (p + a) + b <= Len(t)
    BY <2>2, <2>4
  <2>6. \A j \in 1..b : a + j \in 1..c /\ (p + a) + j = p + (a + j)
    BY <2>2
  <2>7. \A j \in 1..b : w[a + j] = e[k][j]
    BY <1>5, <2>1
  <2>8. \A j \in 1..b : t[(p + a) + j] = e[k][j]
    BY <2>4, <2>6, <2>7
  <2> QED
    BY <2>1, <2>3, <2>5, <2>8 DEF Stretch
<1> QED
  BY <1>1, <1>3, <1>6, <1>8

\* How many symbols the empty line before a line takes.
Skip(m, line) == IF m.blank = line THEN 2 ELSE 0

\* Behind how many symbols the body stands.
BodyAt(m) == Skip(m, "start") + 3 * Len(m.headers) + 5

HeadLaid(m, s) ==
  /\ m.blank = "start" => EmptyLineAt(s, 0)
  /\ TextLineAt(s, Skip(m, "start"), "start") /\ s[Skip(m, "start") + 1].val = m.start
  /\ \A k \in 1..Len(m.headers) :
       /\ TextLineAt(s, Skip(m, "start") + 3 * k, "header")
       /\ s[Skip(m, "start") + 3 * k + 1].val = m.headers[k]
  /\ EmptyLineAt(s, Skip(m, "start") + 3 * Len(m.headers) + 3)

\* Chunk c stands behind p, its bytes are numbered from first, behind it is q.
ChunkLaid(s, p, size, first, q) ==
  /\ TextLineAt(s, p, "size") /\ s[p + 1].val = size
  /\ \A i \in 1..size : s[p + 3 + i] = [kind |-> "data", val |-> first + i - 1]
  /\ EmptyLineAt(s, p + 3 + Room(size))
  /\ q = p + 5 + Room(size)

LastLaid(m, s, p) ==
  /\ m.blank = "size" => EmptyLineAt(s, p)
  /\ TextLineAt(s, p + Skip(m, "size"), "size") /\ s[p + Skip(m, "size") + 1].val = 0
  /\ IF m.trailer
       THEN TextLineAt(s, p + Skip(m, "size") + 3, "header") /\ Len(s) = p + Skip(m, "size") + 8
       ELSE EmptyLineAt(s, p + Skip(m, "size") + 3)

\* The chunks of m stand in s behind the places o.
BodyLaid(m, s, o) ==
  /\ o \in [1..(Len(m.chunks) + 1) -> Nat] /\ o[1] = BodyAt(m)
  /\ \A c \in 1..Len(m.chunks) :
       ChunkLaid(s, o[c], m.chunks[c], FirstBytes(m.chunks)[c], o[c + 1])
  /\ LastLaid(m, s, o[Len(m.chunks) + 1])

Laid(m, s, o) == HeadLaid(m, s) /\ (IsChunked(m) => BodyLaid(m, s, o))

HeaderLines(h) == FlattenSeq([i \in 1..Len(h) |-> TextLine("header", h[i])])

\* t has header lines with the values h behind its first p symbols.
HeadersLaid(t, p, h) ==
  \A k \in 1..Len(h) : /\ TextLineAt(t, p + 3 * (k - 1), "header")
                       /\ t[p + 3 * (k - 1) + 1].val = h[k]

LEMMA HeaderLinesStretch ==
  ASSUME NEW h \in Seq(Int), NEW t, NEW p \in Nat, Len(t) \in Nat
  PROVE  /\ HeaderLines(h) \in Seq(Symbol)
         /\ Stretch(t, p, HeaderLines(h)) =>
              Len(HeaderLines(h)) = 3 * Len(h) /\ HeadersLaid(t, p, h)
<1>n. PICK n \in Nat : n = Len(h)
  BY LenProperties
<1>w. PICK w : w = HeaderLines(h)
  OBVIOUS
<1> DEFINE e == [i \in 1..Len(h) |-> TextLine("header", h[i])]
<1>1. \A k \in 1..n : h[k] \in Int
  BY <1>n, ElementOfSeq
<1>2. \A k \in 1..n : TextLine("header", h[k]) \in Seq(Symbol) /\ Len(TextLine("header", h[k])) = 3
  <2>1. "header" \in Kinds
    BY DEF Kinds
  <2> QED
    BY <1>1, <2>1, TextLineIs
<1>3. e \in [1..n -> Seq(Symbol)] /\ \A k \in 1..n : e[k] = TextLine("header", h[k])
  BY <1>2, <1>n
<1>f. w = FlattenSeq(e)
  BY <1>w DEF HeaderLines
<1> HIDE DEF e
<1>4. e \in Seq(Seq(Symbol)) /\ Len(e) = n
  BY <1>3, FcnIsSeq
<1>5. w \in Seq(Symbol)
  BY <1>4, <1>f, FlattenPlaces
<1>6. ASSUME Stretch(t, p, w)
      PROVE  /\ Len(w) = 3 * n
             /\ \A k \in 1..n : /\ TextLineAt(t, p + 3 * (k - 1), "header")
                                /\ t[p + 3 * (k - 1) + 1].val = h[k]
  <2>1. PICK o \in [1..(Len(e) + 1) -> Nat] :
           /\ o[1] = p /\ o[Len(e) + 1] = p + Len(FlattenSeq(e))
           /\ \A k \in 1..Len(e) : o[k + 1] = o[k] + Len(e[k]) /\ Stretch(t, o[k], e[k])
    <3>1. Stretch(t, p, FlattenSeq(e))
      BY <1>6, <1>f
    <3> QED
      BY <1>4, <3>1, PiecesStretch
  <2>2. /\ o[1] = p /\ o[n + 1] = p + Len(w)
        /\ \A k \in 1..n : o[k + 1] = o[k] + 3 /\ Stretch(t, o[k], TextLine("header", h[k]))
    BY <1>2, <1>3, <1>4, <1>f, <2>1
  <2> DEFINE S == {k \in Nat : k <= n => o[k + 1] = p + 3 * k}
  <2>3. 0 \in S
    <3>1. p + 3 * 0 = p
      OBVIOUS
    <3> QED
      BY <2>2, <3>1
  <2>4. ASSUME NEW k \in Nat, k \in S PROVE k + 1 \in S
    <3> SUFFICES ASSUME k + 1 <= n PROVE o[(k + 1) + 1] = p + 3 * (k + 1)
      OBVIOUS
    <3>1. k + 1 \in 1..n /\ k <= n
      OBVIOUS
    <3>2. o[(k + 1) + 1] = o[k + 1] + 3
      BY <2>2, <3>1
    <3>3. o[k + 1] = p + 3 * k
      BY <2>4, <3>1
    <3>4. (p + 3 * k) + 3 = p + 3 * (k + 1)
      OBVIOUS
    <3> QED
      BY <3>2, <3>3, <3>4
  <2> HIDE DEF S
  <2>5. Nat \subseteq S
    BY <2>3, <2>4, Reaches
  <2>6. \A k \in 1..n : k - 1 \in Nat /\ k - 1 <= n /\ (k - 1) + 1 = k
    OBVIOUS
  <2>7. \A k \in 1..n : o[k] = p + 3 * (k - 1)
    BY <2>5, <2>6 DEF S
  <2>8. o[n + 1] = p + 3 * n
    BY <2>5 DEF S
  <2>9. Len(w) = 3 * n
    BY <1>5, <2>2, <2>8, LenProperties
  <2>10. ASSUME NEW k \in 1..n
         PROVE  /\ TextLineAt(t, p + 3 * (k - 1), "header")
                /\ t[p + 3 * (k - 1) + 1].val = h[k]
    <3>1. Stretch(t, p + 3 * (k - 1), TextLine("header", h[k]))
      BY <2>2, <2>7
    <3>2. "header" \in Kinds /\ h[k] \in Int
      BY <1>1 DEF Kinds
    <3> QED
      BY <3>1, <3>2, TextLineIs
  <2> QED
    BY <2>9, <2>10
<1> QED
  BY <1>5, <1>6, <1>n, <1>w DEF HeadersLaid

LEMMA ChunkStretch ==
  ASSUME NEW size \in Int, NEW first \in Int, NEW t, NEW p \in Nat, Len(t) \in Nat
  PROVE  LET chunk == TextLine("size", size) \o Bytes(first, size) \o <<CR, LF>> IN
         /\ chunk \in Seq(Symbol)
         /\ Stretch(t, p, chunk) => ChunkLaid(t, p, size, first, p + Len(chunk))
<1>1. /\ TextLine("size", size) \in Seq(Symbol) /\ Len(TextLine("size", size)) = 3
      /\ <<CR, LF>> \in Seq(Symbol) /\ Len(<<CR, LF>>) = 2
  BY TextLineIs DEF Kinds
<1>2. /\ Bytes(first, size) \in Seq(Symbol) /\ Len(Bytes(first, size)) = Room(size) /\ Room(size) \in Nat
      /\ \A i \in 1..size : Bytes(first, size)[i] = [kind |-> "data", val |-> first + i - 1]
  BY BytesAre
<1>3. PICK a \in Seq(Symbol) : a = TextLine("size", size) /\ Len(a) = 3
  BY <1>1
<1>4. PICK b \in Seq(Symbol) : b = Bytes(first, size) /\ Len(b) = Room(size)
  BY <1>2
<1>5. PICK c \in Seq(Symbol) : c = <<CR, LF>> /\ Len(c) = 2
  BY <1>1
<1>6. /\ a \o b \in Seq(Symbol) /\ Len(a \o b) = 3 + Room(size)
      /\ Stretch(t, p, a \o b) => Stretch(t, p, a) /\ Stretch(t, p + 3, b)
  <2>0. a \o b \in Seq(Symbol)
    BY TwoJoined
  <2>1. /\ Len(a \o b) = Len(a) + Len(b)
        /\ Stretch(t, p, a \o b) => Stretch(t, p, a) /\ Stretch(t, p + Len(a), b)
    BY StretchSplits
  <2> QED
    BY <1>3, <1>4, <2>0, <2>1
<1>7. /\ (a \o b) \o c \in Seq(Symbol) /\ Len((a \o b) \o c) = (3 + Room(size)) + 2
      /\ Stretch(t, p, (a \o b) \o c) => Stretch(t, p, a \o b) /\ Stretch(t, p + (3 + Room(size)), c)
  <2>1. PICK ab \in Seq(Symbol) : ab = a \o b
    BY <1>6
  <2>0. ab \o c \in Seq(Symbol)
    BY TwoJoined
  <2>2. /\ Len(ab \o c) = Len(ab) + Len(c)
        /\ Stretch(t, p, ab \o c) => Stretch(t, p, ab) /\ Stretch(t, p + Len(ab), c)
    BY StretchSplits
  <2> QED
    BY <1>5, <1>6, <2>0, <2>1, <2>2
<1>8. ASSUME Stretch(t, p, (a \o b) \o c)
      PROVE  ChunkLaid(t, p, size, first, p + Len((a \o b) \o c))
  <2>1. Stretch(t, p, a) /\ Stretch(t, p + 3, b) /\ Stretch(t, p + 3 + Room(size), c)
    <3>1. p + (3 + Room(size)) = p + 3 + Room(size)
      BY <1>2
    <3> QED
      BY <1>6, <1>7, <1>8, <3>1
  <2>2. TextLineAt(t, p, "size") /\ t[p + 1].val = size
    BY <1>3, <2>1, TextLineIs DEF Kinds
  <2>3. EmptyLineAt(t, p + 3 + Room(size))
    BY <1>5, <2>1, TextLineIs DEF Kinds
  <2>4. \A i \in 1..size : t[p + 3 + i] = [kind |-> "data", val |-> first + i - 1]
    <3>1. \A i \in 1..size : i \in 1..Room(size)
      BY DEF Room
    <3>2. \A i \in 1..Room(size) : t[p + 3 + i] = b[i]
      BY <1>2, <1>4, <2>1 DEF Stretch
    <3> QED
      BY <1>2, <1>4, <3>1, <3>2
  <2>5. p + Len((a \o b) \o c) = p + 5 + Room(size)
    <3>1. p + ((3 + Room(size)) + 2) = p + 5 + Room(size)
      BY <1>2
    <3> QED
      BY <1>7, <3>1
  <2> QED
    BY <2>2, <2>3, <2>4, <2>5 DEF ChunkLaid
<1> QED
  BY <1>3, <1>4, <1>5, <1>7, <1>8

\* The chunks of lengths l stand in t behind the places o, the first behind p.
ChunksLaid(t, p, l, o) ==
  /\ o \in [1..(Len(l) + 1) -> Nat]
  /\ o[1] = p /\ o[Len(l) + 1] = p + Len(RenderChunks(l))
  /\ \A c \in 1..Len(l) : ChunkLaid(t, o[c], l[c], FirstBytes(l)[c], o[c + 1])

LEMMA ChunksStretch ==
  ASSUME NEW l \in Seq(Int), NEW t, NEW p \in Nat, Len(t) \in Nat
  PROVE  /\ RenderChunks(l) \in Seq(Symbol)
         /\ Stretch(t, p, RenderChunks(l)) => \E o : ChunksLaid(t, p, l, o)
<1> DEFINE Chunk(c) == TextLine("size", l[c]) \o Bytes(FirstBytes(l)[c], l[c]) \o <<CR, LF>>
           e == [c \in 1..Len(l) |-> Chunk(c)]
<1>1. PICK n \in Nat : n = Len(l)
  BY LenProperties
<1>2. \A c \in 1..n : l[c] \in Int /\ FirstBytes(l)[c] \in Int
  <2>1. \A c \in 1..n : c \in 1..(n + 1)
    OBVIOUS
  <2> QED
    BY <1>1, <2>1, ElementOfSeq, FirstBytesAre
<1>3. \A c \in 1..n : Chunk(c) \in Seq(Symbol)
  BY <1>2, ChunkStretch
<1>4. e \in [1..n -> Seq(Symbol)] /\ \A c \in 1..n : e[c] = Chunk(c)
  BY <1>1, <1>3
<1>5. e \in Seq(Seq(Symbol)) /\ Len(e) = n
  BY <1>4, FcnIsSeq
<1>6. RenderChunks(l) = FlattenSeq(e)
  BY DEF RenderChunks
<1> HIDE DEF e
<1>7. RenderChunks(l) \in Seq(Symbol)
  BY <1>5, <1>6, FlattenPlaces
<1>8. ASSUME Stretch(t, p, RenderChunks(l))
      PROVE  \E o : ChunksLaid(t, p, l, o)
  <2>1. PICK o \in [1..(n + 1) -> Nat] :
           /\ o[1] = p /\ o[n + 1] = p + Len(RenderChunks(l))
           /\ \A c \in 1..n : o[c + 1] = o[c] + Len(e[c]) /\ Stretch(t, o[c], e[c])
    <3>1. Stretch(t, p, FlattenSeq(e))
      BY <1>6, <1>8
    <3>2. \E o \in [1..(Len(e) + 1) -> Nat] :
             /\ o[1] = p /\ o[Len(e) + 1] = p + Len(FlattenSeq(e))
             /\ \A c \in 1..Len(e) : o[c + 1] = o[c] + Len(e[c]) /\ Stretch(t, o[c], e[c])
      BY ZenonT(40), <1>5, <3>1, PiecesStretch
    <3> QED
      BY <1>5, <1>6, <3>2
  <2>2. ASSUME NEW c \in 1..n
        PROVE  ChunkLaid(t, o[c], l[c], FirstBytes(l)[c], o[c + 1])
    <3>1. o[c] \in Nat /\ o[c + 1] = o[c] + Len(Chunk(c)) /\ Stretch(t, o[c], Chunk(c))
      <4>1. c \in 1..(n + 1)
        OBVIOUS
      <4> QED
        BY <1>4, <2>1, <4>1
    <3> QED
      BY <1>2, <3>1, ChunkStretch
  <2>3. ChunksLaid(t, p, l, o)
    BY <1>1, <2>1, <2>2 DEF ChunksLaid
  <2> QED
    BY <2>3
<1> QED
  BY <1>7, <1>8

LEMMA FivePieces ==
  ASSUME NEW X, NEW a \in Seq(X), NEW b \in Seq(X), NEW c \in Seq(X), NEW d \in Seq(X),
         NEW e \in Seq(X), NEW t, NEW p \in Nat, Len(t) \in Nat
  PROVE  /\ a \o b \o c \o d \o e \in Seq(X)
         /\ Len(a) \in Nat /\ Len(b) \in Nat /\ Len(c) \in Nat /\ Len(d) \in Nat /\ Len(e) \in Nat
         /\ EndsWith(t, p, a \o b \o c \o d \o e) =>
              /\ Stretch(t, p, a)
              /\ Stretch(t, p + Len(a), b)
              /\ Stretch(t, p + Len(a) + Len(b), c)
              /\ Stretch(t, p + Len(a) + Len(b) + Len(c), d)
              /\ EndsWith(t, p + Len(a) + Len(b) + Len(c) + Len(d), e)
<1>1. PICK ab \in Seq(X) : ab = a \o b
  BY TwoJoined
<1>2. PICK abc \in Seq(X) : abc = ab \o c
  BY TwoJoined
<1>3. PICK abcd \in Seq(X) : abcd = abc \o d
  BY TwoJoined
<1>4. /\ Len(a) \in Nat /\ Len(b) \in Nat /\ Len(ab) = Len(a) + Len(b)
      /\ Stretch(t, p, ab) => Stretch(t, p, a) /\ Stretch(t, p + Len(a), b)
  <2>1. Len(a) \in Nat /\ Len(b) \in Nat /\ Len(a \o b) = Len(a) + Len(b)
    BY StretchSplits
  <2>2. Stretch(t, p, a \o b) => Stretch(t, p, a) /\ Stretch(t, p + Len(a), b)
    BY StretchSplits
  <2> QED
    BY <1>1, <2>1, <2>2
<1>5. /\ Len(c) \in Nat /\ Len(abc) = Len(ab) + Len(c)
      /\ Stretch(t, p, abc) => Stretch(t, p, ab) /\ Stretch(t, p + Len(ab), c)
  <2>1. Len(c) \in Nat /\ Len(ab \o c) = Len(ab) + Len(c)
    BY StretchSplits
  <2>2. Stretch(t, p, ab \o c) => Stretch(t, p, ab) /\ Stretch(t, p + Len(ab), c)
    BY StretchSplits
  <2> QED
    BY <1>2, <2>1, <2>2
<1>6. /\ Len(d) \in Nat /\ Len(abcd) = Len(abc) + Len(d)
      /\ Stretch(t, p, abcd) => Stretch(t, p, abc) /\ Stretch(t, p + Len(abc), d)
  <2>1. Len(d) \in Nat /\ Len(abc \o d) = Len(abc) + Len(d)
    BY StretchSplits
  <2>2. Stretch(t, p, abc \o d) => Stretch(t, p, abc) /\ Stretch(t, p + Len(abc), d)
    BY StretchSplits
  <2> QED
    BY <1>3, <2>1, <2>2
<1>t. abcd \o e \in Seq(X)
  BY TwoJoined
<1>7. /\ Len(e) \in Nat
      /\ EndsWith(t, p, abcd \o e) => Stretch(t, p, abcd) /\ EndsWith(t, p + Len(abcd), e)
  BY StretchSplits
<1>8. a \o b \o c \o d \o e = abcd \o e
  BY <1>1, <1>2, <1>3
<1>9. PICK la \in Nat, lb \in Nat, lc \in Nat, ld \in Nat :
        la = Len(a) /\ lb = Len(b) /\ lc = Len(c) /\ ld = Len(d)
  BY <1>4, <1>5, <1>6
<1>10. /\ p + (la + lb) = p + la + lb /\ p + (la + lb + lc) = p + la + lb + lc
       /\ p + (la + lb + lc + ld) = p + la + lb + lc + ld
  OBVIOUS
<1>11. /\ Len(ab) = la + lb /\ Len(abc) = la + lb + lc /\ Len(abcd) = la + lb + lc + ld
  BY <1>4, <1>5, <1>6, <1>9
<1> QED
  BY <1>4, <1>5, <1>6, <1>7, <1>8, <1>9, <1>10, <1>11, <1>t

LEMMA EmptyLineIs ==
  ASSUME NEW m, NEW line, NEW t, NEW p
  PROVE  /\ EmptyLineBefore(m, line) \in Seq(Symbol) /\ Skip(m, line) \in {0, 2}
         /\ Len(EmptyLineBefore(m, line)) = Skip(m, line)
         /\ Stretch(t, p, EmptyLineBefore(m, line)) /\ m.blank = line => EmptyLineAt(t, p)
<1>1. /\ <<CR, LF>> \in Seq(Symbol) /\ Len(<<CR, LF>>) = 2
      /\ Stretch(t, p, <<CR, LF>>) => EmptyLineAt(t, p)
  BY EndOfLineIs
<1>2. <<>> \in Seq(Symbol) /\ Len(<<>>) = 0
  BY EmptySeq
<1> QED
  BY <1>1, <1>2 DEF EmptyLineBefore, Skip

LEMMA MessageParts ==
  ASSUME NEW m \in Message
  PROVE  /\ m.start \in Int /\ m.headers \in Seq(Int) /\ m.chunks \in Seq(Int)
         /\ Len(m.headers) \in Nat /\ Len(m.chunks) \in Nat /\ m.length \in Nat
         /\ \A k \in 1..Len(m.headers) : m.headers[k] \in {NoColon, Chunked, NotChunked, NotDigits, Other} \cup Nat
         /\ \A c \in 1..Len(m.chunks) : m.chunks[c] \in Int /\ m.chunks[c] # 0
<1>1. /\ m.start \in Int /\ m.headers \in Seq({NoColon, Chunked, NotChunked, NotDigits, Other} \cup Nat)
      /\ m.chunks \in Seq(Int \ {0}) /\ m.length \in Nat
  BY Zenon DEF Message
<1>2. {NoColon, Chunked, NotChunked, NotDigits, Other} \cup Nat \subseteq Int /\ Int \ {0} \subseteq Int
  BY DEF NoColon, Chunked, NotChunked, NotDigits, Other
<1>3. m.headers \in Seq(Int) /\ m.chunks \in Seq(Int)
  BY <1>1, <1>2, SeqMonotonic
<1>4. \A k \in 1..Len(m.headers) : m.headers[k] \in {NoColon, Chunked, NotChunked, NotDigits, Other} \cup Nat
  BY <1>1, ElementOfSeq
<1>5. \A c \in 1..Len(m.chunks) : m.chunks[c] \in Int \ {0}
  BY <1>1, ElementOfSeq
<1> QED
  BY <1>1, <1>3, <1>4, <1>5, LenProperties

\* What stands behind the empty line of the headers.
ChunkedBody(m) ==
  RenderChunks(m.chunks) \o EmptyLineBefore(m, "size") \o TextLine("size", 0)
    \o (IF m.trailer THEN TextLine("header", Other) ELSE <<>>) \o <<CR, LF>>

BodyText(m) == IF IsChunked(m) THEN ChunkedBody(m) ELSE Bytes(1, m.length)

LEMMA RenderIsPieces ==
  ASSUME NEW m
  PROVE  Render(m) = EmptyLineBefore(m, "start") \o TextLine("start", m.start) \o HeaderLines(m.headers)
                       \o <<CR, LF>> \o BodyText(m)
  BY Zenon DEF Render, HeaderLines, BodyText, ChunkedBody

LEMMA TrailerIs ==
  ASSUME NEW m
  PROVE  LET trailer == IF m.trailer THEN TextLine("header", Other) ELSE <<>> IN
         /\ trailer \in Seq(Symbol)
         /\ m.trailer => Len(trailer) = 3 /\ \A t, p : Stretch(t, p, trailer) => TextLineAt(t, p, "header")
         /\ ~m.trailer => Len(trailer) = 0
<1>1. /\ TextLine("header", Other) \in Seq(Symbol) /\ Len(TextLine("header", Other)) = 3
      /\ \A t, p : Stretch(t, p, TextLine("header", Other)) => TextLineAt(t, p, "header")
  BY TextLineIs DEF Kinds, Other
<1>2. <<>> \in Seq(Symbol) /\ Len(<<>>) = 0
  BY EmptySeq
<1>3. CASE m.trailer
  BY <1>1, <1>3, Zenon
<1>4. CASE ~m.trailer
  BY <1>2, <1>4, Zenon
<1> QED
  BY <1>3, <1>4, Zenon

LEMMA ChunkedBodyIsLaid ==
  ASSUME NEW m \in Message, NEW s, Len(s) \in Nat
  PROVE  /\ ChunkedBody(m) \in Seq(Symbol)
         /\ BodyAt(m) \in Nat
         /\ EndsWith(s, BodyAt(m), ChunkedBody(m)) => \E o : BodyLaid(m, s, o)
<1>0. BodyAt(m) \in Nat
  <2>1. PICK n \in Nat : n = Len(m.headers)
    BY MessageParts
  <2>2. PICK k \in {0, 2} : k = Skip(m, "start")
    BY EmptyLineIs
  <2>3. k + 3 * n + 5 \in Nat
    OBVIOUS
  <2> QED
    BY <2>1, <2>2, <2>3 DEF BodyAt
<1>1. PICK p \in Nat : p = BodyAt(m)
  BY <1>0
<1>l. PICK l \in Seq(Int) : l = m.chunks
  BY MessageParts
<1>2. PICK a \in Seq(Symbol) : a = RenderChunks(l)
  BY <1>1, ChunksStretch
<1>3. PICK b \in Seq(Symbol) : b = EmptyLineBefore(m, "size") /\ Len(b) = Skip(m, "size")
  BY EmptyLineIs
<1>4. PICK c \in Seq(Symbol) : c = TextLine("size", 0) /\ Len(c) = 3
  BY TextLineIs DEF Kinds
<1>5. PICK d \in Seq(Symbol) : d = IF m.trailer THEN TextLine("header", Other) ELSE <<>>
  BY TrailerIs
<1>6. PICK e \in Seq(Symbol) :
        e = <<CR, LF>> /\ Len(e) = 2 /\ \A t, i : Stretch(t, i, e) => EmptyLineAt(t, i)
  BY EndOfLineIs
<1>7. ChunkedBody(m) = a \o b \o c \o d \o e
  BY <1>l, <1>2, <1>3, <1>4, <1>5, <1>6, Zenon DEF ChunkedBody
<1>8. ASSUME EndsWith(s, p, a \o b \o c \o d \o e)
      PROVE  \E o : BodyLaid(m, s, o)
  <2>1. PICK k \in Nat, sk \in {0, 2} : k = Len(a) /\ sk = Skip(m, "size")
    BY EmptyLineIs, LenProperties
  <2>2. /\ Stretch(s, p, a)
        /\ Stretch(s, p + k, b)
        /\ Stretch(s, p + k + sk, c)
        /\ Stretch(s, p + k + sk + 3, d)
        /\ EndsWith(s, p + k + sk + 3 + Len(d), e)
    <3>1. /\ Stretch(s, p, a)
          /\ Stretch(s, p + Len(a), b)
          /\ Stretch(s, p + Len(a) + Len(b), c)
          /\ Stretch(s, p + Len(a) + Len(b) + Len(c), d)
          /\ EndsWith(s, p + Len(a) + Len(b) + Len(c) + Len(d), e)
      BY <1>8, FivePieces
    <3> QED
      BY <1>3, <1>4, <2>1, <3>1
  <2>3. PICK o \in [1..(Len(m.chunks) + 1) -> Nat] :
           /\ o[1] = p /\ o[Len(m.chunks) + 1] = p + k
           /\ \A i \in 1..Len(m.chunks) :
                ChunkLaid(s, o[i], m.chunks[i], FirstBytes(m.chunks)[i], o[i + 1])
    <3>1. Stretch(s, p, RenderChunks(l))
      BY <1>2, <2>2
    <3>2. \E o : ChunksLaid(s, p, l, o)
      BY <3>1, ChunksStretch
    <3> QED
      BY <1>l, <1>2, <2>1, <3>2 DEF ChunksLaid
  <2>4. PICK q \in Nat : q = p + k
    OBVIOUS
  <2>5. m.blank = "size" => EmptyLineAt(s, q)
    BY <1>3, <2>2, <2>4, EmptyLineIs
  <2>6. TextLineAt(s, q + sk, "size") /\ s[q + sk + 1].val = 0
    BY <1>4, <2>2, <2>4, TextLineIs DEF Kinds
  <2>7. m.trailer => TextLineAt(s, q + sk + 3, "header") /\ Len(s) = q + sk + 8
    <3>1. SUFFICES ASSUME m.trailer
                   PROVE  TextLineAt(s, q + sk + 3, "header") /\ Len(s) = q + sk + 8
      OBVIOUS
    <3>2. Len(d) = 3 /\ \A t, i : Stretch(t, i, d) => TextLineAt(t, i, "header")
      BY <1>5, <3>1, TrailerIs, Zenon
    <3>3. Len(s) = (p + k + sk + 3 + 3) + 2
      BY <1>6, <2>2, <3>2 DEF EndsWith
    <3>4. (q + sk + 3 + 3) + 2 = q + sk + 8
      OBVIOUS
    <3> QED
      BY <2>2, <2>4, <3>2, <3>3, <3>4
  <2>8. ~m.trailer => EmptyLineAt(s, q + sk + 3)
    <3>1. SUFFICES ASSUME ~m.trailer PROVE EmptyLineAt(s, q + sk + 3)
      OBVIOUS
    <3>2. Len(d) = 0
      BY <1>5, <3>1, TrailerIs, Zenon
    <3>3. q + sk + 3 + 0 = q + sk + 3
      OBVIOUS
    <3>4. Stretch(s, q + sk + 3, e)
      BY <2>2, <2>4, <3>2, <3>3 DEF EndsWith
    <3> QED
      BY <1>6, <3>4
  <2>9. LastLaid(m, s, q)
    <3>1. sk = Skip(m, "size")
      BY <2>1
    <3> QED
      BY <2>5, <2>6, <2>7, <2>8, <3>1, Zenon DEF LastLaid
  <2>10. BodyLaid(m, s, o)
    BY <1>1, <2>3, <2>4, <2>9 DEF BodyLaid
  <2> QED
    BY <2>10
<1>9. a \o b \o c \o d \o e \in Seq(Symbol)
  BY FivePieces, <1>1
<1> QED
  BY <1>0, <1>1, <1>7, <1>8, <1>9

\* In the text of a request everything stands where the parts say.
LEMMA RenderIsLaid ==
  ASSUME NEW m \in Message, NEW s, s = Render(m)
  PROVE  s \in Seq(Symbol) /\ \E o : Laid(m, s, o)
<1>1. PICK a \in Seq(Symbol) : a = EmptyLineBefore(m, "start") /\ Len(a) = Skip(m, "start")
  BY EmptyLineIs
<1>2. PICK b \in Seq(Symbol) : b = TextLine("start", m.start) /\ Len(b) = 3
  BY TextLineIs, MessageParts DEF Kinds
<1>3. PICK n \in Nat : n = Len(m.headers)
  BY MessageParts
<1>4. PICK c \in Seq(Symbol) : c = HeaderLines(m.headers)
  <2>1. 0 \in Nat /\ Len(<<>>) \in Nat
    BY EmptySeq
  <2>2. PICK h \in Seq(Int) : h = m.headers
    BY MessageParts
  <2>3. HeaderLines(h) \in Seq(Symbol)
    BY <2>1, HeaderLinesStretch
  <2> QED
    BY <2>2, <2>3
<1>5. PICK d \in Seq(Symbol) :
        d = <<CR, LF>> /\ Len(d) = 2 /\ \A t, i : Stretch(t, i, d) => EmptyLineAt(t, i)
  BY EndOfLineIs
<1>6. PICK e \in Seq(Symbol) : e = BodyText(m)
  <2>1. Len(<<>>) \in Nat
    BY EmptySeq
  <2>2. ChunkedBody(m) \in Seq(Symbol)
    BY <2>1, ChunkedBodyIsLaid
  <2>3. Bytes(1, m.length) \in Seq(Symbol)
    <3>1. PICK l \in Nat : l = m.length
      BY MessageParts
    <3>2. l \in Int /\ 1 \in Int
      OBVIOUS
    <3> QED
      BY <3>1, <3>2, BytesAre
  <2> QED
    BY <2>2, <2>3 DEF BodyText
<1>7. s = a \o b \o c \o d \o e
  BY <1>1, <1>2, <1>4, <1>5, <1>6, RenderIsPieces
<1>8. s \in Seq(Symbol) /\ Len(s) \in Nat
  <2>1. Len(<<>>) \in Nat /\ 0 \in Nat
    BY EmptySeq
  <2>2. a \o b \o c \o d \o e \in Seq(Symbol)
    BY <2>1, FivePieces
  <2> QED
    BY <1>7, <2>2, LenProperties
<1>9. EndsWith(s, 0, a \o b \o c \o d \o e)
  BY <1>7, <1>8 DEF EndsWith, Stretch
<1>10. PICK sk \in {0, 2} : sk = Skip(m, "start")
  BY EmptyLineIs
<1>11. /\ Stretch(s, 0, a) /\ Stretch(s, 0 + sk, b) /\ Stretch(s, 0 + sk + 3, c)
       /\ Stretch(s, 0 + sk + 3 + Len(c), d)
       /\ EndsWith(s, 0 + sk + 3 + Len(c) + 2, e)
  <2>1. 0 \in Nat
    OBVIOUS
  <2>2. /\ Stretch(s, 0, a)
        /\ Stretch(s, 0 + Len(a), b)
        /\ Stretch(s, 0 + Len(a) + Len(b), c)
        /\ Stretch(s, 0 + Len(a) + Len(b) + Len(c), d)
        /\ EndsWith(s, 0 + Len(a) + Len(b) + Len(c) + Len(d), e)
    BY <1>8, <1>9, <2>1, FivePieces
  <2> QED
    BY <1>1, <1>2, <1>5, <1>10, <2>2
<1>12. /\ Len(c) = 3 * n
       /\ \A k \in 1..n : /\ TextLineAt(s, (sk + 3) + 3 * (k - 1), "header")
                          /\ s[(sk + 3) + 3 * (k - 1) + 1].val = m.headers[k]
  <2>1. sk + 3 \in Nat /\ 0 + sk + 3 = sk + 3
    OBVIOUS
  <2>2. PICK h \in Seq(Int) : h = m.headers
    BY MessageParts
  <2>3. PICK q \in Nat : q = sk + 3
    BY <2>1
  <2>4. c = HeaderLines(h) /\ n = Len(h)
    BY <1>3, <1>4, <2>2
  <2>5. Stretch(s, q, c)
    BY <1>11, <2>1, <2>3
  <2>6. Len(HeaderLines(h)) = 3 * Len(h) /\ HeadersLaid(s, q, h)
    BY <1>8, <2>4, <2>5, HeaderLinesStretch
  <2> QED
    BY <2>2, <2>3, <2>4, <2>6 DEF HeadersLaid
<1>13. m.blank = "start" => EmptyLineAt(s, 0)
  BY <1>1, <1>11, EmptyLineIs
<1>14. TextLineAt(s, sk, "start") /\ s[sk + 1].val = m.start
  <2>1. 0 + sk = sk
    OBVIOUS
  <2> QED
    BY <1>2, <1>11, <2>1, MessageParts, TextLineIs DEF Kinds
<1>15. \A k \in 1..n : TextLineAt(s, sk + 3 * k, "header") /\ s[sk + 3 * k + 1].val = m.headers[k]
  <2>1. \A k \in 1..n : (sk + 3) + 3 * (k - 1) = sk + 3 * k
    OBVIOUS
  <2> QED
    BY <1>12, <2>1
<1>16. EmptyLineAt(s, sk + 3 * n + 3)
  <2>1. 0 + sk + 3 + 3 * n = sk + 3 * n + 3
    OBVIOUS
  <2> QED
    BY <1>5, <1>11, <1>12, <2>1
<1>17. HeadLaid(m, s)
  BY <1>3, <1>10, <1>13, <1>14, <1>15, <1>16 DEF HeadLaid
<1>18. IsChunked(m) => \E o : BodyLaid(m, s, o)
  <2>1. 0 + sk + 3 + 3 * n + 2 = sk + 3 * n + 5
    OBVIOUS
  <2>2. EndsWith(s, BodyAt(m), e)
    BY <1>3, <1>10, <1>11, <1>12, <2>1 DEF BodyAt
  <2> QED
    BY <1>6, <1>8, <2>2, ChunkedBodyIsLaid DEF BodyText
<1> QED
  BY <1>8, <1>17, <1>18 DEF Laid

----------------------------------------------------------------------------
(* Where parse() is in such a request.                                     *)

Waiting == parsing \/ delivered < Len(stream)

\* The empty line behind p was read and not erased.
Behind(b, p) ==
  /\ Fit(b) /\ b.rpos = 2 /\ Size(b) >= 2
  /\ p \in Nat /\ p + Size(b) = delivered /\ EmptyLineAt(stream, p)

\* The read position has walked below zero, by no more than was received.
Below(p) ==
  /\ Fit(buffer) /\ p \in Nat /\ p + Size(buffer) = delivered
  /\ buffer.rpos + Size(buffer) >= IF parsing THEN Word + 1 ELSE Word

NoBody == ~chunked_status /\ chunkBodyRead_size = 0 /\ tempBody = <<>>

\* The first Content-Length among the first k headers is v, Other if none.
FirstLength(m, k, v) ==
  \/ v = Other /\ \A i \in 1..k : ~IsLength(m.headers[i])
  \/ \E i \in 1..k : /\ IsLength(m.headers[i]) /\ v = m.headers[i]
                     /\ \A j \in 1..(i - 1) : ~IsLength(m.headers[j])

\* The start line and the first k headers were read.
HeadRead(m, k) ==
  /\ method = m.start /\ m.start # Invalid
  /\ \A i \in 1..k : m.headers[i] # NoColon
  /\ FirstCoding(m.headers, k, headers.te)
  /\ FirstLength(m, k, headers.cl)

\* The data of the chunks before c was read, and k bytes more.
DataRead(m, c, k) ==
  FirstBytes(m.chunks)[c] \in Nat \ {0} /\ tempBody = Bytes(1, FirstBytes(m.chunks)[c] - 1 + k)

ReadsChunks(m) ==
  /\ m.start \in BodyMethods /\ IsChunked(m)
  /\ Outcome(m) = IF m.trailer THEN "CHUNK" ELSE "COMPLETE"

AtStart(m) ==
  /\ NoBody /\ headers.te = Other /\ headers.cl = Other
  /\ (At(buffer, 0) /\ Waiting) \/ (m.blank = "start" /\ Behind(buffer, 0))

AtHeaders(m) ==
  /\ NoBody /\ Waiting
  /\ \E k \in 0..Len(m.headers) : At(buffer, Skip(m, "start") + 3 * k + 3) /\ HeadRead(m, k)

AtBodyKind(m) ==
  /\ NoBody /\ parsing
  /\ At(buffer, BodyAt(m)) /\ HeadRead(m, Len(m.headers))

AtSize(m, o) ==
  /\ ReadsChunks(m) /\ ~chunked_status /\ chunkBodyRead_size = 0
  /\ \E c \in 1..(Len(m.chunks) + 1) :
       /\ DataRead(m, c, 0)
       /\ \/ At(buffer, o[c]) /\ Waiting
          \/ c = Len(m.chunks) + 1 /\ m.blank = "size" /\ Behind(buffer, o[c])

AtData(m, o) ==
  /\ ReadsChunks(m) /\ chunked_status /\ Waiting
  /\ \E c \in 1..Len(m.chunks) :
       /\ chunk_size = m.chunks[c] /\ chunkBodyRead_size \in 0..Room(chunk_size)
       /\ DataRead(m, c, chunkBodyRead_size)
       /\ At(buffer, o[c] + 3 + chunkBodyRead_size)

BehindLast(m, p) == (At(buffer, p) /\ (m.trailer \/ Waiting)) \/ (m.trailer /\ Below(p))

AtLast(m, o) ==
  /\ ReadsChunks(m) /\ chunked_status /\ chunk_size = 0 /\ chunkBodyRead_size = 0
  /\ DataRead(m, Len(m.chunks) + 1, 0)
  /\ BehindLast(m, o[Len(m.chunks) + 1] + Skip(m, "size") + 3)

AtBody(m) ==
  /\ parsing /\ headers.cl = NotDigits /\ Outcome(m) = "COMPLETE"
  /\ ~(m.start \in BodyMethods /\ IsChunked(m))

AtEnd(m) ==
  /\ Outcome(m) = status
  /\ status = "COMPLETE" /\ m.start \in BodyMethods /\ IsChunked(m) => data = Bytes(1, BodyLength(m))

Reads(m, o) ==
  \/ status = "START_LINE" /\ AtStart(m)
  \/ status = "HEADERS" /\ AtHeaders(m)
  \/ status = "PREBODY" /\ AtBodyKind(m)
  \/ status = "CHUNK" /\ (AtSize(m, o) \/ AtData(m, o) \/ AtLast(m, o))
  \/ status = "BODY" /\ AtBody(m)
  \/ status \in {"COMPLETE", "BAD_REQUEST"} /\ AtEnd(m)

----------------------------------------------------------------------------
(* Behind an empty line that was not erased.                               *)

LEMMA EmptyLineStays ==
  ASSUME NEW b, NEW p, At(b, p), EmptyLineAt(stream, p), Size(b) >= 2
  PROVE  Behind(SetReadPos(b, 2), p)
<1>1. /\ b \in TextBuffer /\ Fit(b) /\ p \in Nat /\ Size(b) \in Nat /\ p + Size(b) = delivered
  BY AtBytes
<1>2. 2 \in Int /\ 2 \in 0..Size(b)
  BY <1>1
<1>3. Fit(SetReadPos(b, 2)) /\ Size(SetReadPos(b, 2)) = Size(b) /\ SetReadPos(b, 2).rpos = 2
  BY <1>1, <1>2, MovedStaysFit
<1> QED
  BY <1>1, <1>3 DEF Behind

LEMMA BehindBytes ==
  ASSUME NEW b, NEW p, Behind(b, p)
  PROVE  /\ b \in TextBuffer /\ Fit(b) /\ b.rpos = 2 /\ p \in Nat /\ Size(b) \in Nat /\ Size(b) >= 2
         /\ p + Size(b) = delivered /\ delivered \in Nat /\ b.bytes \in Seq(Text)
         /\ Size(b) = Len(b.bytes) /\ At(SetReadPos(b, 0), p) /\ Size(SetReadPos(b, 0)) = Size(b)
         /\ SubSeq(b.bytes, 1, 2) = <<CR, LF>>
         /\ \A i \in 1..Size(b) : b.bytes[i] = stream[p + i] /\ Read(b, i - 1) = stream[p + i]
<1>1. /\ b \in TextBuffer /\ Fit(b) /\ b.rpos = 2 /\ p \in Nat /\ Size(b) \in Nat /\ Size(b) >= 2
      /\ p + Size(b) = delivered /\ b.bytes \in Seq(Text) /\ Size(b) = Len(b.bytes)
  BY BufferFields DEF Behind, Fit, Size
<1>2. 0 \in Int /\ 0 \in 0..Size(b)
  BY <1>1
<1>3. /\ Fit(SetReadPos(b, 0)) /\ Size(SetReadPos(b, 0)) = Size(b) /\ SetReadPos(b, 0).rpos = 0
      /\ SetReadPos(b, 0).bytes = b.bytes
  BY <1>1, <1>2, MovedStaysFit, SetReadPosType
<1>4. At(SetReadPos(b, 0), p)
  BY <1>1, <1>3 DEF At
<1>5. \A i \in 1..Size(b) : b.bytes[i] = stream[p + i] /\ Read(b, i - 1) = stream[p + i]
  <2>1. \A i \in 1..Size(SetReadPos(b, 0)) :
           SetReadPos(b, 0).bytes[i] = stream[p + i] /\ Read(SetReadPos(b, 0), i - 1) = stream[p + i]
    BY <1>4, AtBytes
  <2>2. \A i : Read(SetReadPos(b, 0), i) = Read(b, i)
    BY <1>3 DEF Read, Size
  <2> QED
    BY <1>3, <2>1, <2>2
<1>6. SubSeq(b.bytes, 1, 2) = <<CR, LF>>
  <2>1. 1 \in 1..Size(b) /\ 2 \in 1..Size(b)
    BY <1>1
  <2>2. b.bytes[1] = CR /\ b.bytes[2] = LF
    BY <1>5, <2>1 DEF Behind, EmptyLineAt
  <2>3. PICK t \in Seq(Text) : t = b.bytes
    BY <1>1
  <2>4. PICK u : u = SubSeq(t, 1, 2)
    OBVIOUS
  <2>5. 2 <= Len(t) /\ t[1] = CR /\ t[2] = LF
    BY <1>1, <2>2, <2>3
  <2>6. u \in Seq(Text) /\ Len(u) = 2 /\ u[1] = CR /\ u[2] = LF
    <3>1. Len(t) \in Nat
      BY LenProperties
    <3>2. /\ SubSeq(t, 1, 2) \in Seq(Text)
          /\ Len(SubSeq(t, 1, 2)) = IF 1 <= 2 THEN 2 - 1 + 1 ELSE 0
          /\ \A i \in 1..(2 - 1 + 1) : SubSeq(t, 1, 2)[i] = t[1 + i - 1]
      BY SMTT(30), <2>5, <3>1, TailIsText
    <3>3. 1 \in 1..(2 - 1 + 1) /\ 2 \in 1..(2 - 1 + 1) /\ 1 + 1 - 1 = 1 /\ 1 + 2 - 1 = 2
      OBVIOUS
    <3> QED
      BY <2>4, <2>5, <3>2, <3>3
  <2>7. u = <<u[1], u[2]>>
    BY <2>6
  <2> QED
    BY <2>3, <2>4, <2>6, <2>7
<1> QED
  BY <1>1, <1>3, <1>4, <1>5, <1>6

\* getLine() then takes the next line.
LEMMA TakeNextLine ==
  ASSUME NEW b, NEW p, NEW kind \in {"start", "header", "size"}, Behind(b, p),
         TextLineAt(stream, p + 2, kind)
  PROVE  \/ Size(b) < 5 /\ Line(b) = <<>> /\ AfterLine(b) = b
         \/ /\ Size(b) >= 5 /\ Line(b) # <<>> /\ Line(b)[1] = stream[p + 2 + 1]
            /\ At(EraseRead(AfterLine(b)), p + 5)
<1>1. /\ b \in TextBuffer /\ b.rpos = 2 /\ p \in Nat /\ Size(b) \in Nat /\ b.bytes \in Seq(Text)
      /\ Size(b) = Len(b.bytes) /\ Size(b) >= 2
      /\ At(SetReadPos(b, 0), p) /\ Size(SetReadPos(b, 0)) = Size(b)
      /\ \A i \in 1..Size(b) : b.bytes[i] = stream[p + i] /\ Read(b, i - 1) = stream[p + i]
  BY BehindBytes
<1>2. /\ stream[p + 3] # CR /\ stream[p + 4] = CR /\ stream[p + 5] = LF
      /\ p + 2 + 1 = p + 3
  <2>1. p + 2 + 1 = p + 3 /\ p + 2 + 2 = p + 4 /\ p + 2 + 3 = p + 5
    BY <1>1
  <2> QED
    BY <2>1 DEF TextLineAt, CR, LF
<1>3. CASE Size(b) < 5
  <2>1. ASSUME NEW k \in LineEnds(b) PROVE FALSE
    <3>1. k \in 2..(Size(b) - 2) /\ Read(b, k) = CR
      BY <1>1, <2>1 DEF LineEnds
    <3>2. k = 2 /\ 3 \in 1..Size(b) /\ 3 - 1 = 2
      BY <1>1, <1>3, <3>1
    <3>3. Read(b, 2) = stream[p + 3]
      BY <1>1, <3>2
    <3> QED
      BY <1>2, <3>1, <3>2, <3>3
  <2>2. LineEnds(b) = {}
    BY <2>1
  <2> QED
    BY <1>3, <2>2 DEF Line, AfterLine
<1>4. CASE Size(b) >= 5
  <2>1. 3 \in 1..Size(b) /\ 4 \in 1..Size(b) /\ 5 \in 1..Size(b) /\ 3 - 1 = 2 /\ 4 - 1 = 3
        /\ 5 - 1 = 4
    BY <1>1, <1>4
  <2>2. Read(b, 2) # CR /\ Read(b, 3) = CR /\ Read(b, 4) = LF
    BY <1>1, <1>2, <2>1
  <2>3. 3 \in 2..(Size(b) - 2) /\ 3 + 1 = 4
    BY <1>1, <1>4
  <2>4. 3 \in LineEnds(b) /\ 2 \notin LineEnds(b)
    BY <1>1, <2>2, <2>3 DEF LineEnds
  <2>5. \A k \in LineEnds(b) : k \in Nat /\ k # 2 /\ k >= 2
    BY <1>1, <2>4 DEF LineEnds
  <2>6. FirstLineEnd(b) = 3
    <3>1. \A k \in LineEnds(b) : 3 <= k
      BY <2>5
    <3>2. \A k \in LineEnds(b) : (\A j \in LineEnds(b) : k <= j) => k = 3
      BY <2>4, <2>5
    <3> QED
      BY <2>4, <3>1, <3>2 DEF FirstLineEnd
  <2>7. AfterLine(b) = SetReadPos(b, 5) /\ Line(b) = SubSeq(b.bytes, 3, 3)
    BY <1>1, <2>4, <2>6 DEF AfterLine, Line
  <2>8. Len(SubSeq(b.bytes, 3, 3)) = 1 /\ SubSeq(b.bytes, 3, 3)[1] = b.bytes[3]
    BY <1>1, <1>4
  <2>9. At(EraseRead(SetReadPos(b, 5)), p + 5)
    <3>1. SetReadPos(SetReadPos(b, 0), 5) = SetReadPos(b, 5)
      <4>1. b = [bytes |-> b.bytes, rpos |-> b.rpos, wpos |-> b.wpos]
        BY <1>1, BufferFields
      <4> QED
        BY <4>1, Zenon DEF SetReadPos
    <3>2. At(EraseRead(SetReadPos(SetReadPos(b, 0), 5)), p + 5)
      BY <1>1, <1>4, AtMoves
    <3> QED
      BY <3>1, <3>2
  <2> QED
    BY <1>1, <1>2, <1>4, <2>1, <2>7, <2>8, <2>9
<1> QED
  BY <1>1, <1>3, <1>4

LEMMA AtNext ==
  ASSUME NEW p, UNCHANGED peerVars
  PROVE  /\ At(buffer', p) => At(buffer, p)'
         /\ Behind(buffer', p) => Behind(buffer, p)'
  BY DEF At, Behind, Fit, IsEnd, Size, EmptyLineAt, peerVars

----------------------------------------------------------------------------
(* What a step does to a rendered request.                                 *)

SegPremises(m, o) ==
  /\ Ordinary /\ TypeInv /\ EndInv
  /\ m \in Message /\ Laid(m, stream, o) /\ Reads(m, o)

LEMMA SegGives ==
  ASSUME NEW m, NEW o, SegPremises(m, o)
  PROVE  /\ Ordinary /\ TypeInv /\ EndInv /\ m \in Message /\ Reads(m, o)
         /\ stream \in Seq(Text) /\ Len(stream) \in Nat /\ Len(stream) < Word
         /\ delivered \in Nat /\ delivered <= Len(stream)
         /\ buffer \in TextBuffer /\ Fit(buffer) /\ Size(buffer) \in Nat
         /\ chunkBodyRead_size \in Nat /\ chunk_size \in Int /\ tempBody \in Seq(Symbol)
         /\ HeadLaid(m, stream) /\ (IsChunked(m) => BodyLaid(m, stream, o))
         /\ Skip(m, "start") \in {0, 2} /\ Skip(m, "size") \in {0, 2}
         /\ Len(m.headers) \in Nat /\ Len(m.chunks) \in Nat
<1>1. Ordinary /\ TypeInv /\ EndInv /\ m \in Message /\ Reads(m, o) /\ Laid(m, stream, o)
  BY DEF SegPremises
<1>2. HeadLaid(m, stream) /\ (IsChunked(m) => BodyLaid(m, stream, o))
  BY <1>1 DEF Laid
<1>3. chunkBodyRead_size \in Nat /\ chunk_size \in Int /\ tempBody \in Seq(Symbol)
  BY <1>1 DEF TypeInv, TypeOK
<1>4. Skip(m, "start") \in {0, 2} /\ Skip(m, "size") \in {0, 2}
  BY DEF Skip
<1> QED
  BY <1>1, <1>2, <1>3, <1>4, FitBuffer, MessageParts

\* Where the start line stands.
LEMMA StartLaid ==
  ASSUME NEW m, NEW o, SegPremises(m, o)
  PROVE  \E h \in Nat :
           /\ h = Skip(m, "start") /\ (h = 0 \/ (h = 2 /\ m.blank = "start" /\ EmptyLineAt(stream, 0)))
           /\ TextLineAt(stream, h, "start") /\ h + 3 <= Len(stream)
           /\ stream[h + 1].kind = "start" /\ stream[h + 1].val = m.start
<1>1. PICK h \in Nat : h = Skip(m, "start")
  BY SegGives
<1>2. h = 0 \/ (h = 2 /\ m.blank = "start")
  BY <1>1 DEF Skip
<1>3. HeadLaid(m, stream)
  BY SegGives
<1>4. /\ m.blank = "start" => EmptyLineAt(stream, 0)
      /\ TextLineAt(stream, h, "start") /\ stream[h + 1].val = m.start
  BY <1>1, <1>3 DEF HeadLaid
<1>5. h + 3 <= Len(stream) /\ stream[h + 1].kind = "start"
  BY <1>4 DEF TextLineAt
<1> QED
  BY <1>1, <1>2, <1>4, <1>5

LEMMA SegStartLine ==
  ASSUME NEW m, NEW o, SegPremises(m, o), ParseStartLine
  PROVE  Reads(m, o)'
<1>1. /\ status = "START_LINE" /\ parsing /\ UNCHANGED peerVars /\ stream' = stream
      /\ delivered' = delivered /\ tempBody' = tempBody /\ chunked_status' = chunked_status
      /\ chunkBodyRead_size' = chunkBodyRead_size /\ headers' = headers
  BY DEF ParseStartLine, peerVars, chunkVars
<1>2. AtStart(m)
  BY <1>1, SegGives DEF Reads
<1>3. NoBody /\ headers.te = Other /\ headers.cl = Other
  BY <1>2 DEF AtStart
<1>4. NoBody'
  BY <1>1, <1>3 DEF NoBody
<1>5. PICK h \in Nat :
        /\ h = Skip(m, "start") /\ (h = 0 \/ (h = 2 /\ m.blank = "start" /\ EmptyLineAt(stream, 0)))
        /\ TextLineAt(stream, h, "start") /\ h + 3 <= Len(stream)
        /\ stream[h + 1].kind = "start" /\ stream[h + 1].val = m.start
  BY StartLaid
<1>6. ASSUME Line(buffer) # <<>>, Line(buffer)[1] = stream[h + 1], At(EraseRead(AfterLine(buffer)), h + 3)
      PROVE  Reads(m, o)'
  <2>1. CASE m.start = Invalid
    <3>1. status' = "BAD_REQUEST"
      BY <1>1, <1>5, <1>6, <2>1 DEF ParseStartLine, Return
    <3>2. Outcome(m) = "BAD_REQUEST"
      BY <2>1 DEF Outcome
    <3>3. AtEnd(m)'
      BY <3>1, <3>2 DEF AtEnd
    <3> QED
      BY <3>1, <3>3 DEF Reads
  <2>2. CASE m.start # Invalid
    <3>1. status' = "HEADERS" /\ parsing' /\ method' = m.start /\ buffer' = EraseRead(AfterLine(buffer))
      BY <1>1, <1>5, <1>6, <2>2 DEF ParseStartLine, GoOn
    <3>2. HeadRead(m, 0)'
      <4>1. \A i \in 1..0 : FALSE
        OBVIOUS
      <4>2. FirstLength(m, 0, headers.cl)'
        BY <1>1, <1>3, <4>1 DEF FirstLength
      <4>3. FirstCoding(m.headers, 0, headers.te)'
        <5>1. FirstCoding(m.headers, 0, headers'.te)
          BY <1>1, <1>3, NoHeaderCoding
        <5> QED
          BY <5>1 DEF FirstCoding
      <4> QED
        BY <1>1, <1>3, <2>2, <3>1, <4>1, <4>2, <4>3 DEF HeadRead
    <3>3. At(buffer, h + 3)'
      BY <1>1, <1>6, <3>1, AtNext
    <3>4. Skip(m, "start") + 3 * 0 + 3 = h + 3 /\ 0 \in 0..Len(m.headers)
      BY <1>5, SegGives
    <3>5. AtHeaders(m)'
      BY <1>4, <3>1, <3>2, <3>3, <3>4 DEF AtHeaders, Waiting
    <3> QED
      BY <3>1, <3>5 DEF Reads
  <2> QED
    BY <2>1, <2>2
<1>7. ASSUME Line(buffer) = <<>>,
             \/ At(AfterLine(buffer), 0) /\ delivered < Len(stream)
             \/ m.blank = "start" /\ Behind(AfterLine(buffer), 0)
      PROVE  Reads(m, o)'
  <2>1. buffer' = AfterLine(buffer) /\ status' = "START_LINE"
    BY <1>7 DEF ParseStartLine, Return
  <2>2. (At(buffer, 0)' /\ delivered < Len(stream)) \/ (m.blank = "start" /\ Behind(buffer, 0)')
    BY <1>1, <1>7, <2>1, AtNext
  <2>3. AtStart(m)'
    BY <1>1, <1>3, <1>4, <2>2 DEF AtStart, Waiting
  <2> QED
    BY <2>1, <2>3 DEF Reads
<1>8. CASE At(buffer, 0) /\ h = 0
  <2>1. 0 + Size(buffer) = delivered /\ Size(buffer) \in Nat /\ Len(stream) \in Nat
    BY <1>8, AtBytes, SegGives
  <2>2. TextLineAt(stream, 0, "start") /\ 0 + 1 = h + 1 /\ 0 + 3 = h + 3
    BY <1>5, <1>8
  <2>3. \/ /\ Size(buffer) < 3 /\ Line(buffer) = <<>> /\ AfterLine(buffer) = buffer
        \/ /\ Size(buffer) >= 3 /\ Line(buffer) # <<>> /\ Line(buffer)[1] = stream[h + 1]
           /\ At(EraseRead(AfterLine(buffer)), h + 3)
    BY <1>8, <2>2, TakeLine
  <2>4. Size(buffer) < 3 => delivered < Len(stream)
    BY <1>5, <1>8, <2>1
  <2> QED
    BY <1>6, <1>7, <1>8, <2>3, <2>4
<1>9. CASE At(buffer, 0) /\ h = 2
  <2>1. 0 + Size(buffer) = delivered /\ Size(buffer) \in Nat /\ Len(stream) \in Nat
    BY <1>9, AtBytes, SegGives
  <2>2. m.blank = "start" /\ EmptyLineAt(stream, 0)
    BY <1>5, <1>9
  <2>3. \/ Size(buffer) < 2 /\ Line(buffer) = <<>> /\ AfterLine(buffer) = buffer
        \/ Size(buffer) >= 2 /\ Line(buffer) = <<>> /\ AfterLine(buffer) = SetReadPos(buffer, 2)
    BY <1>9, <2>2, TakeEmptyLine
  <2>4. Size(buffer) < 2 => delivered < Len(stream)
    BY <1>5, <1>9, <2>1
  <2>5. Size(buffer) >= 2 => Behind(SetReadPos(buffer, 2), 0)
    BY <1>9, <2>2, EmptyLineStays
  <2> QED
    BY <1>7, <1>9, <2>2, <2>3, <2>4, <2>5
<1>10. CASE m.blank = "start" /\ Behind(buffer, 0)
  <2>1. h = 2 /\ TextLineAt(stream, 0 + 2, "start") /\ 0 + 2 + 1 = h + 1 /\ 0 + 5 = h + 3
    BY <1>5, <1>10 DEF Skip
  <2>2. \/ Size(buffer) < 5 /\ Line(buffer) = <<>> /\ AfterLine(buffer) = buffer
        \/ /\ Size(buffer) >= 5 /\ Line(buffer) # <<>> /\ Line(buffer)[1] = stream[h + 1]
           /\ At(EraseRead(AfterLine(buffer)), h + 3)
    BY <1>10, <2>1, TakeNextLine
  <2> QED
    BY <1>6, <1>7, <1>10, <2>2
<1> QED
  BY <1>2, <1>5, <1>8, <1>9, <1>10 DEF AtStart

\* One more header: the first Content-Length stays the first.
LEMMA FirstLengthGrows ==
  ASSUME NEW m \in Message, NEW k \in Nat, k < Len(m.headers), NEW v \in Int, NEW x,
         FirstLength(m, k, v), x = m.headers[k + 1], x # NoColon
  PROVE  FirstLength(m, k + 1, IF x \in {Chunked, NotChunked} THEN v ELSE First(v, x))
<1>1. /\ Len(m.headers) \in Nat
      /\ \A i \in 1..Len(m.headers) : m.headers[i] \in {NoColon, Chunked, NotChunked, NotDigits, Other} \cup Nat
  BY MessageParts
<1>2. k + 1 \in 1..Len(m.headers)
  BY <1>1
<1>3. x \in {Chunked, NotChunked, NotDigits, Other} \cup Nat
  BY <1>1, <1>2
<1>4. IsLength(x) <=> x \notin {Chunked, NotChunked, Other}
  BY <1>3 DEF IsLength, Chunked, NotChunked, NotDigits, Other
<1>5. ~IsLength(Other)
  BY DEF IsLength, NotDigits, Other
<1>6. \A i \in 1..(k + 1) : i \in 1..k \/ i = k + 1
  OBVIOUS
<1>7. \A i \in 1..k : i \in 1..(k + 1)
  OBVIOUS
<1>8. (k + 1) - 1 = k /\ k + 1 \in 1..(k + 1)
  OBVIOUS
<1>9. CASE v = Other /\ \A i \in 1..k : ~IsLength(m.headers[i])
  <2>1. CASE IsLength(x)
    <3>1. \E i \in 1..(k + 1) : /\ IsLength(m.headers[i]) /\ x = m.headers[i]
                                /\ \A j \in 1..(i - 1) : ~IsLength(m.headers[j])
      BY <1>8, <1>9, <2>1
    <3> QED
      BY <1>4, <1>9, <2>1, <3>1 DEF FirstLength, First
  <2>2. CASE ~IsLength(x)
    <3>1. FirstLength(m, k + 1, v)
      BY <1>6, <1>9, <2>2 DEF FirstLength
    <3> QED
      BY <1>4, <1>9, <2>2, <3>1 DEF First
  <2> QED
    BY <2>1, <2>2
<1>10. CASE \E i \in 1..k : /\ IsLength(m.headers[i]) /\ v = m.headers[i]
                            /\ \A j \in 1..(i - 1) : ~IsLength(m.headers[j])
  <2>1. v # Other
    BY <1>5, <1>10
  <2>2. FirstLength(m, k + 1, v)
    BY <1>7, <1>10 DEF FirstLength
  <2> QED
    BY <2>1, <2>2 DEF First
<1> QED
  BY <1>9, <1>10 DEF FirstLength

LEMMA HeadGrows ==
  ASSUME NEW m \in Message, NEW k \in Nat, k < Len(m.headers), HeadRead(m, k),
         headers \in [te : {Chunked, NotChunked, Other}, cl : Int], method' = method,
         m.headers[k + 1] # NoColon, headers' = AddHeader(headers, m.headers[k + 1])
  PROVE  HeadRead(m, k + 1)'
<1>1. PICK x : x = m.headers[k + 1]
  OBVIOUS
<1>2. /\ headers'.te = IF x \in {Chunked, NotChunked} THEN First(headers.te, x) ELSE headers.te
      /\ headers'.cl = IF x \in {Chunked, NotChunked} THEN headers.cl ELSE First(headers.cl, x)
  BY <1>1, HeaderAdds
<1>3. FirstLength(m, k, headers.cl) /\ headers.cl \in Int
  BY DEF HeadRead
<1>4. FirstLength(m, k + 1, headers'.cl)
  BY <1>1, <1>2, <1>3, FirstLengthGrows
<1>5. \A i \in 1..(k + 1) : i \in 1..k \/ i = k + 1
  OBVIOUS
<1>6. k + 1 \in 1..(k + 1) /\ \A i \in 1..k : i \in 1..(k + 1)
  OBVIOUS
<1>7. FirstCoding(m.headers, k + 1, headers'.te)
  BY <1>1, <1>2, FirstCodingGrows DEF HeadRead
<1>8. FirstCoding(m.headers, k + 1, headers.te)'
  BY <1>7 DEF FirstCoding
<1>9. \A i \in 1..(k + 1) : m.headers[i] # NoColon
  BY <1>5 DEF HeadRead
<1>10. method' = m.start /\ m.start # Invalid
  BY DEF HeadRead
<1>11. FirstLength(m, k + 1, headers.cl)'
  BY <1>4 DEF FirstLength
<1> QED
  BY <1>8, <1>9, <1>10, <1>11 DEF HeadRead

\* Where the headers stand.
LEMMA HeadersStand ==
  ASSUME NEW m, NEW o, SegPremises(m, o), NEW k \in 0..Len(m.headers)
  PROVE  \E p \in Nat :
           /\ p = Skip(m, "start") + 3 * k + 3
           /\ k < Len(m.headers) =>
                /\ TextLineAt(stream, p, "header") /\ p + 3 <= Len(stream)
                /\ stream[p + 1].kind = "header" /\ stream[p + 1].val = m.headers[k + 1]
                /\ p + 3 = Skip(m, "start") + 3 * (k + 1) + 3
           /\ k = Len(m.headers) =>
                /\ EmptyLineAt(stream, p) /\ p + 2 <= Len(stream) /\ p + 2 = BodyAt(m)
<1>1. PICK h \in Nat, n \in Nat : h = Skip(m, "start") /\ n = Len(m.headers)
  BY SegGives
<1>2. PICK p \in Nat : p = h + 3 * k + 3
  BY <1>1
<1>3. HeadLaid(m, stream)
  BY SegGives
<1>4. CASE k < n
  <2>1. k + 1 \in 1..n /\ h + 3 * (k + 1) = p /\ p + 3 = h + 3 * (k + 1) + 3
    BY <1>1, <1>2, <1>4
  <2>2. TextLineAt(stream, h + 3 * (k + 1), "header") /\ stream[h + 3 * (k + 1) + 1].val = m.headers[k + 1]
    BY <1>1, <1>3, <2>1 DEF HeadLaid
  <2>3. TextLineAt(stream, p, "header") /\ stream[p + 1].val = m.headers[k + 1]
    BY <2>1, <2>2
  <2>4. p + 3 <= Len(stream) /\ stream[p + 1].kind = "header"
    BY <2>3 DEF TextLineAt
  <2>5. k # Len(m.headers) /\ p = Skip(m, "start") + 3 * k + 3
        /\ p + 3 = Skip(m, "start") + 3 * (k + 1) + 3
    BY <1>1, <1>2, <1>4, <2>1
  <2> QED
    BY <2>3, <2>4, <2>5
<1>5. CASE k = n
  <2>1. EmptyLineAt(stream, h + 3 * n + 3)
    BY <1>1, <1>3 DEF HeadLaid
  <2>2. EmptyLineAt(stream, p)
    BY <1>2, <1>5, <2>1
  <2>3. p + 2 = h + 3 * n + 5
    BY <1>1, <1>2, <1>5
  <2>4. p + 2 = BodyAt(m)
    BY <1>1, <2>3 DEF BodyAt
  <2> QED
    BY SMTT(30), <1>1, <1>2, <1>5, <2>2, <2>4 DEF EmptyLineAt
<1> QED
  BY <1>1, <1>4, <1>5

LEMMA SegHeaderLine ==
  ASSUME NEW m, NEW o, SegPremises(m, o), ParseHeaders
  PROVE  Reads(m, o)'
<1>1. /\ status = "HEADERS" /\ parsing /\ UNCHANGED peerVars /\ stream' = stream
      /\ delivered' = delivered /\ tempBody' = tempBody /\ chunked_status' = chunked_status
      /\ chunkBodyRead_size' = chunkBodyRead_size /\ method' = method
  BY DEF ParseHeaders, peerVars, chunkVars
<1>2. AtHeaders(m)
  BY <1>1, SegGives DEF Reads
<1>3. NoBody
  BY <1>2 DEF AtHeaders
<1>4. NoBody'
  BY <1>1, <1>3 DEF NoBody
<1>5. PICK n \in Nat : n = Len(m.headers)
  BY SegGives
<1>6. PICK k \in 0..n : At(buffer, Skip(m, "start") + 3 * k + 3) /\ HeadRead(m, k)
  BY <1>2, <1>5 DEF AtHeaders
<1>7. PICK p \in Nat :
        /\ p = Skip(m, "start") + 3 * k + 3
        /\ k < n =>
             /\ TextLineAt(stream, p, "header") /\ p + 3 <= Len(stream)
             /\ stream[p + 1].kind = "header" /\ stream[p + 1].val = m.headers[k + 1]
             /\ p + 3 = Skip(m, "start") + 3 * (k + 1) + 3
        /\ k = n => EmptyLineAt(stream, p) /\ p + 2 <= Len(stream) /\ p + 2 = BodyAt(m)
  <2>1. k \in 0..Len(m.headers)
    BY <1>5, Zenon
  <2>2. \E p \in Nat :
          /\ p = Skip(m, "start") + 3 * k + 3
          /\ k < Len(m.headers) =>
               /\ TextLineAt(stream, p, "header") /\ p + 3 <= Len(stream)
               /\ stream[p + 1].kind = "header" /\ stream[p + 1].val = m.headers[k + 1]
               /\ p + 3 = Skip(m, "start") + 3 * (k + 1) + 3
          /\ k = Len(m.headers) => EmptyLineAt(stream, p) /\ p + 2 <= Len(stream) /\ p + 2 = BodyAt(m)
    BY <2>1, HeadersStand, Zenon
  <2> QED
    BY <1>5, <2>2, Zenon
<1>8. At(buffer, p) /\ p + Size(buffer) = delivered /\ Size(buffer) \in Nat /\ Len(stream) \in Nat
      /\ delivered \in Nat
  BY <1>6, <1>7, AtBytes, SegGives
<1>9. ASSUME Line(buffer) = <<>>, AfterLine(buffer) = buffer, ~CheckHeaderEnd(buffer),
             delivered < Len(stream)
      PROVE  Reads(m, o)'
  <2>1. buffer' = buffer /\ status' = "HEADERS" /\ headers' = headers
    BY <1>9 DEF ParseHeaders, Return
  <2>2. At(buffer, p)'
    BY <1>1, <1>8, <2>1, AtNext
  <2>3. HeadRead(m, k)'
    BY <1>1, <1>6, <2>1 DEF HeadRead, FirstLength
  <2>4. Waiting'
    BY <1>1, <1>9 DEF Waiting
  <2>5. AtHeaders(m)'
    BY <1>4, <1>5, <1>6, <1>7, <2>2, <2>3, <2>4 DEF AtHeaders
  <2> QED
    BY <2>1, <2>5 DEF Reads
<1>10. CASE k < n
  <2>1. \/ /\ Size(buffer) < 3 /\ Line(buffer) = <<>> /\ AfterLine(buffer) = buffer
           /\ ~CheckHeaderEnd(buffer)
        \/ /\ Size(buffer) >= 3 /\ Line(buffer) # <<>> /\ Line(buffer)[1] = stream[p + 1]
           /\ At(EraseRead(AfterLine(buffer)), p + 3)
    BY <1>7, <1>8, <1>10, TakeLine
  <2>2. CASE Size(buffer) < 3 /\ Line(buffer) = <<>> /\ AfterLine(buffer) = buffer /\ ~CheckHeaderEnd(buffer)
    <3>1. delivered < Len(stream)
      BY <1>7, <1>8, <1>10, <2>2
    <3> QED
      BY <1>9, <2>2, <3>1
  <2>3. CASE /\ Line(buffer) # <<>> /\ Line(buffer)[1] = stream[p + 1]
             /\ At(EraseRead(AfterLine(buffer)), p + 3) /\ m.headers[k + 1] = NoColon
    <3>1. status' = "BAD_REQUEST"
      BY <1>7, <1>10, <2>3 DEF ParseHeaders, Return
    <3>2. k + 1 \in 1..n
      BY <1>10
    <3>3. Outcome(m) = "BAD_REQUEST"
      BY <1>5, <2>3, <3>2 DEF Outcome
    <3>4. AtEnd(m)'
      BY <3>1, <3>3 DEF AtEnd
    <3> QED
      BY <3>1, <3>4 DEF Reads
  <2>4. CASE /\ Line(buffer) # <<>> /\ Line(buffer)[1] = stream[p + 1]
             /\ At(EraseRead(AfterLine(buffer)), p + 3) /\ m.headers[k + 1] # NoColon
    <3>1. /\ buffer' = EraseRead(AfterLine(buffer)) /\ status' = "HEADERS" /\ parsing'
          /\ headers' = AddHeader(headers, m.headers[k + 1])
      BY <1>1, <1>7, <1>10, <2>4 DEF ParseHeaders, GoOn
    <3>2. headers \in [te : {Chunked, NotChunked, Other}, cl : Int] /\ m \in Message
      BY SegGives DEF TypeInv, TypeOK
    <3>3. HeadRead(m, k + 1)'
      BY <1>1, <1>5, <1>6, <1>10, <2>4, <3>1, <3>2, HeadGrows
    <3>4. At(buffer, p + 3)'
      BY <1>1, <2>4, <3>1, AtNext
    <3>5. k + 1 \in 0..n
      BY <1>10
    <3>6. Waiting'
      BY <3>1 DEF Waiting
    <3>7. AtHeaders(m)'
      BY <1>4, <1>5, <1>7, <1>10, <3>3, <3>4, <3>5, <3>6 DEF AtHeaders
    <3> QED
      BY <3>1, <3>7 DEF Reads
  <2> QED
    BY <2>1, <2>2, <2>3, <2>4
<1>11. CASE k = n
  <2>1. \/ /\ Size(buffer) < 2 /\ Line(buffer) = <<>> /\ AfterLine(buffer) = buffer
           /\ ~CheckHeaderEnd(buffer)
        \/ /\ Size(buffer) >= 2 /\ Line(buffer) = <<>> /\ CheckHeaderEnd(AfterLine(buffer))
           /\ At(EraseRead(AfterLine(buffer)), p + 2)
    BY <1>7, <1>8, <1>11, TakeEmptyLine
  <2>2. CASE Size(buffer) < 2 /\ Line(buffer) = <<>> /\ AfterLine(buffer) = buffer /\ ~CheckHeaderEnd(buffer)
    <3>1. delivered < Len(stream)
      BY <1>7, <1>8, <1>11, <2>2
    <3> QED
      BY <1>9, <2>2, <3>1
  <2>3. CASE /\ Line(buffer) = <<>> /\ CheckHeaderEnd(AfterLine(buffer))
             /\ At(EraseRead(AfterLine(buffer)), p + 2)
    <3>1. buffer' = EraseRead(AfterLine(buffer)) /\ status' = "PREBODY" /\ parsing' /\ headers' = headers
      BY <1>1, <2>3 DEF ParseHeaders, GoOn
    <3>2. At(buffer, p + 2)'
      BY <1>1, <2>3, <3>1, AtNext
    <3>3. HeadRead(m, n)'
      BY <1>1, <1>6, <1>11, <3>1 DEF HeadRead, FirstLength, FirstCoding
    <3>4. AtBodyKind(m)'
      BY <1>4, <1>5, <1>7, <1>11, <3>1, <3>2, <3>3 DEF AtBodyKind
    <3> QED
      BY <3>1, <3>4 DEF Reads
  <2> QED
    BY <2>1, <2>2, <2>3
<1> QED
  BY <1>6, <1>10, <1>11

\* What the headers say of the request.
LEMMA HeadSays ==
  ASSUME NEW m \in Message, HeadRead(m, Len(m.headers))
  PROVE  /\ method = m.start
         /\ headers.te = Chunked <=> IsChunked(m)
         /\ m.start \notin BodyMethods => Outcome(m) = "COMPLETE"
         /\ m.start \in BodyMethods /\ IsChunked(m) => ReadsChunks(m)
         /\ m.start \in BodyMethods /\ ~IsChunked(m) =>
              /\ headers.cl = Other \/ Rejects(headers.cl) => Outcome(m) = "BAD_REQUEST"
              /\ headers.cl # Other /\ ~Rejects(headers.cl) =>
                   headers.cl = NotDigits /\ Outcome(m) = "COMPLETE"
<1>1. PICK n \in Nat : n = Len(m.headers)
  BY MessageParts
<1>2. PICK v : v = headers.cl
  OBVIOUS
<1>3. /\ method = m.start /\ m.start # Invalid /\ FirstLength(m, n, v)
      /\ \A i \in 1..n : m.headers[i] # NoColon
      /\ headers.te = Chunked <=> IsChunked(m)
  BY <1>1, <1>2 DEF HeadRead, FirstCoding, IsChunked
<1>4. \A i \in 1..n : m.headers[i] \in {NoColon, Chunked, NotChunked, NotDigits, Other} \cup Nat
  BY <1>1, MessageParts
<1>5. m.start \notin BodyMethods => Outcome(m) = "COMPLETE"
  BY <1>1, <1>3 DEF Outcome
<1>6. m.start \in BodyMethods /\ IsChunked(m) => ReadsChunks(m)
  <2>1. m.start \in BodyMethods /\ IsChunked(m)
          => Outcome(m) = IF m.trailer THEN "CHUNK" ELSE "COMPLETE"
    BY Zenon, <1>1, <1>3 DEF Outcome
  <2> QED
    BY Zenon, <2>1 DEF ReadsChunks
<1> DEFINE Digitless == \E i \in 1..n : m.headers[i] = NotDigits /\ \A j \in 1..(i - 1) : ~IsLength(m.headers[j])
<1>7. m.start \in BodyMethods /\ ~IsChunked(m) =>
        Outcome(m) = IF Digitless THEN "COMPLETE" ELSE "BAD_REQUEST"
  BY Zenon, <1>1, <1>3 DEF Outcome
<1>8. ~IsLength(Other) /\ IsLength(NotDigits) /\ ~(NotDigits >= 0) /\ NotDigits # Other
  BY DEF IsLength, NotDigits, Other
<1>9. CASE v = Other /\ \A i \in 1..n : ~IsLength(m.headers[i])
  <2>1. ~Digitless
    BY <1>8, <1>9
  <2> HIDE DEF Digitless
  <2> QED
    BY <1>2, <1>3, <1>5, <1>6, <1>7, <1>9, <2>1
<1>10. CASE \E i \in 1..n : /\ IsLength(m.headers[i]) /\ v = m.headers[i]
                            /\ \A j \in 1..(i - 1) : ~IsLength(m.headers[j])
  <2>1. PICK i \in 1..n : /\ IsLength(m.headers[i]) /\ v = m.headers[i]
                          /\ \A j \in 1..(i - 1) : ~IsLength(m.headers[j])
    BY <1>10
  <2>2. v # Other /\ (v >= 0 \/ v = NotDigits)
    BY <1>8, <2>1 DEF IsLength
  <2>3. v = NotDigits => Digitless
    BY <2>1
  <2>4. ASSUME v >= 0, Digitless PROVE FALSE
    <3>1. PICK k \in 1..n : m.headers[k] = NotDigits /\ \A j \in 1..(k - 1) : ~IsLength(m.headers[j])
      BY <2>4
    <3>2. k # i /\ k \notin 1..(i - 1) /\ i \notin 1..(k - 1)
      BY <1>8, <2>1, <2>4, <3>1
    <3>3. \A x, y \in 1..n : x = y \/ x \in 1..(y - 1) \/ y \in 1..(x - 1)
      OBVIOUS
    <3> QED
      BY <3>2, <3>3
  <2>5. Rejects(v) <=> v >= 0
    BY DEF Rejects
  <2> HIDE DEF Digitless
  <2> QED
    BY <1>2, <1>3, <1>5, <1>6, <1>7, <1>8, <2>2, <2>3, <2>4, <2>5
<1> QED
  BY <1>3, <1>9, <1>10 DEF FirstLength

LEMMA SegBodyKind ==
  ASSUME NEW m, NEW o, SegPremises(m, o), CheckChunked
  PROVE  Reads(m, o)'
<1>1. /\ status = "PREBODY" /\ parsing /\ UNCHANGED peerVars /\ stream' = stream
      /\ delivered' = delivered /\ tempBody' = tempBody /\ chunked_status' = chunked_status
      /\ chunkBodyRead_size' = chunkBodyRead_size /\ method' = method /\ buffer' = buffer
      /\ headers' = headers
  BY DEF CheckChunked, peerVars, chunkVars
<1>2. AtBodyKind(m) /\ m \in Message
  BY <1>1, SegGives DEF Reads
<1>3. NoBody /\ At(buffer, BodyAt(m)) /\ HeadRead(m, Len(m.headers))
  BY <1>2 DEF AtBodyKind
<1>4. /\ method = m.start
      /\ headers.te = Chunked <=> IsChunked(m)
      /\ m.start \notin BodyMethods => Outcome(m) = "COMPLETE"
      /\ m.start \in BodyMethods /\ IsChunked(m) => ReadsChunks(m)
      /\ m.start \in BodyMethods /\ ~IsChunked(m) =>
           /\ headers.cl = Other \/ Rejects(headers.cl) => Outcome(m) = "BAD_REQUEST"
           /\ headers.cl # Other /\ ~Rejects(headers.cl) =>
                headers.cl = NotDigits /\ Outcome(m) = "COMPLETE"
  BY <1>2, <1>3, HeadSays
<1>5. CASE method \notin BodyMethods
  <2>1. status' = "COMPLETE"
    BY <1>5 DEF CheckChunked, Return
  <2>2. AtEnd(m)'
    BY <1>4, <1>5, <2>1 DEF AtEnd
  <2> QED
    BY <2>1, <2>2 DEF Reads
<1>6. CASE method \in BodyMethods /\ headers.te = Chunked
  <2>1. status' = "CHUNK" /\ parsing'
    BY <1>1, <1>6 DEF CheckChunked, GoOn
  <2>2. IsChunked(m) /\ ReadsChunks(m)
    BY <1>4, <1>6
  <2>3. BodyLaid(m, stream, o)
    BY <2>2, SegGives
  <2>4. At(buffer, o[1]) /\ 1 \in 1..(Len(m.chunks) + 1)
    BY <1>3, <2>3, SegGives DEF BodyLaid
  <2>5. DataRead(m, 1, 0)'
    <3>1. FirstBytes(m.chunks)[1] = 1
      BY <1>2, MessageParts, FirstBytesAre
    <3>2. tempBody' = <<>> /\ Bytes(1, 0) = <<>>
      BY <1>1, <1>3 DEF NoBody, Bytes
    <3>3. 1 - 1 + 0 = 0 /\ 1 \in Nat \ {0}
      OBVIOUS
    <3> QED
      BY <3>1, <3>2, <3>3 DEF DataRead
  <2>6. At(buffer, o[1])'
    BY <1>1, <2>4, AtNext
  <2>7. AtSize(m, o)'
    <3>1. ReadsChunks(m)' /\ ~chunked_status' /\ chunkBodyRead_size' = 0 /\ Waiting'
      BY <1>1, <1>3, <2>1, <2>2 DEF NoBody, Waiting, ReadsChunks
    <3> QED
      BY <2>4, <2>5, <2>6, <3>1 DEF AtSize
  <2> QED
    BY <2>1, <2>7 DEF Reads
<1>7. CASE method \in BodyMethods /\ headers.te # Chunked /\ (headers.cl = Other \/ Rejects(headers.cl))
  <2>1. status' = "BAD_REQUEST"
    BY <1>7 DEF CheckChunked, Return
  <2>2. AtEnd(m)'
    BY <1>4, <1>7, <2>1 DEF AtEnd
  <2> QED
    BY <2>1, <2>2 DEF Reads
<1>8. CASE method \in BodyMethods /\ headers.te # Chunked /\ headers.cl # Other /\ ~Rejects(headers.cl)
  <2>1. status' = "BODY" /\ parsing'
    BY <1>1, <1>8 DEF CheckChunked, GoOn
  <2>2. AtBody(m)'
    BY <1>1, <1>4, <1>8, <2>1 DEF AtBody
  <2> QED
    BY <2>1, <2>2 DEF Reads
<1> QED
  BY <1>5, <1>6, <1>7, <1>8

LEMMA SegBody ==
  ASSUME NEW m, NEW o, SegPremises(m, o), ParseBodyContentLen
  PROVE  Reads(m, o)'
<1>1. AtBody(m)
  BY SegGives DEF Reads, ParseBodyContentLen
<1>2. headers.cl = NotDigits /\ Outcome(m) = "COMPLETE" /\ ~(m.start \in BodyMethods /\ IsChunked(m))
  BY <1>1 DEF AtBody
<1>3. ContentLen = 0
  BY <1>2 DEF ContentLen, NotDigits
<1>4. BytesRemaining(buffer) + 1 \in Int
  <2>1. Size(buffer) - buffer.rpos \in Int
    BY SegGives, BufferFields
  <2>2. BytesRemaining(buffer) \in 0..(Word - 1)
    BY <2>1, Wraps DEF BytesRemaining
  <2> QED
    BY <2>2
<1>5. ~(ContentLen > (BytesRemaining(buffer) + 1) % Word)
  <2>1. PICK x \in Int : x = BytesRemaining(buffer) + 1
    BY <1>4
  <2>2. x % Word \in 0..(Word - 1)
    BY Wraps
  <2>3. ~(0 > x % Word)
    BY <2>2
  <2> QED
    BY <1>3, <2>1, <2>3
<1>6. status' = "COMPLETE"
  BY <1>5 DEF ParseBodyContentLen, Return
<1>7. AtEnd(m)'
  BY <1>2, <1>6 DEF AtEnd
<1> QED
  BY <1>6, <1>7 DEF Reads

\* Where the chunk sizes stand.
LEMMA SizeStands ==
  ASSUME NEW m, NEW o, SegPremises(m, o), IsChunked(m), NEW c \in 1..(Len(m.chunks) + 1)
  PROVE  /\ o[c] \in Nat
         /\ \E q \in Nat :
              /\ q = o[c] \/ (q = o[c] + 2 /\ c = Len(m.chunks) + 1 /\ m.blank = "size"
                              /\ EmptyLineAt(stream, o[c]))
              /\ TextLineAt(stream, q, "size") /\ q + 3 <= Len(stream) /\ stream[q + 1].kind = "size"
              /\ c <= Len(m.chunks) => q = o[c] /\ stream[q + 1].val = m.chunks[c]
              /\ c = Len(m.chunks) + 1 => q = o[c] + Skip(m, "size") /\ stream[q + 1].val = 0
<1>1. PICK l \in Nat : l = Len(m.chunks)
  BY SegGives
<1>2. BodyLaid(m, stream, o)
  BY SegGives
<1>3. PICK p : p = o[c]
  OBVIOUS
<1>4. p \in Nat
  BY <1>1, <1>2, <1>3 DEF BodyLaid
<1>5. CASE c <= l
  <2>1. c \in 1..l /\ c # l + 1
    BY <1>1, <1>5
  <2>2. ChunkLaid(stream, o[c], m.chunks[c], FirstBytes(m.chunks)[c], o[c + 1])
    BY <1>1, <1>2, <2>1 DEF BodyLaid
  <2>3. TextLineAt(stream, p, "size") /\ stream[p + 1].val = m.chunks[c]
    BY <1>3, <2>2 DEF ChunkLaid
  <2>4. p + 3 <= Len(stream) /\ stream[p + 1].kind = "size"
    BY <2>3 DEF TextLineAt
  <2> QED
    BY <1>1, <1>3, <1>4, <2>1, <2>3, <2>4
<1>6. CASE c = l + 1
  <2>1. LastLaid(m, stream, p)
    BY <1>1, <1>2, <1>3, <1>6 DEF BodyLaid
  <2>2. PICK h \in {0, 2} : h = Skip(m, "size")
    BY DEF Skip
  <2>3. PICK q \in Nat : q = p + h
    BY <1>4
  <2>4. /\ m.blank = "size" => EmptyLineAt(stream, p)
        /\ TextLineAt(stream, q, "size") /\ stream[q + 1].val = 0
    BY <2>1, <2>2, <2>3 DEF LastLaid
  <2>5. q + 3 <= Len(stream) /\ stream[q + 1].kind = "size"
    BY <2>4 DEF TextLineAt
  <2>6. q = p \/ (q = p + 2 /\ m.blank = "size")
    BY <1>4, <2>2, <2>3 DEF Skip
  <2>7. ~(c <= l)
    BY <1>1, <1>6
  <2> QED
    BY <1>1, <1>3, <1>4, <1>6, <2>2, <2>3, <2>4, <2>5, <2>6, <2>7
<1> QED
  BY <1>1, <1>5, <1>6

LEMMA SegChunkSize ==
  ASSUME NEW m, NEW o, SegPremises(m, o), ParseChunkSize
  PROVE  Reads(m, o)'
<1>1. /\ status = "CHUNK" /\ parsing /\ ~chunked_status /\ UNCHANGED peerVars /\ stream' = stream
      /\ delivered' = delivered /\ tempBody' = tempBody /\ method' = method
      /\ chunkBodyRead_size' = chunkBodyRead_size
  BY DEF ParseChunkSize, peerVars
<1>2. AtSize(m, o)
  BY <1>1, SegGives DEF Reads, AtData, AtLast
<1>3. ReadsChunks(m) /\ IsChunked(m) /\ chunkBodyRead_size = 0
  BY <1>2 DEF AtSize, ReadsChunks
<1>4. PICK l \in Nat : l = Len(m.chunks)
  BY SegGives
<1>5. PICK c \in 1..(l + 1) :
        /\ DataRead(m, c, 0)
        /\ \/ At(buffer, o[c]) /\ Waiting
           \/ c = l + 1 /\ m.blank = "size" /\ Behind(buffer, o[c])
  BY <1>2, <1>4 DEF AtSize
<1>6. PICK p \in Nat, q \in Nat :
        /\ p = o[c]
        /\ q = p \/ (q = p + 2 /\ c = l + 1 /\ m.blank = "size" /\ EmptyLineAt(stream, p))
        /\ TextLineAt(stream, q, "size") /\ q + 3 <= Len(stream) /\ stream[q + 1].kind = "size"
        /\ c <= l => q = p /\ stream[q + 1].val = m.chunks[c]
        /\ c = l + 1 => q = p + Skip(m, "size") /\ stream[q + 1].val = 0
  BY <1>3, <1>4, <1>5, SizeStands
<1>7. ReadsChunks(m)' /\ DataRead(m, c, 0)'
  BY <1>1, <1>3, <1>5 DEF ReadsChunks, DataRead
<1>8. ASSUME Line(buffer) # <<>>, Line(buffer)[1] = stream[q + 1], At(EraseRead(AfterLine(buffer)), q + 3)
      PROVE  Reads(m, o)'
  <2>1. /\ buffer' = EraseRead(AfterLine(buffer)) /\ status' = "CHUNK" /\ chunked_status' /\ parsing'
        /\ chunk_size' = stream[q + 1].val
    BY <1>1, <1>6, <1>8 DEF ParseChunkSize, GoOn, Strtol
  <2>2. At(buffer, q + 3)' /\ Waiting'
    BY <1>1, <1>8, <2>1, AtNext DEF Waiting
  <2>3. CASE c <= l
    <3>1. c \in 1..l /\ q = p /\ chunk_size' = m.chunks[c]
      BY <1>4, <1>6, <2>1, <2>3
    <3>2. 0 \in 0..Room(chunk_size') /\ p + 3 + 0 = q + 3
      <4>1. chunk_size' \in Int
        <5>1. m \in Message
          BY SegGives
        <5> QED
          BY <1>4, <3>1, <5>1, MessageParts
      <4>2. Room(chunk_size') \in Nat
        BY <4>1 DEF Room
      <4> QED
        BY <1>6, <3>1, <4>2
    <3>3. At(buffer, o[c] + 3 + chunkBodyRead_size)'
      BY <1>1, <1>3, <1>6, <2>2, <3>2
    <3>4. chunkBodyRead_size' = 0
      BY <1>1, <1>3
    <3>5. chunkBodyRead_size' \in 0..Room(chunk_size)' /\ DataRead(m, c, chunkBodyRead_size)'
      BY <1>7, <3>2, <3>4 DEF DataRead, Room
    <3>6. AtData(m, o)'
      BY <1>4, <1>7, <2>1, <2>2, <3>1, <3>3, <3>5 DEF AtData
    <3> QED
      BY <2>1, <3>6 DEF Reads
  <2>4. CASE c = l + 1
    <3>1. chunk_size' = 0 /\ chunkBodyRead_size' = 0 /\ q = o[l + 1] + Skip(m, "size")
      BY <1>1, <1>3, <1>6, <2>1, <2>4
    <3>2. BehindLast(m, o[l + 1] + Skip(m, "size") + 3)'
      BY <2>2, <3>1 DEF BehindLast
    <3>3. AtLast(m, o)'
      BY <1>4, <1>7, <2>1, <2>4, <3>1, <3>2 DEF AtLast
    <3> QED
      BY <2>1, <3>3 DEF Reads
  <2> QED
    BY <1>4, <2>3, <2>4
<1>9. ASSUME Line(buffer) = <<>>,
             \/ At(AfterLine(buffer), p) /\ delivered < Len(stream)
             \/ c = l + 1 /\ m.blank = "size" /\ Behind(AfterLine(buffer), p)
      PROVE  Reads(m, o)'
  <2>1. buffer' = AfterLine(buffer) /\ status' = "CHUNK" /\ chunked_status' = chunked_status
    BY <1>9 DEF ParseChunkSize, Return
  <2>2. \/ At(buffer, p)' /\ delivered < Len(stream)
        \/ c = l + 1 /\ m.blank = "size" /\ Behind(buffer, p)'
    BY <1>1, <1>9, <2>1, AtNext
  <2>3. \/ At(buffer, o[c])' /\ Waiting'
        \/ c = l + 1 /\ m.blank = "size" /\ Behind(buffer, o[c])'
    BY <1>1, <1>6, <2>2 DEF Waiting
  <2>4. AtSize(m, o)'
    BY <1>1, <1>3, <1>4, <1>7, <2>1, <2>3 DEF AtSize
  <2> QED
    BY <2>1, <2>4 DEF Reads
<1>10. CASE At(buffer, p) /\ q = p
  <2>1. p + Size(buffer) = delivered /\ Size(buffer) \in Nat /\ Len(stream) \in Nat
    BY <1>10, AtBytes, SegGives
  <2>2. TextLineAt(stream, p, "size")
    BY <1>6, <1>10
  <2>3. \/ Size(buffer) < 3 /\ Line(buffer) = <<>> /\ AfterLine(buffer) = buffer
        \/ /\ Size(buffer) >= 3 /\ Line(buffer) # <<>> /\ Line(buffer)[1] = stream[q + 1]
           /\ At(EraseRead(AfterLine(buffer)), q + 3)
    BY <1>10, <2>2, TakeLine
  <2>4. Size(buffer) < 3 => delivered < Len(stream)
    BY <1>6, <1>10, <2>1
  <2> QED
    BY <1>8, <1>9, <1>10, <2>3, <2>4
<1>11. CASE At(buffer, p) /\ q = p + 2 /\ c = l + 1 /\ m.blank = "size" /\ EmptyLineAt(stream, p)
  <2>1. p + Size(buffer) = delivered /\ Size(buffer) \in Nat /\ Len(stream) \in Nat
    BY <1>11, AtBytes, SegGives
  <2>2. \/ Size(buffer) < 2 /\ Line(buffer) = <<>> /\ AfterLine(buffer) = buffer
        \/ Size(buffer) >= 2 /\ Line(buffer) = <<>> /\ AfterLine(buffer) = SetReadPos(buffer, 2)
    BY <1>11, TakeEmptyLine
  <2>3. Size(buffer) < 2 => delivered < Len(stream)
    BY <1>6, <1>11, <2>1
  <2>4. Size(buffer) >= 2 => Behind(SetReadPos(buffer, 2), p)
    BY <1>11, EmptyLineStays
  <2> QED
    BY <1>9, <1>11, <2>2, <2>3, <2>4
<1>12. CASE c = l + 1 /\ m.blank = "size" /\ Behind(buffer, p)
  <2>1. q = p + 2 /\ q + 3 = p + 5 /\ p + 2 + 1 = q + 1
    BY <1>6, <1>12 DEF Skip
  <2>2. TextLineAt(stream, p + 2, "size")
    BY <1>6, <2>1
  <2>3. \/ Size(buffer) < 5 /\ Line(buffer) = <<>> /\ AfterLine(buffer) = buffer
        \/ /\ Size(buffer) >= 5 /\ Line(buffer) # <<>> /\ Line(buffer)[1] = stream[q + 1]
           /\ At(EraseRead(AfterLine(buffer)), q + 3)
    BY <1>12, <2>1, <2>2, TakeNextLine
  <2> QED
    BY <1>8, <1>9, <1>12, <2>3
<1> QED
  BY <1>5, <1>6, <1>10, <1>11, <1>12

\* Behind the last chunk: where its empty line or the trailer field stands.
LEMMA LastStands ==
  ASSUME NEW m, NEW o, SegPremises(m, o), IsChunked(m)
  PROVE  \E p \in Nat :
           /\ p = o[Len(m.chunks) + 1] + Skip(m, "size") + 3 /\ p >= 3
           /\ m.trailer => stream[p + 1] # CR /\ Len(stream) = p + 5
           /\ ~m.trailer => EmptyLineAt(stream, p) /\ p + 2 <= Len(stream)
<1>1. PICK l \in Nat, h \in Nat : l = Len(m.chunks) /\ h = Skip(m, "size")
  BY SegGives
<1>2. BodyLaid(m, stream, o)
  BY SegGives
<1>3. PICK r \in Nat : r = o[l + 1]
  BY <1>1, <1>2 DEF BodyLaid
<1>4. PICK p \in Nat : p = r + h + 3 /\ p >= 3
  OBVIOUS
<1>5. LastLaid(m, stream, r)
  BY <1>1, <1>2, <1>3 DEF BodyLaid
<1>6. ASSUME m.trailer PROVE stream[p + 1] # CR /\ Len(stream) = p + 5
  <2>1. TextLineAt(stream, r + h + 3, "header") /\ Len(stream) = r + h + 8
    BY <1>1, <1>5, <1>6, Zenon DEF LastLaid
  <2>2. r + h + 8 = p + 5
    BY <1>4
  <2>3. stream[p + 1].kind = "header"
    BY <1>4, <2>1 DEF TextLineAt
  <2> QED
    BY <2>1, <2>2, <2>3 DEF CR
<1>7. ASSUME ~m.trailer PROVE EmptyLineAt(stream, p) /\ p + 2 <= Len(stream)
  <2>1. EmptyLineAt(stream, r + h + 3)
    BY <1>1, <1>5, <1>7, Zenon DEF LastLaid
  <2>2. EmptyLineAt(stream, p)
    BY <1>4, <2>1
  <2> QED
    BY <2>2 DEF EmptyLineAt
<1> QED
  BY <1>1, <1>3, <1>4, <1>6, <1>7

\* What is read first where the buffer begins.
LEMMA FirstAt ==
  ASSUME NEW b, NEW p, At(b, p), Size(b) > 0
  PROVE  Read(b, b.rpos) = stream[p + 1]
<1>1. b.rpos = 0 /\ Size(b) \in Nat
  BY AtBytes
<1>2. 1 \in 1..Size(b) /\ 1 - 1 = 0
  BY <1>1
<1>3. \A i \in 1..Size(b) : Read(b, i - 1) = stream[p + i]
  BY AtBytes
<1>4. Read(b, 1 - 1) = stream[p + 1]
  BY <1>2, <1>3
<1> QED
  BY <1>1, <1>2, <1>4

\* Where a trailer field stands the read position steps back, at every call.
LEMMA StepsBelow ==
  ASSUME Ordinary, TypeInv, EndInv, parsing, NEW p \in Nat, p >= 3, Len(stream) = p + 5,
         Size(buffer) > 0, stream[p + 1] # CR,
         At(buffer, p) \/ Below(p)
  PROVE  LET b == StepBack(AfterChunkEnd(buffer)) IN
         /\ ~ChunkEnds(buffer)
         /\ Fit(b) /\ p + Size(b) = delivered /\ b.rpos + Size(b) >= Word
<1>1. /\ buffer \in TextBuffer /\ Fit(buffer) /\ Size(buffer) \in Nat /\ buffer.rpos \in Nat
      /\ delivered \in Nat /\ delivered <= Len(stream) /\ Len(stream) < Word /\ Word \in Nat
  BY FitBuffer, ByteBufferAssumption
<1>2. p + Size(buffer) = delivered
  BY AtBytes DEF Below
<1>3. Size(buffer) <= 5
  BY <1>1, <1>2
<1>4. Read(buffer, buffer.rpos) # CR
  <2>1. CASE At(buffer, p)
    <3>1. Read(buffer, buffer.rpos) = stream[p + 1]
      BY <2>1, FirstAt
    <3> QED
      BY <3>1
  <2>2. CASE Below(p)
    <3>1. buffer.rpos + Size(buffer) >= Word + 1
      BY <2>2 DEF Below
    <3>2. ~(buffer.rpos + 1 <= Size(buffer))
      BY <1>1, <1>3, <3>1
    <3>3. Read(buffer, buffer.rpos) = NUL
      BY <3>2 DEF Read
    <3> QED
      BY <3>3 DEF NUL, CR
  <2> QED
    BY <2>1, <2>2
<1>5. ~ChunkEnds(buffer) /\ AfterChunkEnd(buffer) = buffer
  BY <1>4 DEF ChunkEnds, AfterChunkEnd
<1>6. PICK r \in Int : r = buffer.rpos - 1
  BY <1>1
<1>7. /\ Fit(SetReadPos(buffer, r)) /\ Size(SetReadPos(buffer, r)) = Size(buffer)
  BY <1>1, MovedStaysFit
<1>8. SetReadPos(buffer, r).rpos = r % Word
  BY <1>1, SetReadPosType
<1>9. (r % Word) + Size(buffer) >= Word
  <2>1. CASE At(buffer, p)
    <3>1. r = 0 - 1
      BY <1>6, <2>1, AtBytes
    <3>2. (0 - 1) % Word = Word - 1
      BY <1>1
    <3> QED
      BY <1>1, <3>1, <3>2
  <2>2. CASE Below(p)
    <3>1. buffer.rpos + Size(buffer) >= Word + 1
      BY <2>2 DEF Below
    <3>2. r \in 0..(Word - 1)
      <4>1. buffer.rpos \in 0..(Word - 1)
        BY <1>1, BufferFields
      <4> QED
        BY <1>1, <1>3, <1>6, <3>1, <4>1
    <3>3. r % Word = r
      BY <3>2, Wraps
    <3> QED
      BY <1>1, <1>6, <3>1, <3>3
  <2> QED
    BY <2>1, <2>2
<1>10. StepBack(AfterChunkEnd(buffer)) = SetReadPos(buffer, r)
  BY <1>5, <1>6 DEF StepBack
<1> QED
  BY <1>2, <1>5, <1>7, <1>8, <1>9, <1>10

LEMMA SegLastChunk ==
  ASSUME NEW m, NEW o, SegPremises(m, o), ParseLastChunk
  PROVE  Reads(m, o)'
<1>1. /\ status = "CHUNK" /\ parsing /\ chunked_status /\ chunk_size = 0 /\ Size(buffer) > 0
      /\ UNCHANGED peerVars /\ stream' = stream
      /\ delivered' = delivered /\ tempBody' = tempBody /\ chunked_status' = chunked_status
      /\ chunkBodyRead_size' = chunkBodyRead_size /\ chunk_size' = chunk_size
  BY DEF ParseLastChunk, peerVars, chunkVars
<1>2. m \in Message /\ ~AtData(m, o)
  <2>1. m \in Message
    BY SegGives
  <2>2. \A c \in 1..Len(m.chunks) : m.chunks[c] # 0
    BY <2>1, MessageParts
  <2> QED
    BY <1>1, <2>1, <2>2 DEF AtData
<1>3. AtLast(m, o)
  BY <1>1, <1>2, SegGives DEF Reads, AtSize
<1>4. ReadsChunks(m) /\ IsChunked(m) /\ m.start \in BodyMethods /\ chunkBodyRead_size = 0
      /\ DataRead(m, Len(m.chunks) + 1, 0)
  BY <1>3 DEF AtLast, ReadsChunks
<1>5. PICK p \in Nat :
        /\ p = o[Len(m.chunks) + 1] + Skip(m, "size") + 3 /\ p >= 3
        /\ m.trailer => stream[p + 1] # CR /\ Len(stream) = p + 5
        /\ ~m.trailer => EmptyLineAt(stream, p) /\ p + 2 <= Len(stream)
  BY <1>4, LastStands
<1>6. BehindLast(m, p)
  BY <1>3, <1>5 DEF AtLast
<1>7. ASSUME status' = "CHUNK", BehindLast(m, p)' PROVE Reads(m, o)'
  <2>1. ReadsChunks(m)' /\ DataRead(m, Len(m.chunks) + 1, 0)'
    BY <1>1, <1>4 DEF ReadsChunks, DataRead
  <2>2. BehindLast(m, o[Len(m.chunks) + 1] + Skip(m, "size") + 3)'
    BY <1>5, <1>7
  <2>3. AtLast(m, o)'
    BY <1>1, <1>4, <2>1, <2>2 DEF AtLast
  <2> QED
    BY <1>7, <2>3 DEF Reads
<1>8. CASE ~m.trailer
  <2>1. At(buffer, p) /\ EmptyLineAt(stream, p) /\ p + 2 <= Len(stream)
    BY <1>5, <1>6, <1>8 DEF BehindLast
  <2>2. p + Size(buffer) = delivered /\ Size(buffer) \in Nat /\ Len(stream) \in Nat
    BY <2>1, AtBytes, SegGives
  <2>3. CASE Size(buffer) >= 2
    <3>1. ChunkEnds(buffer)
      BY <2>1, <2>2, <2>3, TakeChunkEnd
    <3>2. status' = "COMPLETE" /\ data' = tempBody
      BY <3>1 DEF ParseLastChunk, Return
    <3>3. Outcome(m) = "COMPLETE"
      BY <1>4, <1>8 DEF ReadsChunks
    <3>4. data' = Bytes(1, BodyLength(m))
      <4>1. PICK f \in Nat : f = FirstBytes(m.chunks)[Len(m.chunks) + 1] /\ tempBody = Bytes(1, f - 1 + 0)
        BY <1>4 DEF DataRead
      <4>2. BodyLength(m) = f - 1 /\ f - 1 + 0 = f - 1
        BY <1>4, <4>1 DEF BodyLength
      <4> QED
        BY <3>2, <4>1, <4>2
    <3>5. AtEnd(m)'
      BY <3>2, <3>3, <3>4 DEF AtEnd
    <3> QED
      BY <3>2, <3>5 DEF Reads
  <2>4. CASE Size(buffer) < 2
    <3>1. ~ChunkEnds(buffer) /\ At(StepBack(AfterChunkEnd(buffer)), p)
      BY <1>1, <2>1, <2>2, <2>4, TakeChunkEnd
    <3>2. status' = "CHUNK" /\ buffer' = StepBack(AfterChunkEnd(buffer))
      BY <3>1 DEF ParseLastChunk, Return
    <3>3. At(buffer, p)'
      BY <1>1, <3>1, <3>2, AtNext
    <3>4. Waiting'
      BY <1>1, <2>1, <2>2, <2>4 DEF Waiting
    <3>5. BehindLast(m, p)'
      BY <3>3, <3>4 DEF BehindLast
    <3> QED
      BY <1>7, <3>2, <3>5
  <2> QED
    BY <2>2, <2>3, <2>4
<1>9. CASE m.trailer
  <2>1. (At(buffer, p) \/ Below(p)) /\ stream[p + 1] # CR /\ Len(stream) = p + 5
    BY <1>5, <1>6, <1>9 DEF BehindLast
  <2> DEFINE b == StepBack(AfterChunkEnd(buffer))
  <2>2. ~ChunkEnds(buffer) /\ Fit(b) /\ p + Size(b) = delivered /\ b.rpos + Size(b) >= Word
    BY <1>1, <1>5, <2>1, StepsBelow, SegGives
  <2>3. status' = "CHUNK" /\ buffer' = b /\ ~parsing'
    BY <2>2 DEF ParseLastChunk, Return
  <2> HIDE DEF b
  <2>4. Fit(buffer)' /\ Size(buffer)' = Size(b)
    BY <1>1, <2>2, <2>3 DEF Fit, IsEnd, Size
  <2>5. Below(p)'
    BY <1>1, <2>2, <2>3, <2>4 DEF Below
  <2>6. BehindLast(m, p)'
    BY <1>9, <2>5 DEF BehindLast
  <2> QED
    BY <1>7, <2>3, <2>6
<1> QED
  BY <1>8, <1>9

\* k more bytes behind the first a.
LEMMA BytesGrow ==
  ASSUME NEW a \in Nat, NEW n \in Nat, NEW u \in Seq(Symbol), Len(u) = n,
         \A i \in 1..n : u[i] = [kind |-> "data", val |-> a + i]
  PROVE  Bytes(1, a) \o u = Bytes(1, a + n)
<1>1. PICK s \in Seq(Symbol), t \in Seq(Symbol) :
        /\ s = Bytes(1, a) /\ Len(s) = a /\ t = Bytes(1, a + n) /\ Len(t) = a + n
        /\ \A i \in 1..a : s[i] = [kind |-> "data", val |-> 1 + i - 1]
        /\ \A i \in 1..(a + n) : t[i] = [kind |-> "data", val |-> 1 + i - 1]
  <2>1. 1 \in Int /\ a \in Int /\ a + n \in Int /\ Room(a) = a /\ Room(a + n) = a + n
    BY DEF Room
  <2>2. PICK b \in Int : b = a + n
    BY <2>1
  <2>3. /\ Bytes(1, a) \in Seq(Symbol) /\ Len(Bytes(1, a)) = a
        /\ \A i \in 1..a : Bytes(1, a)[i] = [kind |-> "data", val |-> 1 + i - 1]
    BY <2>1, BytesAre
  <2>4. /\ Bytes(1, b) \in Seq(Symbol) /\ Len(Bytes(1, b)) = b
        /\ \A i \in 1..b : Bytes(1, b)[i] = [kind |-> "data", val |-> 1 + i - 1]
    BY <2>1, <2>2, BytesAre
  <2> QED
    BY <2>2, <2>3, <2>4
<1>2. /\ s \o u \in Seq(Symbol) /\ Len(s \o u) = a + n
      /\ \A i \in 1..a : (s \o u)[i] = s[i]
      /\ \A i \in 1..n : (s \o u)[a + i] = u[i]
  BY <1>1, TwoJoined
<1>3. PICK w \in Seq(Symbol) : w = s \o u
  BY <1>2
<1>4. ASSUME NEW i \in 1..(a + n) PROVE w[i] = t[i]
  <2>1. CASE i <= a
    <3>1. i \in 1..a
      BY <2>1
    <3> QED
      BY <1>1, <1>2, <1>3, <3>1
  <2>2. CASE i > a
    <3>1. PICK j \in 1..n : i = a + j
      <4>1. i - a \in 1..n /\ i = a + (i - a)
        BY <2>2
      <4> QED
        BY <4>1
    <3>2. 1 + (a + j) - 1 = a + j
      OBVIOUS
    <3>3. w[a + j] = [kind |-> "data", val |-> a + j]
      BY <1>2, <1>3, <3>1
    <3>4. t[a + j] = [kind |-> "data", val |-> a + j]
      BY <1>1, <3>1, <3>2
    <3> QED
      BY <3>1, <3>3, <3>4
  <2> QED
    BY <2>1, <2>2
<1>5. w = t
  <2>1. Len(w) = a + n /\ Len(t) = a + n
    BY <1>1, <1>2, <1>3
  <2>2. Len(w) = Len(t) /\ t \in Seq(Symbol)
    BY <1>1, <2>1
  <2>3. \A i \in 1..Len(w) : w[i] = t[i]
    BY <1>4, <2>1, Zenon
  <2> QED
    BY <1>3, <2>2, <2>3, SeqEqual, Zenon
<1> QED
  BY <1>1, <1>3, <1>5

\* The n bytes of chunk c that are left when r were read stand behind q.
RestLaid(m, o, c, r, q, n) ==
  /\ n = Room(m.chunks[c]) - r /\ q = o[c] + 3 + r /\ o[c] \in Nat
  /\ \A i \in 1..n : stream[q + i] = [kind |-> "data", val |-> FirstBytes(m.chunks)[c] - 1 + r + i]
  /\ EmptyLineAt(stream, q + n) /\ q + n + 2 <= Len(stream)
  /\ o[c + 1] = q + n + 2

LEMMA ChunkStands ==
  ASSUME NEW m, NEW o, SegPremises(m, o), IsChunked(m), NEW c \in 1..Len(m.chunks),
         NEW r \in Nat, r <= Room(m.chunks[c])
  PROVE  \E q \in Nat, n \in Nat : RestLaid(m, o, c, r, q, n)
<1>1. PICK l \in Nat : l = Len(m.chunks)
  BY SegGives
<1>2. BodyLaid(m, stream, o) /\ m \in Message
  BY SegGives
<1>3. PICK p \in Nat : p = o[c]
  <2>1. c \in 1..(l + 1)
    BY <1>1
  <2> QED
    BY <1>1, <1>2, <2>1 DEF BodyLaid
<1>4. PICK f \in Int, x \in Int : f = FirstBytes(m.chunks)[c] /\ x = m.chunks[c]
  <2>1. c \in 1..(l + 1)
    BY <1>1
  <2>2. m.chunks \in Seq(Int) /\ m.chunks[c] \in Int
    BY <1>2, MessageParts
  <2> QED
    BY <1>1, <2>1, <2>2, FirstBytesAre
<1>5. ChunkLaid(stream, p, x, f, o[c + 1])
  BY <1>1, <1>2, <1>3, <1>4 DEF BodyLaid
<1>6. PICK size \in Nat : size = Room(x)
  BY <1>4 DEF Room
<1>7. /\ \A i \in 1..x : stream[p + 3 + i] = [kind |-> "data", val |-> f + i - 1]
      /\ EmptyLineAt(stream, p + 3 + size) /\ o[c + 1] = p + 5 + size
  BY <1>5, <1>6 DEF ChunkLaid
<1>8. PICK q \in Nat : q = p + 3 + r
  OBVIOUS
<1>9. r <= size
  BY <1>4, <1>6
<1>10. PICK n \in Nat : n = size - r /\ q + n = p + 3 + size /\ q + n + 2 = p + 5 + size
  <2>1. size - r \in Nat /\ q + (size - r) = p + 3 + size /\ q + (size - r) + 2 = p + 5 + size
    BY <1>8, <1>9
  <2> QED
    BY <2>1
<1>11. ASSUME NEW i \in 1..n
       PROVE  stream[q + i] = [kind |-> "data", val |-> f - 1 + r + i]
  <2>1. r + i \in 1..size /\ q + i = p + 3 + (r + i) /\ f + (r + i) - 1 = f - 1 + r + i
    BY <1>8, <1>9, <1>10
  <2>2. r + i \in 1..x
    BY <1>6, <2>1 DEF Room
  <2>3. stream[p + 3 + (r + i)] = [kind |-> "data", val |-> f + (r + i) - 1]
    BY <1>7, <2>2
  <2> QED
    BY <2>1, <2>3
<1>12. EmptyLineAt(stream, q + n) /\ o[c + 1] = q + n + 2
  BY <1>7, <1>10
<1>13. q + n + 2 <= Len(stream)
  BY <1>12 DEF EmptyLineAt
<1>14. RestLaid(m, o, c, r, q, n)
  BY <1>3, <1>4, <1>6, <1>8, <1>10, <1>11, <1>12, <1>13 DEF RestLaid
<1> QED
  BY <1>14

LEMMA SegChunkData ==
  ASSUME NEW m, NEW o, SegPremises(m, o), ParseChunkData
  PROVE  Reads(m, o)'
<1>1. /\ status = "CHUNK" /\ parsing /\ chunked_status /\ chunk_size # 0
      /\ chunk_size >= chunkBodyRead_size /\ UNCHANGED peerVars
      /\ stream' = stream /\ delivered' = delivered /\ chunk_size' = chunk_size
      /\ tempBody' = tempBody \o ChunkRest(buffer)
  BY DEF ParseChunkData, peerVars
<1>2. AtData(m, o)
  BY <1>1, SegGives DEF Reads, AtSize, AtLast
<1>3. ReadsChunks(m) /\ IsChunked(m)
  BY <1>2 DEF AtData, ReadsChunks
<1>4. PICK c \in 1..Len(m.chunks) :
        /\ chunk_size = m.chunks[c] /\ chunkBodyRead_size \in 0..Room(chunk_size)
        /\ DataRead(m, c, chunkBodyRead_size)
        /\ At(buffer, o[c] + 3 + chunkBodyRead_size)
  BY <1>2 DEF AtData
<1>5. PICK l \in Nat, r \in Nat : l = Len(m.chunks) /\ r = chunkBodyRead_size
  BY SegGives
<1>6. PICK size \in Nat, len \in Nat : size = chunk_size /\ size = Room(chunk_size) /\ size # 0
                                       /\ len = size - r /\ r <= size
  <2>1. chunk_size \in Int /\ chunk_size >= r /\ chunk_size # 0
    BY <1>1, <1>5, SegGives
  <2>2. chunk_size \in Nat /\ chunk_size > 0 /\ Room(chunk_size) = chunk_size /\ chunk_size - r \in Nat
    BY <2>1 DEF Room
  <2> QED
    BY <1>5, <2>1, <2>2
<1>7. PICK q \in Nat :
        /\ q = o[c] + 3 + r
        /\ \A i \in 1..len : stream[q + i] = [kind |-> "data", val |-> FirstBytes(m.chunks)[c] - 1 + r + i]
        /\ EmptyLineAt(stream, q + len) /\ q + len + 2 <= Len(stream)
        /\ o[c + 1] = q + len + 2
  <2>1. r <= Room(m.chunks[c]) /\ Room(m.chunks[c]) = size
    BY <1>4, <1>6
  <2>2. PICK q \in Nat, z \in Nat : RestLaid(m, o, c, r, q, z)
    BY <1>3, <2>1, ChunkStands
  <2>3. z = len
    BY <1>6, <2>1, <2>2 DEF RestLaid
  <2> QED
    BY <2>2, <2>3 DEF RestLaid
<1>8. At(buffer, q) /\ q \in Nat
  BY <1>4, <1>5, <1>7
<1>9. PICK f \in Nat, a \in Nat : f = FirstBytes(m.chunks)[c] /\ f # 0 /\ a = f - 1 + r
                                  /\ tempBody = Bytes(1, a)
  <2>1. FirstBytes(m.chunks)[c] \in Nat \ {0}
        /\ tempBody = Bytes(1, FirstBytes(m.chunks)[c] - 1 + r)
    BY <1>4, <1>5 DEF DataRead
  <2>2. \A x \in Nat \ {0} : x - 1 + r \in Nat
    OBVIOUS
  <2> QED
    BY <2>1, <2>2
<1> DEFINE rest  == DataToString(buffer, len)
           after == EraseRead(AfterDataToString(buffer, len))
<1>10. PICK n \in Nat :
         /\ n <= len /\ n <= Size(buffer) /\ (n = len \/ n = Size(buffer))
         /\ rest \in Seq(Text) /\ Len(rest) = n
         /\ \A i \in 1..n : rest[i] = stream[q + i]
         /\ At(after, q + n)
  BY <1>8, TakeData
<1>11. ChunkRest(buffer) = rest
  BY <1>5, <1>6 DEF ChunkRest
<1>12. \/ /\ r + n # chunk_size
          /\ buffer' = after /\ chunkBodyRead_size' = r + n /\ status' = "CHUNK"
          /\ parsing' /\ chunked_status'
       \/ /\ r + n = chunk_size /\ Size(after) >= 2 /\ ChunkEnds(after)
          /\ buffer' = AfterChunkEnd(after) /\ chunkBodyRead_size' = 0 /\ ~chunked_status'
          /\ status' = "CHUNK" /\ parsing'
       \/ /\ r + n = chunk_size /\ ~(Size(after) >= 2 /\ ChunkEnds(after))
          /\ buffer' = (IF Size(after) >= 2 THEN AfterChunkEnd(after) ELSE after)
          /\ chunkBodyRead_size' = r + n /\ status' = "CHUNK" /\ chunked_status'
  BY <1>1, <1>5, <1>6, <1>10, <1>11 DEF ParseChunkData, GoOn, AwaitChunkEnd, Return
<1> HIDE DEF rest, after
<1>13. tempBody' = Bytes(1, a + n)
  <2>1. PICK u \in Seq(Symbol) : u = rest /\ Len(u) = n
    BY <1>10, TextIsSymbol
  <2>2. \A i \in 1..n : u[i] = [kind |-> "data", val |-> a + i]
    <3>1. \A i \in 1..n : i \in 1..len
      BY <1>10
    <3>2. \A i \in 1..n : stream[q + i] = [kind |-> "data", val |-> a + i]
      BY <1>7, <1>9, <3>1
    <3> QED
      BY <1>10, <2>1, <3>2
  <2>3. Bytes(1, a) \o u = Bytes(1, a + n)
    BY <2>1, <2>2, BytesGrow
  <2> QED
    BY <1>1, <1>9, <1>11, <2>1, <2>3
<1>14. PICK k \in Nat : k = q + n
  BY <1>10
<1>15. size # 0 /\ len = size - r /\ r <= size /\ f # 0 /\ a = f - 1 + r /\ n <= len /\ k = q + n
       /\ size = chunk_size
  BY <1>6, <1>9, <1>10, <1>14
<1>16. /\ r + n \in 0..size /\ f - 1 + (r + n) = a + n
       /\ \A p \in Nat : q = p + 3 + r => p + 3 + (r + n) = k
       /\ r + n = size =>
            n = len /\ k = q + len /\ f + size \in Nat \ {0} /\ (f + size) - 1 + 0 = a + n
  <2>1. size # 0 /\ len = size - r /\ r <= size /\ f # 0 /\ a = f - 1 + r /\ n <= len /\ k = q + n
    BY <1>15
  <2>2. r + n \in 0..size /\ f - 1 + (r + n) = a + n
    BY <2>1
  <2>3. \A p \in Nat : q = p + 3 + r => p + 3 + (r + n) = k
    BY <2>1
  <2>4. r + n = size => n = len /\ k = q + len
    BY <2>1
  <2>5. r + n = size => f + size \in Nat \ {0} /\ (f + size) - 1 + 0 = a + n
    BY <2>1
  <2> QED
    BY <2>2, <2>3, <2>4, <2>5
<1>17. /\ At(after, k) /\ k + Size(after) = delivered /\ Size(after) \in Nat
       /\ delivered \in Nat /\ Len(stream) \in Nat
  BY <1>10, <1>14, AtBytes, SegGives
<1>18. ReadsChunks(m)'
  BY <1>3 DEF ReadsChunks
<1>19. ASSUME buffer' = after, chunkBodyRead_size' = r + n, status' = "CHUNK", chunked_status',
              parsing' \/ delivered < Len(stream)
       PROVE  Reads(m, o)'
  <2>1. r + n \in 0..size /\ o[c] + 3 + (r + n) = k /\ f - 1 + (r + n) = a + n
    <3>1. r + n \in 0..size /\ f - 1 + (r + n) = a + n
      BY <1>16
    <3>2. PICK p \in Nat : p = o[c]
      <4>1. c \in 1..(Len(m.chunks) + 1)
        BY <1>5
      <4> QED
        BY <1>3, <4>1, SizeStands
    <3>3. p + 3 + (r + n) = k
      BY <1>7, <1>16, <3>2
    <3> QED
      BY <3>1, <3>2, <3>3
  <2>2. At(buffer, k)'
    BY <1>1, <1>17, <1>19, AtNext
  <2>3. At(buffer, o[c] + 3 + chunkBodyRead_size)'
    BY <1>19, <2>1, <2>2
  <2>4. DataRead(m, c, chunkBodyRead_size)'
    BY <1>9, <1>13, <1>19, <2>1 DEF DataRead
  <2>5. chunk_size' = m.chunks[c] /\ chunkBodyRead_size' \in 0..Room(chunk_size')
    BY <1>1, <1>4, <1>6, <1>19, <2>1
  <2>6. Waiting'
    BY <1>1, <1>19 DEF Waiting
  <2>7. AtData(m, o)'
    BY <1>18, <1>19, <2>3, <2>4, <2>5, <2>6 DEF AtData, Room
  <2> QED
    BY <1>19, <2>7 DEF Reads
<1>20. CASE r + n # chunk_size
  BY <1>12, <1>19, <1>20
<1>21. CASE r + n = chunk_size
  <2>1. n = len /\ k = q + len
    BY <1>21, <1>15, <1>16
  <2>2. EmptyLineAt(stream, k) /\ k + 2 <= Len(stream) /\ o[c + 1] = k + 2
    BY <1>7, <2>1
  <2>3. CASE Size(after) >= 2
    <3>1. ChunkEnds(after) /\ At(AfterChunkEnd(after), k + 2)
      BY <1>17, <2>2, <2>3, TakeChunkEnd
    <3>2. /\ buffer' = AfterChunkEnd(after) /\ chunkBodyRead_size' = 0 /\ ~chunked_status'
          /\ status' = "CHUNK" /\ parsing'
      BY <1>12, <1>21, <2>3, <3>1
    <3>3. At(buffer, o[c + 1])'
      BY <1>1, <2>2, <3>1, <3>2, AtNext
    <3>4. DataRead(m, c + 1, 0)'
      <4>1. m.chunks \in Seq(Int) /\ m \in Message
        BY SegGives, MessageParts
      <4>2. FirstBytes(m.chunks)[c + 1] = f + size
        BY <1>4, <1>6, <1>9, <4>1, FirstBytesAre
      <4>3. f + size \in Nat \ {0} /\ (f + size) - 1 + 0 = a + n
        BY <1>21, <1>15, <1>16
      <4> QED
        BY <1>13, <4>2, <4>3 DEF DataRead
    <3>5. c + 1 \in 1..(Len(m.chunks) + 1)
      BY <1>5
    <3>6. Waiting'
      BY <3>2 DEF Waiting
    <3>7. AtSize(m, o)'
      BY <1>18, <3>2, <3>3, <3>4, <3>5, <3>6 DEF AtSize
    <3> QED
      BY <3>2, <3>7 DEF Reads
  <2>4. CASE Size(after) < 2
    <3>1. ~(Size(after) >= 2)
      BY <1>17, <2>4
    <3>2. buffer' = after /\ chunkBodyRead_size' = r + n /\ status' = "CHUNK" /\ chunked_status'
      BY <1>12, <1>21, <3>1
    <3>3. delivered < Len(stream)
      BY <1>17, <2>2, <2>4
    <3> QED
      BY <1>19, <3>2, <3>3
  <2> QED
    BY <1>17, <2>3, <2>4
<1> QED
  BY <1>20, <1>21

LEMMA SegNoMore ==
  ASSUME NEW m, NEW o, SegPremises(m, o), ParseNoMoreChunks
  PROVE  Reads(m, o)'
<1>1. /\ status = "CHUNK" /\ parsing /\ Size(buffer) = 0 /\ status' = "CHUNK" /\ UNCHANGED peerVars
      /\ stream' = stream /\ delivered' = delivered /\ buffer' = buffer
      /\ tempBody' = tempBody /\ chunked_status' = chunked_status /\ chunk_size' = chunk_size
      /\ chunkBodyRead_size' = chunkBodyRead_size
  BY DEF ParseNoMoreChunks, Return, peerVars, chunkVars
<1>2. PICK l \in Nat : l = Len(m.chunks)
  BY SegGives
<1>3. ASSUME NEW p, At(buffer, p) PROVE At(buffer, p)' /\ p = delivered
  <2>1. p + Size(buffer) = delivered /\ p \in Nat
    BY <1>3, AtBytes
  <2>2. p = delivered
    BY <1>1, <2>1
  <2> QED
    BY <1>1, <1>3, <2>2, AtNext
<1>4. CASE AtSize(m, o)
  <2>1. ReadsChunks(m) /\ IsChunked(m) /\ ~chunked_status /\ chunkBodyRead_size = 0
    BY <1>4 DEF AtSize, ReadsChunks
  <2>2. PICK c \in 1..(l + 1) :
          /\ DataRead(m, c, 0)
          /\ \/ At(buffer, o[c]) /\ Waiting
             \/ c = l + 1 /\ m.blank = "size" /\ Behind(buffer, o[c])
    BY <1>2, <1>4 DEF AtSize
  <2>3. At(buffer, o[c])
    <3>1. ~Behind(buffer, o[c])
      BY <1>1 DEF Behind
    <3> QED
      BY <2>2, <3>1
  <2>4. PICK p \in Nat, q \in Nat : p = o[c] /\ (q = p \/ q = p + 2) /\ q + 3 <= Len(stream)
    BY <1>2, <2>1, <2>2, SizeStands
  <2>5. At(buffer, o[c])' /\ p = delivered
    BY <1>3, <2>3, <2>4
  <2>6. Waiting'
    BY <1>1, <2>4, <2>5, SegGives DEF Waiting
  <2>7. ReadsChunks(m)' /\ DataRead(m, c, 0)'
    BY <1>1, <2>1, <2>2 DEF ReadsChunks, DataRead
  <2>8. AtSize(m, o)'
    BY <1>1, <1>2, <2>1, <2>5, <2>6, <2>7 DEF AtSize
  <2> QED
    BY <1>1, <2>8 DEF Reads
<1>5. CASE AtData(m, o)
  <2>1. ReadsChunks(m) /\ IsChunked(m) /\ chunked_status
    BY <1>5 DEF AtData, ReadsChunks
  <2>2. PICK c \in 1..l :
          /\ chunk_size = m.chunks[c] /\ chunkBodyRead_size \in 0..Room(chunk_size)
          /\ DataRead(m, c, chunkBodyRead_size)
          /\ At(buffer, o[c] + 3 + chunkBodyRead_size)
    BY <1>2, <1>5 DEF AtData
  <2>3. PICK r \in Nat : r = chunkBodyRead_size /\ r <= Room(m.chunks[c])
    <3>1. chunkBodyRead_size \in Nat
      BY SegGives
    <3>2. chunkBodyRead_size <= Room(chunk_size)
      BY <2>2
    <3> QED
      BY <2>2, <3>1, <3>2
  <2>4. PICK q \in Nat, n \in Nat : RestLaid(m, o, c, r, q, n)
    BY <1>2, <2>1, <2>2, <2>3, ChunkStands
  <2>5. q = o[c] + 3 + r /\ q + n + 2 <= Len(stream)
    BY <2>4 DEF RestLaid
  <2>6. At(buffer, q)' /\ q = delivered
    BY <1>3, <2>2, <2>3, <2>5
  <2>7. Waiting'
    BY <1>1, <2>5, <2>6, SegGives DEF Waiting
  <2>8. At(buffer, o[c] + 3 + chunkBodyRead_size)'
    BY <1>1, <2>3, <2>5, <2>6
  <2>9. ReadsChunks(m)' /\ DataRead(m, c, chunkBodyRead_size)'
    BY <1>1, <2>1, <2>2 DEF ReadsChunks, DataRead
  <2>10. chunk_size' = m.chunks[c] /\ chunkBodyRead_size' \in 0..Room(chunk_size')
    BY <1>1, <2>2
  <2>11. AtData(m, o)'
    BY <1>1, <1>2, <2>1, <2>7, <2>8, <2>9, <2>10 DEF AtData, Room
  <2> QED
    BY <1>1, <2>11 DEF Reads
<1>6. CASE AtLast(m, o)
  <2>1. ReadsChunks(m) /\ IsChunked(m) /\ chunked_status /\ chunk_size = 0 /\ chunkBodyRead_size = 0
        /\ DataRead(m, Len(m.chunks) + 1, 0)
    BY <1>6 DEF AtLast, ReadsChunks
  <2>2. PICK p \in Nat :
          /\ p = o[Len(m.chunks) + 1] + Skip(m, "size") + 3
          /\ ~m.trailer => EmptyLineAt(stream, p) /\ p + 2 <= Len(stream)
    BY <2>1, LastStands
  <2>3. BehindLast(m, p)
    BY <1>6, <2>2 DEF AtLast
  <2>4. ~Below(p)
    <3>1. buffer.rpos < Word /\ buffer.rpos \in Nat /\ Word \in Nat
      BY SegGives, BufferFields, ByteBufferAssumption
    <3> QED
      BY <1>1, <3>1 DEF Below
  <2>5. At(buffer, p)
    BY <2>3, <2>4 DEF BehindLast
  <2>6. At(buffer, p)' /\ p = delivered
    BY <1>3, <2>5
  <2>7. CASE ~m.trailer
    <3>1. Waiting'
      BY <1>1, <2>2, <2>6, <2>7, SegGives DEF Waiting
    <3> QED
      <4>1. BehindLast(m, p)'
        BY <2>6, <3>1 DEF BehindLast
      <4>2. ReadsChunks(m)' /\ DataRead(m, Len(m.chunks) + 1, 0)'
        BY <1>1, <2>1 DEF ReadsChunks, DataRead
      <4>3. AtLast(m, o)'
        BY <1>1, <2>1, <2>2, <4>1, <4>2 DEF AtLast
      <4> QED
        BY <1>1, <4>3 DEF Reads
  <2>8. CASE m.trailer
    <3>1. BehindLast(m, p)'
      BY <2>6, <2>8 DEF BehindLast
    <3>2. ReadsChunks(m)' /\ DataRead(m, Len(m.chunks) + 1, 0)'
      BY <1>1, <2>1 DEF ReadsChunks, DataRead
    <3>3. AtLast(m, o)'
      BY <1>1, <2>1, <2>2, <3>1, <3>2 DEF AtLast
    <3> QED
      BY <1>1, <3>3 DEF Reads
  <2> QED
    BY <2>7, <2>8
<1> QED
  BY <1>1, <1>4, <1>5, <1>6, SegGives DEF Reads

\* What was received leaves the places in the request as they are.
LEMMA ReceiveKeeps ==
  ASSUME Ordinary, TypeInv, EndInv, Receive, NEW p
  PROVE  /\ At(buffer, p) => At(buffer, p)'
         /\ Behind(buffer, p) => Behind(buffer, p)'
         /\ Below(p) => Below(p)'
<1>1. /\ buffer'.rpos = buffer.rpos /\ Size(buffer) \in Nat
      /\ Size(buffer) <= Size(buffer') /\ Size(buffer') \in Nat
      /\ delivered' - Size(buffer') = delivered - Size(buffer)
  BY FrontStays
<1>2. delivered' > delivered /\ ~parsing /\ parsing' /\ stream' = stream
  <2>1. \E n \in 1..(Len(stream) - delivered) : delivered' = delivered + n
    BY DEF Receive
  <2>2. delivered \in Nat /\ Len(stream) \in Nat
    BY FitBuffer
  <2>3. delivered' > delivered
    BY <2>1, <2>2
  <2> QED
    BY <2>3 DEF Receive
<1>3. TypeInv' /\ EndInv'
  BY ReceiveType, ReceiveEnd
<1>4. Fit(buffer)'
  <2>1. stream' \in Streams /\ delivered' \in 0..Len(stream') /\ buffer' \in TextBuffer
    BY <1>3 DEF TypeInv, TypeOK, TextBuffer
  <2>2. stream' \in Seq(Text) /\ Len(stream') \in Nat /\ Len(stream') < Word
    BY <2>1, StreamsAreText, LenProperties DEF Ordinary
  <2>3. IsEnd(buffer, delivered)'
    BY <1>3 DEF EndInv
  <2>4. Size(buffer') <= delivered'
    BY <2>3 DEF IsEnd, Size
  <2>5. Size(buffer') < Word
    BY <1>1, <2>1, <2>2, <2>4, ByteBufferAssumption
  <2> QED
    BY <2>1, <2>3, <2>5 DEF Fit, Size
<1>5. delivered \in Nat /\ delivered' \in Nat
  BY <1>3, FitBuffer DEF TypeInv, TypeOK
<1>6. p \in Nat /\ p + Size(buffer) = delivered => p + Size(buffer') = delivered'
  BY <1>1, <1>5
<1>7. Size(buffer') >= Size(buffer) + 1
  BY <1>1, <1>2, <1>5
<1>8. At(buffer, p) => At(buffer, p)'
  BY <1>1, <1>4, <1>6 DEF At, Size
<1>9. Behind(buffer, p) => Behind(buffer, p)'
  <2>1. EmptyLineAt(stream, p) => EmptyLineAt(stream, p)'
    BY <1>2 DEF EmptyLineAt
  <2>2. Size(buffer) >= 2 => Size(buffer') >= 2
    BY <1>1
  <2> QED
    BY <1>1, <1>4, <1>6, <2>1, <2>2 DEF Behind, Size
<1>10. Below(p) => Below(p)'
  <2>1. buffer.rpos + Size(buffer) >= Word => buffer'.rpos + Size(buffer') >= Word + 1
    <3>1. buffer.rpos \in Nat /\ Word \in Nat
      BY FitBuffer, ByteBufferAssumption
    <3> QED
      BY <1>1, <1>7, <3>1
  <2> QED
    BY <1>2, <1>4, <1>6, <2>1 DEF Below, Size
<1> QED
  BY <1>8, <1>9, <1>10

LEMMA SegReceive ==
  ASSUME NEW m, NEW o, SegPremises(m, o), Receive
  PROVE  Reads(m, o)'
<1>1. /\ parsing' /\ ~parsing /\ ~Final /\ stream' = stream /\ tempBody' = tempBody
      /\ status' = status /\ method' = method /\ headers' = headers
      /\ chunk_size' = chunk_size /\ chunked_status' = chunked_status
      /\ chunkBodyRead_size' = chunkBodyRead_size
  BY DEF Receive, chunkVars
<1>2. Waiting'
  BY <1>1 DEF Waiting
<1>3. \A p : /\ At(buffer, p) => At(buffer, p)'
             /\ Behind(buffer, p) => Behind(buffer, p)'
             /\ Below(p) => Below(p)'
  BY ReceiveKeeps, SegGives
<1>4. NoBody => NoBody'
  BY <1>1 DEF NoBody
<1>5. ReadsChunks(m) => ReadsChunks(m)'
  BY DEF ReadsChunks
<1>6. \A c, k : DataRead(m, c, k) => DataRead(m, c, k)'
  BY <1>1 DEF DataRead
<1>7. \A k : HeadRead(m, k) => HeadRead(m, k)'
  BY <1>1 DEF HeadRead, FirstLength
<1>8. status = "START_LINE" /\ AtStart(m) => AtStart(m)'
  BY <1>1, <1>2, <1>3, <1>4 DEF AtStart
<1>9. AtHeaders(m) => AtHeaders(m)'
  BY <1>1, <1>2, <1>3, <1>4, <1>7 DEF AtHeaders
<1>10. AtSize(m, o) => AtSize(m, o)'
  BY <1>1, <1>2, <1>3, <1>5, <1>6 DEF AtSize
<1>11. AtData(m, o) => AtData(m, o)'
  <2> SUFFICES ASSUME AtData(m, o) PROVE AtData(m, o)'
    OBVIOUS
  <2>1. PICK c \in 1..Len(m.chunks) :
          /\ chunk_size = m.chunks[c] /\ chunkBodyRead_size \in 0..Room(chunk_size)
          /\ DataRead(m, c, chunkBodyRead_size)
          /\ At(buffer, o[c] + 3 + chunkBodyRead_size)
    BY DEF AtData
  <2>2. PICK r : r = chunkBodyRead_size
    OBVIOUS
  <2>3. DataRead(m, c, r)' /\ At(buffer, o[c] + 3 + r)'
    BY <1>3, <1>6, <2>1, <2>2
  <2>4. DataRead(m, c, chunkBodyRead_size)' /\ At(buffer, o[c] + 3 + chunkBodyRead_size)'
    BY <1>1, <2>2, <2>3 DEF DataRead
  <2> QED
    BY <1>1, <1>2, <1>5, <2>1, <2>4 DEF AtData, Room
<1>12. AtLast(m, o) => AtLast(m, o)'
  BY <1>1, <1>2, <1>3, <1>5, <1>6 DEF AtLast, BehindLast
<1>13. ~AtBodyKind(m) /\ ~AtBody(m)
  BY <1>1 DEF AtBodyKind, AtBody
<1> QED
  BY <1>1, <1>8, <1>9, <1>10, <1>11, <1>12, <1>13, SegGives DEF Reads, Final

LEMMA SegStutter ==
  ASSUME NEW m, NEW o, Reads(m, o), UNCHANGED vars
  PROVE  Reads(m, o)'
<1>1. /\ stream' = stream /\ delivered' = delivered /\ buffer' = buffer /\ tempBody' = tempBody
      /\ status' = status /\ method' = method /\ headers' = headers /\ data' = data
      /\ parsing' = parsing /\ chunk_size' = chunk_size /\ chunked_status' = chunked_status
      /\ chunkBodyRead_size' = chunkBodyRead_size /\ UNCHANGED peerVars
  BY DEF vars, peerVars, chunkVars
<1>2. \A p : /\ At(buffer, p) => At(buffer, p)'
             /\ Behind(buffer, p) => Behind(buffer, p)'
             /\ Below(p) => Below(p)'
  BY <1>1 DEF At, Behind, Below, Fit, IsEnd, Size, EmptyLineAt
<1>3. Waiting' = Waiting /\ (NoBody => NoBody') /\ (ReadsChunks(m) => ReadsChunks(m)')
  BY <1>1 DEF Waiting, NoBody, ReadsChunks
<1>4. \A c, k : DataRead(m, c, k) => DataRead(m, c, k)'
  BY <1>1 DEF DataRead
<1>5. \A k : HeadRead(m, k) => HeadRead(m, k)'
  BY <1>1 DEF HeadRead, FirstLength
<1>6. AtStart(m) => AtStart(m)'
  BY <1>1, <1>2, <1>3 DEF AtStart
<1>7. AtHeaders(m) => AtHeaders(m)'
  BY <1>2, <1>3, <1>5 DEF AtHeaders
<1>8. AtBodyKind(m) => AtBodyKind(m)'
  BY <1>1, <1>2, <1>3, <1>5 DEF AtBodyKind
<1>9. AtSize(m, o) => AtSize(m, o)'
  BY <1>1, <1>2, <1>3, <1>4 DEF AtSize
<1>10. AtData(m, o) => AtData(m, o)'
  <2> SUFFICES ASSUME AtData(m, o) PROVE AtData(m, o)'
    OBVIOUS
  <2>1. PICK c \in 1..Len(m.chunks) :
          /\ chunk_size = m.chunks[c] /\ chunkBodyRead_size \in 0..Room(chunk_size)
          /\ DataRead(m, c, chunkBodyRead_size)
          /\ At(buffer, o[c] + 3 + chunkBodyRead_size)
    BY DEF AtData
  <2>2. PICK r : r = chunkBodyRead_size
    OBVIOUS
  <2>3. DataRead(m, c, r)' /\ At(buffer, o[c] + 3 + r)'
    BY <1>2, <1>4, <2>1, <2>2
  <2>4. DataRead(m, c, chunkBodyRead_size)' /\ At(buffer, o[c] + 3 + chunkBodyRead_size)'
    BY <1>1, <2>2, <2>3 DEF DataRead
  <2> QED
    BY <1>1, <1>3, <2>1, <2>4 DEF AtData, Room
<1>11. AtLast(m, o) => AtLast(m, o)'
  BY <1>1, <1>2, <1>3, <1>4 DEF AtLast, BehindLast
<1>12. (AtBody(m) => AtBody(m)') /\ (AtEnd(m) => AtEnd(m)')
  BY <1>1 DEF AtBody, AtEnd
<1> QED
  BY <1>1, <1>6, <1>7, <1>8, <1>9, <1>10, <1>11, <1>12 DEF Reads

\* The invariant of a rendered request, wherever its chunks stand.
SegInv == \A m \in Messages : Sent(m) => \A o : Laid(m, Render(m), o) => Reads(m, o)

LEMMA SegInit == Ordinary /\ Init => SegInv
<1> SUFFICES ASSUME Ordinary, Init, NEW m \in Messages, Sent(m), NEW o, Laid(m, Render(m), o)
             PROVE  Reads(m, o)
  BY DEF SegInv
<1>1. HeadLaid(m, stream)
  BY DEF Sent, Laid
<1>2. /\ buffer = Empty /\ delivered = 0 /\ tempBody = <<>> /\ status = "START_LINE"
      /\ ~chunked_status /\ chunkBodyRead_size = 0 /\ headers = [te |-> Other, cl |-> Other]
  BY DEF Init
<1>3. TypeInv /\ EndInv
  BY InitType, InitEnd
<1>4. Fit(buffer) /\ Size(buffer) = 0 /\ buffer.rpos = 0
  BY <1>2, <1>3, FitBuffer, EmptySeq DEF Empty, Size
<1>5. At(buffer, 0)
  BY <1>2, <1>4 DEF At
<1>6. Waiting
  <2>1. PICK h \in {0, 2} : h = Skip(m, "start")
    BY DEF Skip
  <2>2. TextLineAt(stream, h, "start")
    BY <1>1, <2>1 DEF HeadLaid
  <2>3. h + 3 <= Len(stream) /\ Len(stream) \in Nat
    BY <1>3, <2>2, FitBuffer DEF TextLineAt
  <2> QED
    BY <1>2, <2>3 DEF Waiting
<1>7. headers.te = Other /\ headers.cl = Other
  BY <1>2
<1>8. AtStart(m)
  BY <1>2, <1>5, <1>6, <1>7 DEF AtStart, NoBody
<1> QED
  BY <1>2, <1>8 DEF Reads

LEMMA SegStep == Ordinary /\ TypeInv /\ EndInv /\ SegInv /\ [Next]_vars => SegInv'
<1> SUFFICES ASSUME Ordinary, TypeInv, EndInv, SegInv, [Next]_vars,
                    NEW m \in Messages, Sent(m)', NEW o, Laid(m, Render(m), o)
             PROVE  Reads(m, o)'
  BY DEF SegInv
<1>1. Sent(m) /\ stream = Render(m)
  BY StreamStays DEF Sent
<1>2. Reads(m, o)
  BY <1>1 DEF SegInv
<1>3. SegPremises(m, o)
  <2>1. Laid(m, stream, o)
    BY <1>1
  <2> QED
    BY <1>2, <2>1, MessagesAssumption DEF SegPremises
<1>4. CASE Receive
  BY <1>3, <1>4, SegReceive
<1>5. CASE Parse
  BY <1>3, <1>5, SegStartLine, SegHeaderLine, SegBodyKind, SegBody, SegChunkSize, SegLastChunk,
     SegChunkData, SegNoMore DEF Parse
<1>6. CASE UNCHANGED vars
  BY <1>2, <1>6, SegStutter
<1> QED
  BY <1>4, <1>5, <1>6 DEF Next

\* What the invariant says where parse() has stopped.
LEMMA WhereItStops ==
  ASSUME TypeInv, NEW m \in Message, NEW o, Reads(m, o),
         Final \/ (~parsing /\ delivered = Len(stream))
  PROVE  status = Outcome(m) \/ (m.blank # "none" /\ BehindEmptyLine)
<1>1. ASSUME Final PROVE status = Outcome(m)
  BY <1>1 DEF Reads, AtEnd, Final
<1>2. ASSUME ~Final PROVE ~parsing /\ ~Waiting
  <2>1. ~parsing /\ delivered = Len(stream) /\ delivered \in Nat
    BY <1>2, StreamsAreText, LenProperties DEF TypeInv, TypeOK
  <2> QED
    BY <2>1 DEF Waiting
<1>3. ASSUME ~Final, status = "START_LINE", AtStart(m) PROVE m.blank # "none" /\ BehindEmptyLine
  <2>1. m.blank = "start" /\ Behind(buffer, 0)
    BY <1>2, <1>3 DEF AtStart
  <2>2. buffer.rpos = 2 /\ SubSeq(buffer.bytes, 1, 2) = <<CR, LF>>
    BY <2>1, BehindBytes
  <2> QED
    BY <1>3, <2>1, <2>2 DEF BehindEmptyLine
<1>4. ASSUME ~Final, status = "CHUNK", AtSize(m, o) PROVE m.blank # "none" /\ BehindEmptyLine
  <2>1. ~chunked_status
    BY <1>4 DEF AtSize
  <2>2. PICK c : m.blank = "size" /\ Behind(buffer, o[c])
    BY <1>2, <1>4 DEF AtSize
  <2>3. buffer.rpos = 2 /\ SubSeq(buffer.bytes, 1, 2) = <<CR, LF>>
    BY <2>2, BehindBytes
  <2> QED
    BY <1>4, <2>1, <2>2, <2>3 DEF BehindEmptyLine
<1>5. ASSUME ~Final, status = "CHUNK", AtLast(m, o) PROVE status = Outcome(m)
  <2>1. m.trailer
    BY <1>2, <1>5 DEF AtLast, BehindLast
  <2>2. Outcome(m) = IF m.trailer THEN "CHUNK" ELSE "COMPLETE"
    BY <1>5 DEF AtLast, ReadsChunks
  <2> QED
    BY <1>5, <2>1, <2>2
<1>6. ASSUME ~Final PROVE ~AtHeaders(m) /\ ~AtBodyKind(m) /\ ~AtData(m, o) /\ ~AtBody(m)
  BY <1>2, <1>6 DEF AtHeaders, AtBodyKind, AtData, AtBody
<1> QED
  BY <1>1, <1>3, <1>4, <1>5, <1>6 DEF Reads, Final

LEMMA SegInvGives == TypeInv /\ SegInv => SegmentationIndependent
<1> SUFFICES ASSUME TypeInv, SegInv, NEW m \in Messages, Sent(m)
             PROVE  /\ Final \/ (~parsing /\ delivered = Len(stream)) =>
                         status = Outcome(m) \/ (m.blank # "none" /\ BehindEmptyLine)
                    /\ status = "COMPLETE" /\ m.start \in BodyMethods /\ IsChunked(m) =>
                         data = Bytes(1, BodyLength(m))
  BY DEF SegmentationIndependent
<1>1. m \in Message
  BY MessagesAssumption
<1>2. PICK o : Laid(m, Render(m), o)
  BY <1>1, RenderIsLaid
<1>3. Reads(m, o)
  BY <1>2 DEF SegInv
<1>4. Final \/ (~parsing /\ delivered = Len(stream)) =>
        status = Outcome(m) \/ (m.blank # "none" /\ BehindEmptyLine)
  BY <1>1, <1>3, WhereItStops
<1>5. status = "COMPLETE" /\ m.start \in BodyMethods /\ IsChunked(m) => data = Bytes(1, BodyLength(m))
  BY <1>3 DEF Reads, AtEnd
<1> QED
  BY <1>4, <1>5

\* Where parse() ends is what the text of the request calls for, and the body it
\* hands over is the one that was sent, whatever the segments: for requests with
\* any number of headers and chunks, with the verdict of each, trailers, negative
\* sizes and bodies with a Content-Length included.
THEOREM VerdictIgnoresSegments ==
  ASSUME Ordinary
  PROVE  Spec => []SegmentationIndependent
<1>1. Init => TypeInv /\ EndInv /\ SegInv
  BY InitType, InitEnd, SegInit
<1>2. TypeInv /\ EndInv /\ SegInv /\ [Next]_vars => (TypeInv /\ EndInv /\ SegInv)'
  BY EndStep, SegStep
<1>3. TypeInv /\ EndInv /\ SegInv => SegmentationIndependent
  BY SegInvGives
<1> QED
  BY <1>1, <1>2, <1>3, PTL DEF Spec
=============================================================================

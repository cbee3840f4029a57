----------------------------- MODULE ByteBuffer -----------------------------
(***************************************************************************)
(* The buffer an HTTPRequest inherits (src/src/ByteBuffer.cpp): bytes, a   *)
(* read position and a write position, both unsigned.  Positions count     *)
(* from 0 as in the code.                                                  *)
(*                                                                         *)
(* The elements of a buffer are symbols, each standing for a byte or for a *)
(* run of bytes the parser never looks into: CR, LF, one text (a whole     *)
(* start line, header or chunk size) or one byte of a body.                *)
(***************************************************************************)
EXTENDS Integers, Sequences

CONSTANT Word   \* the number of values of an unsigned int

ASSUME ByteBufferAssumption == Word \in Nat \ {0}

Kinds  == {"CR", "LF", "NUL", "start", "header", "size", "data"}
Symbol == [kind : Kinds, val : Int]

CR  == [kind |-> "CR", val |-> 0]
LF  == [kind |-> "LF", val |-> 0]
NUL == [kind |-> "NUL", val |-> 0]

Buffer == [bytes : Seq(Symbol), rpos : 0..(Word - 1), wpos : 0..(Word - 1)]

Empty == [bytes |-> <<>>, rpos |-> 0, wpos |-> 0]

Size(b) == Len(b.bytes)

\* Reading past the end gives 0 and is no error.
Read(b, index) == IF index + 1 <= Size(b) THEN b.bytes[index + 1] ELSE NUL

\* Mutant: the position goes below zero instead of wrapping.
SetReadPosUnwrapped(b, r) == [b EXCEPT !.rpos = r]

SetReadPos(b, r) == [b EXCEPT !.rpos = r % Word]

\* putString() writes at wpos, over what is there, and grows the buffer.
PutString(b, str) ==
  LET end == b.wpos + Len(str) IN
  [b EXCEPT
     !.bytes = [i \in 1..(IF Size(b) < end THEN end ELSE Size(b)) |->
                  IF i \in b.wpos + 1..end THEN str[i - b.wpos] ELSE Read(b, i - 1)],
     !.wpos = end % Word]

\* Mutant: the write position is not moved back with the bytes.
EraseKeepingWpos(b, end) ==
  IF end = Size(b) THEN Empty
  ELSE [b EXCEPT !.bytes = SubSeq(@, end + 1, Len(@)), !.rpos = (@ - end) % Word]

\* erase(0, end)
Erase(b, end) ==
  IF end = Size(b) THEN Empty
  ELSE [bytes |-> SubSeq(b.bytes, end + 1, Size(b)),
        rpos  |-> (b.rpos - end) % Word,
        wpos  |-> (b.wpos - end) % Word]

\* What getDataToString(_, len) appends; it takes the first bytes of the
\* buffer, wherever the read position is.
DataToString(b, len) ==
  SubSeq(b.bytes, 1, IF len > Size(b) THEN Size(b) ELSE len)

\* The buffer after it.
AfterDataToString(b, len) ==
  SetReadPos(b, IF len > Size(b) THEN Size(b) ELSE b.rpos + len)
=============================================================================

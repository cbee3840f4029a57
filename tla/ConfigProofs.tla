---------------------------- MODULE ConfigProofs ----------------------------
(***************************************************************************)
(* Proofs about ConfigParser and ConfigFile, for files of any length: the  *)
(* types, that every pass of the parser moves its iterator on, that tokens *)
(* are overrun only where the file leaves a block open, and that           *)
(* a well-formed file is read as it is written.                            *)
(***************************************************************************)
EXTENDS ConfigFile, LibraryLemmas, SequenceTheorems

----------------------------------------------------------------------------
(* Words and tokens.                                                       *)

LEMMA WordsAre ==
  ASSUME NEW line \in Seq(Word)
  PROVE  /\ Words(line) \in Seq(Word) /\ Len(Words(line)) \in Nat /\ Len(line) \in Nat
         /\ Len(Words(line)) <= Len(line)
         /\ \A k \in 1..Len(Words(line)) : Words(line)[k] = line[k]
         /\ Len(Words(line)) = 0 => Len(line) = 0 \/ line[1].w = "#"
<1> DEFINE I == {i \in 1..Len(line) : line[i].w = "#"}
           c == IF I # {} THEN Min(I) ELSE 0
<1>1. Len(line) \in Nat
  BY LenProperties
<1>2. Words(line) = IF c = 0 THEN line ELSE SubSeq(line, 1, c - 1)
  BY DEF Words, SelectInSeq
<1>3. CASE I = {}
  <2>1. Words(line) = line
    BY <1>2, <1>3
  <2> QED
    BY <1>1, <2>1
<1>4. CASE I # {}
  <2>1. IsFiniteSet(I) /\ I \in SUBSET Nat
    <3>1. IsFiniteSet(1..Len(line))
      BY <1>1, FS_Interval
    <3> QED
      BY <3>1, FS_Subset
  <2>2. PICK m \in I : c = m
    <3> HIDE DEF I
    <3> QED
      BY <1>4, <2>1, LeastIsMember
  <2>3. m \in 1..Len(line) /\ line[m].w = "#"
    BY <2>2
  <2>4. Words(line) = SubSeq(line, 1, m - 1)
    <3>1. m # 0
      BY <2>3
    <3> QED
      BY <1>2, <2>2, <3>1
  <2>5. /\ SubSeq(line, 1, m - 1) \in Seq(Word) /\ Len(SubSeq(line, 1, m - 1)) = m - 1
        /\ \A k \in 1..(m - 1) : SubSeq(line, 1, m - 1)[k] = line[k]
    <3>1. \A k \in 1..(m - 1) : line[k] \in Word
      BY <1>1, <2>3, ElementOfSeq
    <3>2. 1 \in Int /\ m - 1 \in Int /\ \A k \in 1..(m - 1) : 1 + k - 1 = k
      BY <2>3
    <3>3. (IF 1 <= m - 1 THEN (m - 1) - 1 + 1 ELSE 0) = m - 1
      BY <2>3
    <3>4. 1..(m - 1) \subseteq 1..Len(line)
      BY <1>1, <2>3
    <3> QED
      BY <1>1, <2>3, <3>1, <3>2, <3>3, <3>4, SubSeqProperties
  <2> QED
    BY <1>1, <2>3, <2>4, <2>5
<1> QED
  BY <1>3, <1>4

\* The tokens of one word.
WordTokens(x) == IF x.semi THEN <<x.w, Semicolon>> ELSE <<x.w>>

Pieces(line) == [k \in DOMAIN Words(line) |-> WordTokens(Words(line)[k])]

LEMMA PiecesAre ==
  ASSUME NEW line \in Seq(Word)
  PROVE  /\ Pieces(line) \in Seq(Seq(Token)) /\ Len(Pieces(line)) = Len(Words(line))
         /\ \A k \in 1..Len(Words(line)) : Pieces(line)[k] = WordTokens(Words(line)[k])
         /\ LineTokens(line) = FlattenSeq(Pieces(line)) /\ LineTokens(line) \in Seq(Token)
<1>1. Words(line) \in Seq(Word) /\ Len(Words(line)) \in Nat /\ DOMAIN Words(line) = 1..Len(Words(line))
  BY WordsAre, LenProperties
<1>2. \A x \in Word : WordTokens(x) \in Seq(Token)
  <2> SUFFICES ASSUME NEW x \in Word PROVE WordTokens(x) \in Seq(Token)
    OBVIOUS
  <2>1. PICK w \in Token : w = x.w
    BY DEF Word, Token
  <2>2. Semicolon \in Token
    BY DEF Token
  <2>3. PICK s \in Token : s = Semicolon
    BY <2>2
  <2>4. <<w>> \in Seq(Token) /\ <<w, s>> \in Seq(Token)
    BY ShortSeqs
  <2> QED
    BY <2>1, <2>3, <2>4 DEF WordTokens
<1>3. \A k \in 1..Len(Words(line)) : Words(line)[k] \in Word
  BY <1>1, ElementOfSeq
<1>4. Pieces(line) \in [1..Len(Words(line)) -> Seq(Token)]
  BY <1>1, <1>2, <1>3 DEF Pieces
<1>5. Pieces(line) \in Seq(Seq(Token)) /\ Len(Pieces(line)) = Len(Words(line))
  BY <1>1, <1>4, FcnIsSeq
<1>6. LineTokens(line) = FlattenSeq(Pieces(line))
  BY DEF LineTokens, Pieces, WordTokens
<1>7. LineTokens(line) \in Seq(Token)
  BY <1>5, <1>6, FlattenPlaces
<1> QED
  BY <1>1, <1>5, <1>6, <1>7 DEF Pieces

AllTokens(f) == [k \in DOMAIN f |-> LineTokens(f[k])]

LEMMA TokensAre ==
  ASSUME NEW f \in Seq(Seq(Word))
  PROVE  /\ AllTokens(f) \in Seq(Seq(Token)) /\ Len(AllTokens(f)) = Len(f) /\ Len(f) \in Nat
         /\ \A k \in 1..Len(f) : f[k] \in Seq(Word) /\ AllTokens(f)[k] = LineTokens(f[k])
         /\ FlattenSeq(AllTokens(f)) \in Seq(Token)
<1>1. Len(f) \in Nat /\ DOMAIN f = 1..Len(f) /\ \A k \in 1..Len(f) : f[k] \in Seq(Word)
  BY LenProperties, ElementOfSeq
<1>2. AllTokens(f) \in [1..Len(f) -> Seq(Token)]
  BY <1>1, PiecesAre DEF AllTokens
<1>3. AllTokens(f) \in Seq(Seq(Token)) /\ Len(AllTokens(f)) = Len(f)
  BY <1>1, <1>2, FcnIsSeq
<1>4. FlattenSeq(AllTokens(f)) \in Seq(Token)
  BY <1>3, FlattenPlaces
<1> QED
  BY <1>1, <1>3, <1>4 DEF AllTokens

----------------------------------------------------------------------------
(* Types.                                                                  *)

IsBlock(b) ==
  /\ DOMAIN b = {"uri", "locations", "lists", "set"}
  /\ DOMAIN b.set = Singles \cup {"status", "return"} /\ DOMAIN b.lists = Lists

\* Blocks hold blocks: what S has in common is all that is said of them.
TypeInv ==
  /\ file \in Seq(Seq(Word)) /\ tokens \in Seq(Token)
  /\ state \in {"tokenize", "parse", "done", "threw", "beyond"}
  /\ at \in 1..(Len(tokens) + 2)
  /\ state = "tokenize" => at = 1
  /\ state \in {"tokenize", "done"} => blocks = <<>>
  /\ \E S : blocks \in Seq(S) /\ servers \in Seq(S) /\ \A b \in S : IsBlock(b)
  /\ blocks # <<>> => blocks[1].uri = ""
  /\ \A k \in 1..Len(servers) : servers[k].uri = ""

LEMMA TypeInvGivesTypeOK == TypeInv => TypeOK
<1> SUFFICES ASSUME TypeInv PROVE TypeOK
  OBVIOUS
<1>1. PICK S : blocks \in Seq(S) /\ servers \in Seq(S) /\ \A b \in S : IsBlock(b)
  BY DEF TypeInv
<1>2. /\ Len(tokens) \in Nat /\ DOMAIN tokens = 1..Len(tokens)
      /\ \A k \in 1..Len(tokens) : tokens[k] \in Token
  BY LenProperties, ElementOfSeq DEF TypeInv
<1>3. /\ DOMAIN blocks = 1..Len(blocks) /\ DOMAIN servers = 1..Len(servers)
      /\ \A k \in 1..Len(blocks) : blocks[k] \in S
      /\ \A k \in 1..Len(servers) : servers[k] \in S
  BY <1>1, LenProperties, ElementOfSeq
<1>4. \A b \in Range(blocks) \cup Range(servers) :
        DOMAIN b.set = Singles \cup {"status", "return"} /\ DOMAIN b.lists = Lists
  BY <1>1, <1>3 DEF Range, IsBlock
<1>5. at \in 1..(End + 1)
  <2>1. at \in 1..(Len(tokens) + 2)
    BY DEF TypeInv
  <2>2. End + 1 = Len(tokens) + 2
    BY <1>2 DEF End
  <2> QED
    BY <2>1, <2>2
<1> QED
  BY <1>2, <1>3, <1>4, <1>5 DEF TypeInv, TypeOK, Range, Inside

LEMMA InitType == Init => TypeInv
<1> SUFFICES ASSUME Init PROVE TypeInv
  OBVIOUS
<1>1. file \in Seq(Seq(Word))
  BY ConfigAssumption DEF Init
<1>2. tokens \in Seq(Token) /\ Len(tokens) = 0 /\ Len(servers) = 0
  BY EmptySeq DEF Init
<1>3. blocks \in Seq({}) /\ servers \in Seq({})
  BY EmptySeq DEF Init
<1>4. \E S : blocks \in Seq(S) /\ servers \in Seq(S) /\ \A b \in S : IsBlock(b)
  BY <1>3
<1>5. state = "tokenize" /\ at = 1 /\ blocks = <<>>
  BY DEF Init
<1>6. at \in 1..(Len(tokens) + 2) /\ \A k \in 1..Len(servers) : servers[k].uri = ""
  BY <1>2, <1>5
<1> QED
  BY <1>1, <1>2, <1>4, <1>5, <1>6 DEF TypeInv

LEMMA FinishType ==
  ASSUME TypeInv, NEW s \in {"threw", "beyond"}, Finish(s)
  PROVE  TypeInv'
<1>1. /\ state' = s /\ file' = file /\ tokens' = tokens /\ at' = at
      /\ blocks' = blocks /\ servers' = servers
  BY DEF Finish
<1> QED
  BY <1>1 DEF TypeInv

LEMMA TokenizeType == TypeInv /\ Tokenize => TypeInv'
<1> SUFFICES ASSUME TypeInv, Tokenize PROVE TypeInv'
  OBVIOUS
<1>1. /\ file' = file /\ at' = at /\ blocks' = blocks /\ servers' = servers
      /\ state = "tokenize" /\ blocks = <<>>
      /\ \/ state' = "threw" /\ tokens' = tokens
         \/ state' = "parse" /\ tokens' = FlattenSeq(AllTokens(file))
  BY DEF Tokenize, TypeInv, AllTokens
<1>2. tokens' \in Seq(Token)
  BY <1>1, TokensAre DEF TypeInv
<1>3. at \in 1..(Len(tokens') + 2)
  <2>1. Len(tokens') \in Nat /\ at = 1
    BY <1>1, <1>2, LenProperties DEF TypeInv
  <2> QED
    BY <2>1
<1> QED
  BY <1>1, <1>2, <1>3 DEF TypeInv

LEMMA LookingIs ==
  ASSUME TypeInv, Looking
  PROVE  /\ Len(tokens) \in Nat /\ End = Len(tokens) + 1 /\ at \in Nat /\ at >= 1
         /\ at <= Len(tokens) /\ at < End /\ state = "parse"
<1>1. Len(tokens) \in Nat
  BY LenProperties DEF TypeInv
<1>2. at \in 1..(Len(tokens) + 2)
  BY DEF TypeInv
<1> QED
  BY <1>1, <1>2 DEF Looking, End

LEMMA AheadIs ==
  ASSUME TypeInv, Looking, NEW K \in SUBSET ((at + 1)..Len(tokens))
  PROVE  /\ Ahead(K) \in Nat /\ Ahead(K) >= at + 1
         /\ K # {} => Ahead(K) \in K /\ \A k \in K : Ahead(K) <= k
<1>1. CASE K = {}
  BY <1>1, LookingIs DEF Ahead
<1>2. CASE K # {}
  <2>1. K \in SUBSET Nat /\ IsFiniteSet(K)
    <3>1. at + 1 \in Int /\ Len(tokens) \in Int
      BY LookingIs
    <3>2. IsFiniteSet((at + 1)..Len(tokens))
      BY <3>1, FS_Interval
    <3>3. (at + 1)..Len(tokens) \subseteq Nat
      BY LookingIs
    <3> QED
      BY <3>2, <3>3, FS_Subset
  <2>2. PICK m \in K : Ahead(K) = m /\ \A k \in K : m <= k
    BY <1>2, <2>1, LeastIsMember DEF Ahead
  <2>3. m \in Nat /\ m >= at + 1
    BY LookingIs
  <2> QED
    BY <1>2, <2>2, <2>3
<1> QED
  BY <1>1, <1>2

LEMMA LastReadIs ==
  ASSUME TypeInv, Looking, NEW d \in Directives \ {"location"}
  PROVE  LastRead(d) \in Nat /\ LastRead(d) >= at + 1
<1>1. CASE d \in Singles
  <2>1. LastRead(d) = at + 1
    BY <1>1 DEF LastRead, Singles, Lists
  <2> QED
    BY <2>1, LookingIs
<1>2. CASE d = "return"
  <2>1. LastRead(d) = at + 2
    BY <1>2 DEF LastRead, Singles, Lists
  <2> QED
    BY <2>1, LookingIs
<1>3. CASE d = "methods"
  <2> DEFINE K == {k \in (at + 1)..Len(tokens) : tokens[k] \notin DOMAIN Comma}
  <2>1. LastRead(d) = Ahead(K)
    BY <1>3 DEF LastRead, Singles
  <2>2. K \in SUBSET ((at + 1)..Len(tokens))
    OBVIOUS
  <2> HIDE DEF K
  <2> QED
    BY <2>1, <2>2, AheadIs
<1>4. CASE d \in Lists \ {"methods"}
  <2> DEFINE K == {k \in (at + 1)..Len(tokens) : tokens[k] = Semicolon}
  <2>1. LastRead(d) = Ahead(K)
    BY <1>4 DEF LastRead, Singles, Lists
  <2>2. K \in SUBSET ((at + 1)..Len(tokens))
    OBVIOUS
  <2> HIDE DEF K
  <2> QED
    BY <2>1, <2>2, AheadIs
<1> QED
  BY <1>1, <1>2, <1>3, <1>4 DEF Directives

\* Where a directive that is read goes on.
LEMMA NextLookIs ==
  ASSUME TypeInv, Looking, NEW d \in Directives \ {"location"}, LastRead(d) < End
  PROVE  NextLook(d) \in 1..(Len(tokens) + 2) /\ NextLook(d) > at
<1>1. LastRead(d) \in Nat /\ LastRead(d) >= at + 1
  BY LastReadIs
<1>2. NextLook(d) = LastRead(d) + 1 \/ NextLook(d) = LastRead(d) + 2
  BY DEF NextLook
<1> QED
  BY <1>1, <1>2, LookingIs

\* Blocks under construction.
LEMMA NewBlockIs == IsBlock(NewBlock) /\ NewBlock.uri = ""
  BY DEF IsBlock, NewBlock

LEMMA SetKeepsBlock ==
  ASSUME NEW b, IsBlock(b), NEW x, NEW v
  PROVE  IsBlock([b EXCEPT !.set[x] = v]) /\ [b EXCEPT !.set[x] = v].uri = b.uri
  BY DEF IsBlock

LEMMA ListKeepsBlock ==
  ASSUME NEW b, IsBlock(b), NEW x, NEW v
  PROVE  IsBlock([b EXCEPT !.lists[x] = v]) /\ [b EXCEPT !.lists[x] = v].uri = b.uri
  BY DEF IsBlock

LEMMA LocationsKeepBlock ==
  ASSUME NEW b, IsBlock(b), NEW v
  PROVE  IsBlock([b EXCEPT !.locations = v]) /\ [b EXCEPT !.locations = v].uri = b.uri
  BY DEF IsBlock

LEMMA UriKeepsBlock ==
  ASSUME NEW b, IsBlock(b), NEW v
  PROVE  IsBlock([b EXCEPT !.uri = v])
  BY DEF IsBlock

LEMMA AssignIs ==
  ASSUME NEW b, IsBlock(b), NEW d \in Directives \ {"location"}
  PROVE  IsBlock(Assign(b, d)) /\ Assign(b, d).uri = b.uri
<1>1. CASE d \in Lists
  <2>1. PICK v : v = b.lists[d] \o Values(d)
    OBVIOUS
  <2>2. Assign(b, d) = [b EXCEPT !.lists[d] = v]
    BY <1>1, <2>1 DEF Assign
  <2> QED
    BY <2>2, ListKeepsBlock
<1>2. CASE d = "return"
  <2> DEFINE v == [b.set EXCEPT !["status"] = Number(tokens[at + 1]), !["return"] = tokens[at + 2]]
  <2>1. Assign(b, d) = [b EXCEPT !.set = v]
    BY <1>2 DEF Assign, Lists
  <2>2. DOMAIN v = DOMAIN b.set
    OBVIOUS
  <2> HIDE DEF v
  <2> QED
    BY <2>1, <2>2 DEF IsBlock
<1>3. CASE d \notin Lists /\ d # "return"
  <2>1. Assign(b, d) = [b EXCEPT !.set[d] = Value(b, d)]
    BY <1>3 DEF Assign
  <2> QED
    BY <2>1, SetKeepsBlock
<1> QED
  BY <1>1, <1>2, <1>3

\* The last member of a sequence exchanged, or one more put behind it.
Exchanged(r, s, x) ==
  /\ Len(r) = Len(s) /\ r[Len(s)] = x
  /\ \A k \in 1..Len(s) : k # Len(s) => r[k] = s[k]

LEMMA LastExchanged ==
  ASSUME NEW S, NEW s \in Seq(S), s # <<>>, NEW x
  PROVE  /\ Len(s) \in Nat /\ Len(s) >= 1 /\ Last(s) = s[Len(s)] /\ Last(s) \in S
         /\ Append(Front(s), x) \in Seq(S \cup {x}) /\ Exchanged(Append(Front(s), x), s, x)
<1>1. Len(s) \in Nat /\ Len(s) >= 1 /\ \A k \in 1..Len(s) : s[k] \in S
  BY EmptySeq, LenProperties, ElementOfSeq
<1>2. PICK n \in Nat : n = Len(s) - 1 /\ Len(s) = n + 1
  BY <1>1
<1>3. /\ Front(s) \in Seq(S \cup {x}) /\ Len(Front(s)) = n
      /\ \A k \in 1..n : Front(s)[k] = s[k]
  <2>1. \A k \in 1..n : s[k] \in S \cup {x}
    BY <1>1, <1>2
  <2>2. 1 \in Int /\ n \in Int /\ (\A k \in 1..n : 1 + k - 1 = k) /\ n - 1 + 1 = n
        /\ (IF 1 <= n THEN n ELSE 0) = n
    OBVIOUS
  <2>3. Front(s) = SubSeq(s, 1, n)
    BY <1>2 DEF Front
  <2>4. /\ SubSeq(s, 1, n) \in Seq(S \cup {x})
        /\ Len(SubSeq(s, 1, n)) = IF 1 <= n THEN n - 1 + 1 ELSE 0
        /\ \A k \in 1..(n - 1 + 1) : SubSeq(s, 1, n)[k] = s[1 + k - 1]
    BY <2>1, <2>2, SubSeqProperties
  <2> QED
    BY <2>2, <2>3, <2>4
<1>4. /\ Append(Front(s), x) \in Seq(S \cup {x}) /\ Len(Append(Front(s), x)) = n + 1
      /\ \A k \in 1..n : Append(Front(s), x)[k] = Front(s)[k]
      /\ Append(Front(s), x)[n + 1] = x
  BY <1>3, AppendProperties
<1>5. Last(s) = s[Len(s)] /\ Len(s) \in 1..Len(s)
  BY <1>1 DEF Last
<1>6. PICK r : r = Append(Front(s), x)
  OBVIOUS
<1>7. r \in Seq(S \cup {x}) /\ Len(r) = n + 1 /\ r[n + 1] = x /\ \A k \in 1..n : r[k] = s[k]
  BY <1>3, <1>4, <1>6
<1>8. \A k \in 1..(n + 1) : k # n + 1 => k \in 1..n
  OBVIOUS
<1>9. Exchanged(r, s, x)
  BY <1>2, <1>7, <1>8 DEF Exchanged
<1> QED
  BY <1>1, <1>5, <1>6, <1>7, <1>9

LEMMA OneMore ==
  ASSUME NEW S, NEW s \in Seq(S), NEW x
  PROVE  /\ Append(s, x) \in Seq(S \cup {x}) /\ Len(Append(s, x)) = Len(s) + 1 /\ Len(s) \in Nat
         /\ \A k \in 1..Len(s) : Append(s, x)[k] = s[k]
         /\ Append(s, x)[Len(s) + 1] = x
<1>1. s \in Seq(S \cup {x})
  BY SeqMonotonic
<1> QED
  BY <1>1, AppendProperties, LenProperties

\* The blocks after each action.
LEMMA OpenServerType ==
  ASSUME TypeInv, OpenServer
  PROVE  TypeInv'
<1>1. CASE Finish("beyond") \/ Finish("threw")
  BY <1>1, FinishType
<1>2. CASE ~(Finish("beyond") \/ Finish("threw"))
  <2>1. /\ Looking /\ blocks' = <<NewBlock>> /\ at' = at + 2 /\ at + 1 # End
        /\ file' = file /\ state' = state /\ tokens' = tokens /\ servers' = servers
    BY <1>2 DEF OpenServer
  <2>2. PICK S : servers \in Seq(S) /\ \A b \in S : IsBlock(b)
    BY DEF TypeInv
  <2>3. PICK b : b = NewBlock
    OBVIOUS
  <2>4. b \in S \cup {b} /\ \A c \in S \cup {b} : IsBlock(c)
    BY <2>2, <2>3, NewBlockIs
  <2>5. servers \in Seq(S \cup {b}) /\ <<b>> \in Seq(S \cup {b})
    BY <2>2, <2>4, SeqMonotonic, ShortSeqs
  <2>6. blocks'[1].uri = ""
    BY <2>1, NewBlockIs
  <2>7. at' \in 1..(Len(tokens) + 2)
    BY <2>1, LookingIs
  <2>8. \E T : blocks' \in Seq(T) /\ servers' \in Seq(T) /\ \A c \in T : IsBlock(c)
    BY <2>1, <2>3, <2>4, <2>5
  <2>9. state' = "parse"
    BY <2>1 DEF Looking
  <2> QED
    BY <2>1, <2>6, <2>7, <2>8, <2>9 DEF TypeInv
<1> QED
  BY <1>1, <1>2

LEMMA OpenLocationType ==
  ASSUME TypeInv, OpenLocation
  PROVE  TypeInv'
<1>1. CASE Finish("beyond") \/ Finish("threw")
  BY <1>1, FinishType
<1>2. CASE ~(Finish("beyond") \/ Finish("threw"))
  <2>1. /\ Looking /\ at' = at + 3 /\ at + 2 < End /\ blocks # <<>>
        /\ blocks' = Append(blocks, NewLocation(tokens[at + 1]))
        /\ file' = file /\ state' = state /\ tokens' = tokens /\ servers' = servers
    BY <1>2 DEF OpenLocation, Inside
  <2>2. PICK S : blocks \in Seq(S) /\ servers \in Seq(S) /\ \A b \in S : IsBlock(b)
    BY DEF TypeInv
  <2>3. PICK b : b = NewLocation(tokens[at + 1])
    OBVIOUS
  <2>4. IsBlock(b)
    BY <2>1, <2>2, <2>3, LastExchanged, UriKeepsBlock DEF NewLocation, Top
  <2>5. blocks' \in Seq(S \cup {b}) /\ servers' \in Seq(S \cup {b}) /\ \A c \in S \cup {b} : IsBlock(c)
    BY <2>1, <2>2, <2>3, <2>4, OneMore, SeqMonotonic
  <2>6. blocks'[1].uri = ""
    <3>1. 1 \in 1..Len(blocks)
      BY <2>1, <2>2, LastExchanged
    <3>2. blocks'[1] = blocks[1]
      BY <2>1, <2>2, <2>3, <3>1, OneMore
    <3> QED
      BY <2>1, <3>2 DEF TypeInv
  <2>7. at' \in 1..(Len(tokens) + 2)
    BY <2>1, LookingIs
  <2>8. state' = "parse"
    BY <2>1 DEF Looking
  <2> QED
    BY <2>1, <2>5, <2>6, <2>7, <2>8 DEF TypeInv
<1> QED
  BY <1>1, <1>2

LEMMA DirectiveType ==
  ASSUME TypeInv, Directive
  PROVE  TypeInv'
<1>1. CASE Finish("beyond") \/ Finish("threw")
  BY <1>1, FinishType
<1>2. CASE ~(Finish("beyond") \/ Finish("threw"))
  <2>1. PICK d \in Directives \ {"location"} :
          /\ Looking /\ at' = NextLook(d) /\ LastRead(d) < End /\ blocks # <<>>
          /\ blocks' = Append(Front(blocks), Assign(Top, d))
          /\ file' = file /\ state' = state /\ tokens' = tokens /\ servers' = servers
    BY <1>2 DEF Directive, Inside
  <2>2. PICK S : blocks \in Seq(S) /\ servers \in Seq(S) /\ \A b \in S : IsBlock(b)
    BY DEF TypeInv
  <2>3. PICK b \in {Assign(Top, d)}, t \in {Top} : b = Assign(Top, d) /\ t = Top
    OBVIOUS
  <2>4. t \in S /\ t = blocks[Len(blocks)] /\ Len(blocks) \in Nat /\ Len(blocks) >= 1
    BY <2>1, <2>2, <2>3, LastExchanged DEF Top
  <2>5. IsBlock(b) /\ b.uri = t.uri
    <3>1. IsBlock(t)
      BY <2>2, <2>4
    <3>2. b = Assign(t, d)
      BY <2>3
    <3> QED
      BY <3>1, <3>2, AssignIs
  <2>6. blocks' \in Seq(S \cup {b}) /\ Exchanged(blocks', blocks, b)
    <3>1. PICK s \in Seq(S) : s = blocks
      BY <2>2
    <3>2. s # <<>>
      BY <2>1, <3>1
    <3>3. Append(Front(s), b) \in Seq(S \cup {b}) /\ Exchanged(Append(Front(s), b), s, b)
      BY <3>2, LastExchanged
    <3> QED
      BY <2>1, <2>3, <3>1, <3>3
  <2>7. servers' \in Seq(S \cup {b}) /\ \A c \in S \cup {b} : IsBlock(c)
    BY <2>1, <2>2, <2>5, SeqMonotonic
  <2>8. blocks'[1].uri = ""
    <3>1. 1 \in 1..Len(blocks)
      BY <2>4
    <3> QED
      BY <2>1, <2>4, <2>5, <2>6, <3>1 DEF TypeInv, Exchanged
  <2>9. at' \in 1..(Len(tokens) + 2)
    BY <2>1, NextLookIs
  <2>10. state' = "parse"
    BY <2>1 DEF Looking
  <2> QED
    BY <2>1, <2>6, <2>7, <2>8, <2>9, <2>10 DEF TypeInv
<1> QED
  BY <1>1, <1>2

LEMMA CloseBlockType ==
  ASSUME TypeInv, CloseBlock
  PROVE  TypeInv' /\ Len(blocks) \in Nat /\ Len(blocks') = Len(blocks) - 1
<1>1. /\ Looking /\ at' = at + 1 /\ blocks # <<>>
      /\ file' = file /\ state' = state /\ tokens' = tokens
  BY DEF CloseBlock, Inside
<1>2. PICK S : blocks \in Seq(S) /\ servers \in Seq(S) /\ \A b \in S : IsBlock(b)
  BY DEF TypeInv
<1>3. PICK t : t = Top
  OBVIOUS
<1>4. t \in S /\ t = blocks[Len(blocks)] /\ Len(blocks) \in Nat /\ Len(blocks) >= 1
  BY <1>1, <1>2, <1>3, LastExchanged DEF Top
<1>5. at' \in 1..(Len(tokens) + 2)
  BY <1>1, LookingIs
<1>6. state' = "parse"
  BY <1>1 DEF Looking
<1>7. CASE Len(blocks) = 1
  <2>1. servers' = Append(servers, t) /\ blocks' = <<>>
    BY <1>3, <1>7 DEF CloseBlock
  <2>2. /\ servers' \in Seq(S) /\ Len(servers') = Len(servers) + 1 /\ Len(servers) \in Nat
        /\ \A k \in 1..Len(servers) : servers'[k] = servers[k]
        /\ servers'[Len(servers) + 1] = t
    <3>1. S \cup {t} = S
      BY <1>4
    <3> QED
      BY <1>2, <2>1, <3>1, OneMore
  <2>3. t.uri = ""
    BY <1>1, <1>4, <1>7 DEF TypeInv
  <2>4. \A k \in 1..Len(servers') : servers'[k].uri = ""
    <3>1. \A k \in 1..Len(servers') : k \in 1..Len(servers) \/ k = Len(servers) + 1
      BY <2>2
    <3> QED
      BY <2>2, <2>3, <3>1 DEF TypeInv
  <2>5. blocks' \in Seq(S) /\ Len(blocks') = 0
    BY <2>1, EmptySeq
  <2>6. TypeInv'
    BY <1>1, <1>2, <1>5, <1>6, <2>1, <2>2, <2>4, <2>5 DEF TypeInv
  <2> QED
    BY <1>4, <1>7, <2>5, <2>6
<1>8. CASE Len(blocks) # 1
  <2>1. PICK n \in Nat \ {0} : Len(blocks) = n + 1 /\ n = Len(blocks) - 1
    <3>1. \A m \in Nat : m >= 1 /\ m # 1 => m - 1 \in Nat \ {0} /\ m = (m - 1) + 1
      OBVIOUS
    <3>2. Len(blocks) - 1 \in Nat \ {0} /\ Len(blocks) = (Len(blocks) - 1) + 1
      BY <1>4, <1>8, <3>1
    <3> QED
      BY <3>2
  <2>2. PICK f : f = Front(blocks)
    OBVIOUS
  <2>3. f \in [1..n -> S] /\ \A k \in 1..n : f[k] = blocks[k]
    <3>1. \A k \in 1..n : blocks[k] \in S
      BY <1>2, <2>1, ElementOfSeq
    <3>2. 1 \in Int /\ n \in Int /\ (\A k \in 1..n : 1 + k - 1 = k) /\ n - 1 + 1 = n /\ 1 <= n
      OBVIOUS
    <3>3. f = SubSeq(blocks, 1, n)
      BY <2>1, <2>2 DEF Front
    <3>4. /\ SubSeq(blocks, 1, n) \in Seq(S) /\ Len(SubSeq(blocks, 1, n)) = n
          /\ \A k \in 1..n : SubSeq(blocks, 1, n)[k] = blocks[k]
      <4>1. /\ SubSeq(blocks, 1, n) \in Seq(S)
            /\ Len(SubSeq(blocks, 1, n)) = IF 1 <= n THEN n - 1 + 1 ELSE 0
            /\ \A k \in 1..(n - 1 + 1) : SubSeq(blocks, 1, n)[k] = blocks[1 + k - 1]
        BY <3>1, <3>2, SubSeqProperties
      <4> QED
        BY <3>2, <4>1
    <3> QED
      BY <3>3, <3>4, LenProperties
  <2>4. PICK c : c = [f[n] EXCEPT !.locations = Append(f[n].locations, t)]
    OBVIOUS
  <2>5. blocks' = [f EXCEPT ![n] = c] /\ servers' = servers
    <3>1. n \in 1..n
      OBVIOUS
    <3> QED
      BY <1>3, <1>8, <2>1, <2>2, <2>3, <2>4, <3>1 DEF CloseBlock
  <2>6. IsBlock(c) /\ c.uri = f[n].uri
    <3>1. IsBlock(f[n])
      BY <1>2, <2>3
    <3> QED
      BY <2>4, <3>1, LocationsKeepBlock
  <2>7. blocks' \in Seq(S \cup {c}) /\ Len(blocks') = n
    <3>1. blocks' \in [1..n -> S \cup {c}]
      BY <2>3, <2>5
    <3> QED
      BY <3>1, FcnIsSeq
  <2>8. servers' \in Seq(S \cup {c}) /\ \A b \in S \cup {c} : IsBlock(b)
    BY <1>2, <2>5, <2>6, SeqMonotonic
  <2>9. blocks'[1].uri = ""
    <3>1. 1 \in 1..n
      OBVIOUS
    <3>4. blocks[1].uri = ""
      BY <1>1 DEF TypeInv
    <3>2. f[1].uri = ""
      BY <2>3, <3>1, <3>4
    <3> QED
      BY <2>3, <2>5, <2>6, <3>1, <3>2
  <2>10. TypeInv'
    BY <1>1, <1>5, <1>6, <2>5, <2>7, <2>8, <2>9 DEF TypeInv
  <2> QED
    BY <1>4, <2>1, <2>7, <2>10
<1> QED
  BY <1>7, <1>8

LEMMA NextType == TypeInv /\ [Next]_vars => TypeInv'
<1> SUFFICES ASSUME TypeInv, [Next]_vars PROVE TypeInv'
  OBVIOUS
<1>1. CASE Tokenize
  BY <1>1, TokenizeType
<1>2. CASE Done
  BY <1>2 DEF Done, Finish, Inside, TypeInv
<1>3. CASE Beyond
  BY <1>3, FinishType DEF Beyond
<1>4. CASE Skip
  <2>1. Looking /\ at' = at + 1 /\ UNCHANGED <<file, state, tokens, blocks, servers>>
    BY <1>4 DEF Skip
  <2>2. at' \in 1..(Len(tokens) + 2) /\ state = "parse"
    BY <2>1, LookingIs
  <2> QED
    BY <2>1, <2>2 DEF TypeInv
<1>5. CASE OpenServer \/ OpenLocation \/ CloseBlock \/ Directive
  BY <1>5, OpenServerType, OpenLocationType, CloseBlockType, DirectiveType
<1>6. CASE UNCHANGED vars
  BY <1>6 DEF vars, TypeInv
<1> QED
  BY <1>1, <1>2, <1>3, <1>4, <1>5, <1>6 DEF Next

LEMMA TypeInvHolds == Spec => []TypeInv
  BY InitType, NextType, PTL DEF Spec

\* Whatever a file holds, and however deep its blocks are nested: the iterator is
\* never more than one token past end(), no block is left when reading is done,
\* and what stands in g_servers are servers, each with all its fields.
THEOREM TypeCorrect == Spec => []TypeOK
  BY TypeInvHolds, TypeInvGivesTypeOK, PTL

----------------------------------------------------------------------------
(* The iterator.                                                           *)

Advances == state = "parse" /\ state' = "parse" => at <= Len(tokens) /\ at' > at /\ tokens' = tokens

LEMMA StepAdvances ==
  ASSUME TypeInv, Next
  PROVE  Advances
<1> SUFFICES ASSUME state = "parse", state' = "parse"
             PROVE  at <= Len(tokens) /\ at' > at /\ tokens' = tokens
  BY DEF Advances
<1>1. ~Tokenize /\ ~Done /\ ~Beyond
  BY DEF Tokenize, Done, Beyond, Finish
<1>2. ~Finish("beyond") /\ ~Finish("threw")
  BY DEF Finish
<1>3. CASE Skip \/ CloseBlock
  <2>1. Looking /\ at' = at + 1 /\ tokens' = tokens
    BY <1>3 DEF Skip, CloseBlock
  <2> QED
    BY <2>1, LookingIs
<1>4. CASE OpenServer
  <2>1. Looking /\ at' = at + 2 /\ tokens' = tokens
    BY <1>2, <1>4 DEF OpenServer
  <2> QED
    BY <2>1, LookingIs
<1>5. CASE OpenLocation
  <2>1. Looking /\ at' = at + 3 /\ tokens' = tokens
    BY <1>2, <1>5 DEF OpenLocation
  <2> QED
    BY <2>1, LookingIs
<1>6. CASE Directive
  <2>1. PICK d \in Directives \ {"location"} :
          Looking /\ at' = NextLook(d) /\ LastRead(d) < End /\ tokens' = tokens
    BY <1>2, <1>6 DEF Directive
  <2> QED
    BY <2>1, LookingIs, NextLookIs
<1> QED
  BY <1>1, <1>3, <1>4, <1>5, <1>6 DEF Next

\* The nested loops of the directives share one iterator and each of them may
\* stop on a token another has passed.  For any file: every pass of one of them
\* looks at a token and leaves the iterator behind it, so that there are no more
\* passes than tokens (what ParserEnds rests on).
THEOREM EveryPassAdvances == Spec => [][Advances]_vars
<1>1. TypeInv /\ [Next]_vars => [Advances]_vars
  BY StepAdvances
<1> QED
  BY <1>1, TypeInvHolds, PTL DEF Spec

----------------------------------------------------------------------------
(* The tokens of a line.                                                   *)

\* No loop of the parser stops on these.
Passive(x) == x \notin Directives \cup {"server", RightBrace}

\* How many ';' end a word.
Ended(x) == IF x.semi THEN 1 ELSE 0

LEMMA EndedIs ==
  ASSUME NEW x
  PROVE  /\ Ended(x) \in {0, 1} /\ (x.semi => Ended(x) = 1) /\ (~x.semi => Ended(x) = 0)
  BY Zenon DEF Ended

LEMMA ShortLens ==
  ASSUME NEW x, NEW y
  PROVE  /\ Len(<<x>>) = 1 /\ <<x>>[1] = x
         /\ Len(<<x, y>>) = 2 /\ <<x, y>>[1] = x /\ <<x, y>>[2] = y
  OBVIOUS

LEMMA WordTokensAre ==
  ASSUME NEW x \in Word
  PROVE  /\ WordTokens(x)[1] = x.w /\ Len(WordTokens(x)) = 1 + Ended(x)
         /\ Ended(x) = 1 => WordTokens(x)[2] = Semicolon
<1>1. CASE x.semi
  <2>1. WordTokens(x) = <<x.w, Semicolon>>
    BY <1>1, Zenon DEF WordTokens
  <2>2. Ended(x) = 1
    BY <1>1, EndedIs, Zenon
  <2>3. Len(WordTokens(x)) = 2 /\ WordTokens(x)[1] = x.w /\ WordTokens(x)[2] = Semicolon
    BY <2>1, ShortLens
  <2>4. Len(WordTokens(x)) = 1 + Ended(x)
    BY <2>2, <2>3
  <2> QED
    BY <2>3, <2>4, Zenon
<1>2. CASE ~x.semi
  <2>1. WordTokens(x) = <<x.w>>
    BY <1>2, Zenon DEF WordTokens
  <2>2. Ended(x) = 0
    BY <1>2, EndedIs, Zenon
  <2>3. Len(WordTokens(x)) = 1 /\ WordTokens(x)[1] = x.w
    BY <2>1, ShortLens, Zenon
  <2>4. Len(WordTokens(x)) = 1 + Ended(x) /\ Ended(x) # 1
    BY <2>2, <2>3
  <2> QED
    BY <2>3, <2>4, Zenon
<1> QED
  BY <1>1, <1>2, Zenon

\* Word k has its token behind o[k] others, and a ';' after it if it ends in one.
At(u, o, W, e, k) ==
  /\ u[o[k] + 1] = W[k].w /\ o[k + 1] = o[k] + 1 + e
  /\ e = 1 => u[o[k] + 2] = Semicolon

WordsPlaced(u, o, W, n) ==
  /\ o \in [1..(n + 1) -> Nat] /\ o[1] = 0 /\ Len(u) = o[n + 1]
  /\ \A k \in 1..n : At(u, o, W, Ended(W[k]), k)

Pieced(P, W, n) ==
  Len(P) = n /\ \A k \in 1..n : W[k] \in Word /\ P[k] = WordTokens(W[k])

LEMMA PlacesOfWords ==
  ASSUME NEW n \in Nat, NEW W, NEW P, NEW u, NEW o, PlacesIn(P, u, o), Pieced(P, W, n)
  PROVE  WordsPlaced(u, o, W, n)
<1>1. o \in [1..(n + 1) -> Nat] /\ o[1] = 0 /\ Len(u) = o[n + 1]
  BY DEF PlacesIn, Pieced
<1>2. ASSUME NEW k \in 1..n
      PROVE  At(u, o, W, Ended(W[k]), k)
  <2>1. PICK x \in Word : x = W[k]
    BY <1>2 DEF Pieced
  <2>2. PICK v : v = WordTokens(x)
    OBVIOUS
  <2>3. o[k + 1] = o[k] + Len(v) /\ \A j \in 1..Len(v) : u[o[k] + j] = v[j]
    BY <2>1, <2>2 DEF PlacesIn, Pieced
  <2>4. PICK e \in {0, 1} : e = Ended(x)
    BY EndedIs
  <2>5. v[1] = x.w /\ Len(v) = 1 + e /\ (e = 1 => v[2] = Semicolon)
    BY <2>2, <2>4, WordTokensAre
  <2>6. 1 \in 1..Len(v) /\ (e = 1 => 2 \in 1..Len(v))
    BY <2>4, <2>5
  <2>7. u[o[k] + 1] = W[k].w
    BY <2>1, <2>3, <2>5, <2>6
  <2>8. o[k] \in Nat
    BY <1>1
  <2>9. o[k + 1] = o[k] + 1 + e
    BY <2>3, <2>4, <2>5, <2>8
  <2>10. e = 1 => u[o[k] + 2] = Semicolon
    BY <2>3, <2>5, <2>6
  <2> QED
    BY <2>1, <2>4, <2>7, <2>9, <2>10 DEF At
<1> QED
  BY <1>1, <1>2 DEF WordsPlaced

\* The tokens of a line whose last word only may end in ';'.
EndsOnce(W, n) == \A k \in 1..n : k # n => Ended(W[k]) = 0

WordsInTokens(u, W, n) ==
  /\ \A k \in 1..n : u[k] = W[k].w
  /\ Len(u) = n + (IF n = 0 THEN 0 ELSE Ended(W[n]))
  /\ n # 0 /\ Ended(W[n]) = 1 => u[n + 1] = Semicolon

LEMMA WordsBecomeTokens ==
  ASSUME NEW line \in Seq(Word), NEW n \in Nat, NEW W, NEW u,
         W = Words(line), n = Len(W), u = LineTokens(line), EndsOnce(W, n)
  PROVE  WordsInTokens(u, W, n)
<1>1. \A k \in 1..n : W[k] \in Word
  BY WordsAre, ElementOfSeq
<1>2. PICK P : P = Pieces(line)
  OBVIOUS
<1>3. /\ P \in Seq(Seq(Token)) /\ Len(P) = n
      /\ \A k \in 1..n : P[k] = WordTokens(W[k])
      /\ u = FlattenSeq(P)
  BY <1>2, PiecesAre
<1>4. PICK o : PlacesIn(P, u, o)
  BY <1>3, FlattenPlaces
<1>5. /\ o \in [1..(n + 1) -> Nat] /\ o[1] = 0 /\ Len(u) = o[n + 1]
      /\ \A k \in 1..n : At(u, o, W, Ended(W[k]), k)
  <2>1. Pieced(P, W, n)
    BY <1>1, <1>3 DEF Pieced
  <2> QED
    <3>1. WordsPlaced(u, o, W, n)
      BY <1>4, <2>1, PlacesOfWords
    <3> QED
      BY <3>1 DEF WordsPlaced
<1> DEFINE S == {m \in Nat : m \in 1..n => o[m] = m - 1}
<1>6. 0 \in S
  OBVIOUS
<1>7. ASSUME NEW m \in Nat, m \in S PROVE m + 1 \in S
  <2> SUFFICES ASSUME m + 1 \in 1..n PROVE o[m + 1] = m
    OBVIOUS
  <2>1. CASE m = 0
    BY <1>5, <2>1
  <2>2. CASE m # 0
    <3>1. m \in 1..n /\ m # n
      BY <2>2
    <3>2. o[m] = m - 1
      BY <1>7, <3>1
    <3>3. Ended(W[m]) = 0
      BY <3>1 DEF EndsOnce
    <3>4. o[m + 1] = o[m] + 1 + 0
      BY <1>5, <3>1, <3>3 DEF At
    <3> QED
      BY <3>1, <3>2, <3>4
  <2> QED
    BY <2>1, <2>2
<1> HIDE DEF S
<1>8. \A m \in 1..n : o[m] = m - 1
  <2>1. Nat \subseteq S
    BY <1>6, <1>7, Reaches
  <2> QED
    BY <2>1 DEF S
<1>9. \A k \in 1..n : u[k] = W[k].w
  <2> SUFFICES ASSUME NEW k \in 1..n PROVE u[k] = W[k].w
    OBVIOUS
  <2>1. o[k] + 1 = k
    BY <1>8
  <2> QED
    BY <1>5, <2>1 DEF At
<1>10. CASE n = 0
  BY <1>5, <1>9, <1>10 DEF WordsInTokens
<1>11. CASE n # 0
  <2>1. n \in 1..n /\ o[n] = n - 1
    BY <1>8, <1>11
  <2>2. o[n] + 1 = n /\ o[n] + 2 = n + 1
    BY <2>1
  <2>3. PICK e \in {0, 1} : e = Ended(W[n])
    BY EndedIs
  <2>4. o[n + 1] = o[n] + 1 + e /\ (e = 1 => u[o[n] + 2] = Semicolon)
    BY <1>5, <2>1, <2>3 DEF At
  <2> QED
    BY <1>5, <1>9, <1>11, <2>2, <2>3, <2>4 DEF WordsInTokens
<1> QED
  BY <1>10, <1>11

\* What all words of a line are, its tokens are.
LEMMA TokensFrom ==
  ASSUME NEW line \in Seq(Word), NEW X, \A x \in {Semicolon} : x \in X,
         \A k \in 1..Len(Words(line)) : Words(line)[k].w \in X
  PROVE  LineTokens(line) \in Seq(X)
<1>1. /\ DOMAIN Words(line) = 1..Len(Words(line)) /\ Len(Words(line)) \in Nat
      /\ \A k \in 1..Len(Words(line)) : Words(line)[k] \in Word
  BY WordsAre, ElementOfSeq, LenProperties
<1>2. ASSUME NEW k \in 1..Len(Words(line)) PROVE WordTokens(Words(line)[k]) \in Seq(X)
  <2>1. PICK w \in X : w = Words(line)[k].w
    OBVIOUS
  <2>2. PICK s \in X : s = Semicolon
    OBVIOUS
  <2>3. <<w>> \in Seq(X) /\ <<w, s>> \in Seq(X)
    BY ShortSeqs
  <2> QED
    BY <2>1, <2>2, <2>3 DEF WordTokens
<1>3. Pieces(line) \in [1..Len(Words(line)) -> Seq(X)]
  BY <1>1, <1>2 DEF Pieces
<1>4. Pieces(line) \in Seq(Seq(X))
  BY <1>1, <1>3, FcnIsSeq
<1> QED
  BY <1>4, PiecesAre, FlattenPlaces

\* What a line holds.
LineOf(line, W, n) ==
  /\ W = Words(line) /\ n = Len(W) /\ n \in Nat
  /\ DOMAIN W = 1..n /\ \A k \in 1..n : W[k] \in Word
  /\ n # 0 => Name(line) = W[1].w /\ W[1] = line[1]
  /\ n = 0 => Name(line) \in {"", "#"}
  /\ DOMAIN Plain(line) = 1..n /\ \A k \in 1..n : Plain(line)[k] = W[k].w

LEMMA LineIs ==
  ASSUME NEW line \in Seq(Word)
  PROVE  LineOf(line, Words(line), Len(Words(line)))
<1> DEFINE W == Words(line)
           n == Len(W)
<1> HIDE DEF W, n
<1>0. W = Words(line) /\ n = Len(W)
  BY DEF W, n
<1>1. /\ W \in Seq(Word) /\ n \in Nat /\ Len(line) \in Nat /\ n <= Len(line)
      /\ \A k \in 1..n : W[k] = line[k]
      /\ n = 0 => Len(line) = 0 \/ line[1].w = "#"
  BY <1>0, WordsAre
<1>2. DOMAIN W = 1..n /\ \A k \in 1..n : W[k] \in Word
  BY <1>0, <1>1, ElementOfSeq, LenProperties
<1>3. line = <<>> => Len(line) = 0
  BY EmptySeq
<1>4. n # 0 => Name(line) = W[1].w /\ W[1] = line[1]
  <2>1. n # 0 => 1 \in 1..n /\ Len(line) # 0
    BY <1>1
  <2> QED
    BY <1>1, <1>3, <2>1 DEF Name
<1>5. n = 0 => Name(line) \in {"", "#"}
  <2>1. Len(line) = 0 => line = <<>>
    BY EmptySeq
  <2> QED
    BY <1>1, <2>1 DEF Name
<1> QED
  BY <1>0, <1>1, <1>2, <1>4, <1>5 DEF Plain, LineOf

ValuesOf(line, W, n) ==
  /\ Len(ValuesIn(line)) = n - 1 /\ DOMAIN ValuesIn(line) = 1..(n - 1)
  /\ \A k \in 1..(n - 1) : ValuesIn(line)[k] = W[k + 1].w

LEMMA ValuesAre ==
  ASSUME NEW line, NEW W, NEW n, LineOf(line, W, n), n # 0
  PROVE  ValuesOf(line, W, n)
<1>1. /\ n \in Nat /\ W = Words(line) /\ DOMAIN W = 1..n /\ \A k \in 1..n : W[k] \in Word
      /\ DOMAIN Plain(line) = 1..n /\ \A k \in 1..n : Plain(line)[k] = W[k].w
  BY DEF LineOf
<1>2. PICK s : s = Plain(line)
  OBVIOUS
<1>3. s \in [1..n -> STRING]
  <2>1. s = [k \in 1..n |-> W[k].w]
    BY <1>1, <1>2 DEF Plain
  <2>2. \A k \in 1..n : W[k].w \in STRING
    BY <1>1 DEF Word
  <2> QED
    BY <2>1, <2>2
<1>4. s \in Seq(STRING) /\ Len(s) = n
  BY <1>1, <1>3, FcnIsSeq
<1>5. s # <<>>
  BY <1>4, EmptySeq
<1>6. /\ Tail(s) \in Seq(STRING) /\ Len(Tail(s)) = n - 1
      /\ \A k \in 1..Len(Tail(s)) : Tail(s)[k] = s[k + 1]
  BY <1>4, <1>5, HeadTailProperties
<1>7. DOMAIN Tail(s) = 1..Len(Tail(s))
  BY <1>6, LenProperties
<1>8. \A k \in 1..(n - 1) : k + 1 \in 1..n
  BY <1>1
<1> QED
  BY <1>1, <1>2, <1>6, <1>7, <1>8 DEF ValuesIn, ValuesOf

LEMMA BareIs ==
  ASSUME NEW x \in Word, NEW w
  PROVE  /\ Bare(x, w) => x.w = w /\ Ended(x) = 0
         /\ x.w = w /\ ~x.semi => Bare(x, w)
<1>1. ASSUME Bare(x, w) PROVE x.w = w /\ Ended(x) = 0
  <2>1. x = [w |-> w, semi |-> FALSE]
    BY <1>1 DEF Bare
  <2>2. x.w = w /\ x.semi = FALSE
    BY <2>1
  <2>3. ~x.semi
    BY <2>2, Zenon
  <2> QED
    BY <2>2, <2>3, EndedIs, Zenon
<1>2. ASSUME x.w = w, ~x.semi PROVE Bare(x, w)
  <2>1. x.semi \in BOOLEAN
    BY DEF Word
  <2>2. x.semi = FALSE
    BY <1>2, <2>1, Zenon
  <2>3. x = [w |-> x.w, semi |-> x.semi]
    BY DEF Word
  <2> QED
    BY <1>2, <2>2, <2>3, Zenon DEF Bare
<1> QED
  BY <1>1, <1>2, Zenon

LEMMA Punctuation ==
  /\ \A x \in {Semicolon, LeftBrace, RightBrace} : x \notin Directives \cup {"server", "", "#"}
  /\ Semicolon # RightBrace /\ Semicolon # LeftBrace /\ LeftBrace # RightBrace
<1>1. ";" \notin Directives \cup {"server", "", "#"}
  BY Zenon DEF Directives, Lists, Singles
<1>2. "{" \notin Directives \cup {"server", "", "#"}
  BY Zenon DEF Directives, Lists, Singles
<1>3. "}" \notin Directives \cup {"server", "", "#"}
  BY Zenon DEF Directives, Lists, Singles
<1>4. ";" # "}" /\ ";" # "{" /\ "{" # "}"
  BY Zenon
<1> QED
  BY <1>1, <1>2, <1>3, <1>4, Zenon DEF Semicolon, LeftBrace, RightBrace

LEMMA PassiveAre ==
  /\ Passive(Semicolon) /\ Passive(LeftBrace)
  /\ \A x : x \notin Special => Passive(x)
<1>1. Passive(Semicolon) /\ Passive(LeftBrace)
  BY Punctuation DEF Passive
<1>2. \A x : x \notin Special => Passive(x)
  BY DEF Passive, Special
<1> QED
  BY <1>1, <1>2

----------------------------------------------------------------------------
(* The kinds of lines.                                                     *)

ServerTokens(u)   == Len(u) = 2 /\ u[1] = "server" /\ u[2] = LeftBrace
LocationTokens(u) == Len(u) = 3 /\ u[1] = "location" /\ u[2] \notin Special /\ u[3] = LeftBrace
CloseTokens(u)    == Len(u) = 1 /\ u[1] = RightBrace
PassiveTokens(u)  == Len(u) \in Nat /\ \A k \in 1..Len(u) : Passive(u[k])

\* A directive, m values and a ';'.
CompleteTokens(u) ==
  \E m \in Nat \ {0} :
    /\ Len(u) = m + 2 /\ u[1] \in Directives \ {"location"} /\ u[m + 2] = Semicolon
    /\ \A k \in 1..m : u[k + 1] \notin Special
    /\ u[1] \notin Lists => m = IF u[1] = "return" THEN 2 ELSE 1
    /\ u[1] = "methods" => \A k \in 1..m : u[k + 1] \in DOMAIN Comma <=> k # m

Shaped(u, step) ==
  \/ step = 1 /\ (ServerTokens(u) \/ LocationTokens(u))
  \/ step = -1 /\ CloseTokens(u)
  \/ step = 0 /\ (CompleteTokens(u) \/ PassiveTokens(u))

\* What tokenize() counts of the words of a line.
Braces(W, n, step) ==
  \/ /\ step = 1 /\ n # 0
     /\ \A k \in 1..n : ~Bare(W[k], RightBrace) /\ (Bare(W[k], LeftBrace) <=> k = n)
  \/ /\ step = -1 /\ n # 0
     /\ \A k \in 1..n : ~Bare(W[k], LeftBrace) /\ (Bare(W[k], RightBrace) <=> k = n)
  \/ /\ step = 0
     /\ \A k \in 1..n : ~Bare(W[k], LeftBrace) /\ ~Bare(W[k], RightBrace)

LineWellFormed(line) ==
  \/ Opens(line, "server") \/ Opens(line, "location") \/ Closes(line)
  \/ IsComplete(line) \/ SaysNothing(line)

LEMMA OpensIs ==
  ASSUME NEW line \in Seq(Word), NEW W, NEW n, LineOf(line, W, n), NEW u, u = LineTokens(line),
         NEW what \in {"server", "location"}, Opens(line, what)
  PROVE  /\ n = (IF what = "server" THEN 2 ELSE 3) /\ Len(u) = n
         /\ u[1] = what /\ u[n] = LeftBrace
         /\ what = "location" => u[2] \notin Special
         /\ Braces(W, n, 1)
<1>1. W = Words(line) /\ n = Len(W) /\ n \in {2, 3} /\ n = (IF what = "server" THEN 2 ELSE 3)
  BY DEF LineOf, Opens
<1>2. W[1].w = what /\ Bare(W[n], LeftBrace) /\ (what = "location" => W[2].w \notin Special)
  BY <1>1 DEF LineOf, Opens, Last
<1>3. \A k \in 1..n : W[k] \in Word /\ Ended(W[k]) = 0
  <2>1. \A k \in 1..n : W[k] \in Word
    BY DEF LineOf
  <2>2. \A k \in 1..n : ~W[k].semi
    BY Zenon DEF LineOf, Opens
  <2>3. \A k \in 1..n : Ended(W[k]) = 0
    BY <2>2, EndedIs, Zenon
  <2> QED
    BY <2>1, <2>3
<1>4. W[n].w = LeftBrace
  BY <1>1, <1>2, <1>3, BareIs
<1>5. WordsInTokens(u, W, n)
  <2>1. n \in Nat /\ EndsOnce(W, n)
    BY <1>1, <1>3 DEF EndsOnce
  <2> QED
    BY <1>1, <2>1, WordsBecomeTokens
<1>6. Len(u) = n /\ 1 \in 1..n /\ 2 \in 1..n /\ n \in 1..n
  BY <1>1, <1>3, <1>5 DEF WordsInTokens
<1>9. u[1] = what /\ u[n] = LeftBrace /\ (what = "location" => u[2] \notin Special)
  BY <1>2, <1>4, <1>5, <1>6 DEF WordsInTokens
<1>7. ASSUME NEW k \in 1..n, k # n PROVE W[k].w \notin {LeftBrace, RightBrace}
  <2>1. CASE k = 1
    BY <1>2, <2>1, Punctuation DEF Directives
  <2>2. CASE k # 1
    <3>1. k = 2 /\ what = "location"
      BY <1>1, <1>7, <2>2
    <3> QED
      BY <1>2, <3>1 DEF Special
  <2> QED
    BY <2>1, <2>2
<1>8. Braces(W, n, 1)
  <2>1. \A k \in 1..n : ~Bare(W[k], RightBrace)
    BY <1>3, <1>4, <1>7, BareIs, Punctuation
  <2>2. \A k \in 1..n : k # n => ~Bare(W[k], LeftBrace)
    BY <1>3, <1>7, BareIs
  <2> QED
    BY <1>1, <1>2, <2>1, <2>2 DEF Braces
<1> QED
  BY <1>1, <1>6, <1>8, <1>9

LEMMA ClosesIs ==
  ASSUME NEW line \in Seq(Word), NEW W, NEW n, LineOf(line, W, n), NEW u, u = LineTokens(line),
         Closes(line)
  PROVE  CloseTokens(u) /\ Step(line) = -1 /\ Braces(W, n, -1)
<1>1. W = Words(line) /\ n = Len(W) /\ n = 1 /\ n # 0
  BY DEF LineOf, Closes
<1>2. W[1].w = RightBrace /\ W[1] \in Word
  BY <1>1 DEF LineOf, Closes
<1>3. ~W[1].semi
  <2>1. W[1] = line[1]
    BY <1>1 DEF LineOf
  <2> QED
    BY <2>1, Zenon DEF Closes
<1>4. Ended(W[1]) = 0 /\ Bare(W[1], RightBrace)
  BY <1>2, <1>3, EndedIs, BareIs, Zenon
<1>5. \A k \in 1..n : k = 1
  BY <1>1
<1>6. WordsInTokens(u, W, n)
  <2>1. n \in Nat /\ EndsOnce(W, n)
    BY <1>1 DEF EndsOnce
  <2> QED
    BY <1>1, <2>1, WordsBecomeTokens
<1>7. CloseTokens(u)
  BY <1>1, <1>2, <1>4, <1>6 DEF CloseTokens, WordsInTokens
<1>8. ~Opens(line, "server") /\ ~Opens(line, "location")
  <2>1. Name(line) = RightBrace
    BY DEF Closes
  <2> QED
    BY <2>1, Punctuation DEF Opens, Directives
<1>9. Step(line) = -1
  BY <1>8, Zenon DEF Step
<1>10. Braces(W, n, -1)
  <2>1. ~Bare(W[1], LeftBrace)
    BY <1>2, BareIs, Punctuation
  <2> QED
    BY <1>1, <1>4, <1>5, <2>1 DEF Braces
<1> QED
  BY <1>7, <1>9, <1>10

LEMMA SaysNothingIs ==
  ASSUME NEW line \in Seq(Word), NEW W, NEW n, LineOf(line, W, n), NEW u, u = LineTokens(line),
         SaysNothing(line)
  PROVE  PassiveTokens(u) /\ Step(line) = 0 /\ Braces(W, n, 0)
<1>1. /\ W = Words(line) /\ n = Len(W) /\ n \in Nat
      /\ \A k \in 1..n : W[k] \in Word /\ W[k].w \notin Special
  BY ZenonT(40) DEF LineOf, SaysNothing, Range
<1> DEFINE X == {x \in Token : Passive(x)}
<1>2. u \in Seq(X)
  <2>1. \A k \in 1..Len(Words(line)) : Words(line)[k].w \in X
    <3>1. \A k \in 1..n : W[k].w \in STRING
      BY <1>1 DEF Word
    <3> QED
      BY <1>1, <3>1, PassiveAre DEF Token
  <2>2. \A x \in {Semicolon} : x \in X
    BY PassiveAre DEF Token
  <2> HIDE DEF X
  <2> QED
    BY <2>1, <2>2, TokensFrom
<1>3. PassiveTokens(u)
  <2>1. Len(u) \in Nat /\ \A k \in 1..Len(u) : u[k] \in X
    BY <1>2, ElementOfSeq, LenProperties
  <2> QED
    BY <2>1 DEF PassiveTokens
<1>4. \A k \in 1..n : ~Bare(W[k], LeftBrace) /\ ~Bare(W[k], RightBrace)
  BY <1>1, BareIs DEF Special
<1>5. ~Opens(line, "server") /\ ~Opens(line, "location")
  <2>1. ASSUME NEW what, Opens(line, what) PROVE FALSE
    <3>1. n \in {2, 3} /\ Bare(W[n], LeftBrace)
      BY <1>1, <2>1 DEF Opens, Last
    <3> QED
      BY <1>4, <3>1
  <2> QED
    BY <2>1
<1>6. ~Closes(line)
  <2> SUFFICES ASSUME Closes(line) PROVE FALSE
    OBVIOUS
  <2>1. n = 1 /\ W[1].w = RightBrace
    BY <1>1 DEF Closes, LineOf
  <2> QED
    BY <1>1, <2>1 DEF Special
<1>7. Step(line) = 0
  BY <1>5, <1>6, Zenon DEF Step
<1> QED
  BY <1>3, <1>4, <1>7 DEF Braces

\* A complete directive d has m values V.
CompleteWith(line, u, d, V, m) ==
  /\ m \in Nat \ {0} /\ d = Name(line) /\ V = ValuesIn(line)
  /\ Len(u) = m + 2 /\ u[1] = d /\ u[m + 2] = Semicolon
  /\ DOMAIN V = 1..m /\ \A k \in 1..m : u[k + 1] = V[k] /\ V[k] \notin Special
  /\ d \in Directives \ {"location"}
  /\ d \notin Lists => m = IF d = "return" THEN 2 ELSE 1
  /\ d = "return" => Number(V[1]) # "0"
  /\ d = "autoindex" => V[1] \in {"on", "off"}
  /\ \A k \in 1..m : V[k] \in DOMAIN Comma <=> d = "methods" /\ k # m

LEMMA CompleteHas ==
  ASSUME NEW line \in Seq(Word), NEW u, u = LineTokens(line), IsComplete(line)
  PROVE  \E m : CompleteWith(line, u, Name(line), ValuesIn(line), m)
<1>0. PICK W \in {Words(line)}, n \in {Len(Words(line))} : LineOf(line, W, n)
  BY LineIs
<1>1. Name(line) \in Directives \ {"location"}
  BY DEF IsComplete
<1>2. /\ W = Words(line) /\ n = Len(W) /\ n \in Nat /\ n # 0 /\ W[1].w = Name(line)
      /\ \A k \in 1..n : W[k] \in Word
  BY <1>0, <1>1 DEF LineOf, Directives, Lists, Singles
<1>3. PICK V : V = ValuesIn(line)
  OBVIOUS
<1>4. PICK m \in Nat : m = n - 1 /\ n = m + 1
  BY <1>2
<1>5. Len(V) = m /\ DOMAIN V = 1..m /\ \A k \in 1..m : V[k] = W[k + 1].w
  <2>1. ValuesOf(line, W, n)
    BY <1>0, <1>2, ValuesAre
  <2> QED
    BY <1>3, <1>4, <2>1 DEF ValuesOf
<1>6. \A k \in 1..n : (W[k].semi <=> k = n)
  <2>1. \A k \in DOMAIN Words(line) : (Words(line)[k].semi <=> k = Len(Words(line)))
    BY Zenon DEF IsComplete
  <2>2. DOMAIN Words(line) = 1..n /\ W = Words(line) /\ n = Len(Words(line))
    BY <1>0 DEF LineOf
  <2> QED
    BY <2>1, <2>2, Zenon
<1>7. EndsOnce(W, n) /\ Ended(W[n]) = 1
  <2>1. \A k \in 1..n : k # n => Ended(W[k]) = 0
    BY <1>6, EndedIs, Zenon
  <2>2. n \in 1..n
    BY <1>2
  <2>3. Ended(W[n]) = 1
    BY <1>6, <2>2, EndedIs, Zenon
  <2> QED
    BY <2>1, <2>3 DEF EndsOnce
<1>8. WordsInTokens(u, W, n)
  BY <1>2, <1>7, WordsBecomeTokens
<1>9. Len(u) = m + 2 /\ u[1] = Name(line) /\ u[m + 2] = Semicolon /\ \A k \in 1..m : u[k + 1] = V[k]
  <2>1. 1 \in 1..n /\ \A k \in 1..m : k + 1 \in 1..n
    BY <1>4
  <2>2. Len(u) = n + 1 /\ u[n + 1] = Semicolon
    BY <1>2, <1>7, <1>8 DEF WordsInTokens
  <2>3. n + 1 = m + 2
    BY <1>4
  <2>4. u[1] = W[1].w /\ \A k \in 1..m : u[k + 1] = W[k + 1].w
    BY <1>8, <2>1 DEF WordsInTokens
  <2> QED
    BY <1>2, <1>5, <2>2, <2>3, <2>4
<1>10. \A k \in 1..m : V[k] \notin Special
  BY <1>3, <1>5 DEF IsComplete, Range
<1>11. /\ Name(line) \in Lists => m >= 1
       /\ Name(line) \notin Lists => m = IF Name(line) = "return" THEN 2 ELSE 1
  BY <1>3, <1>5 DEF IsComplete
<1>12. \A k \in 1..m : V[k] \in DOMAIN Comma <=> Name(line) = "methods" /\ k # m
  <2>1. \A k \in 1..m : V[k] \in DOMAIN Comma <=> Name(line) = "methods" /\ k < m
    BY <1>3, <1>5 DEF IsComplete
  <2>2. \A k \in 1..m : k < m <=> k # m
    OBVIOUS
  <2> QED
    BY <2>1, <2>2
<1>13. m \in Nat \ {0}
  BY <1>11
<1>14. /\ Name(line) = "return" => Number(V[1]) # "0"
       /\ Name(line) = "autoindex" => V[1] \in {"on", "off"}
  BY <1>3, Zenon DEF IsComplete
<1> QED
  BY SMTT(30), <1>1, <1>3, <1>5, <1>9, <1>10, <1>11, <1>12, <1>13, <1>14 DEF CompleteWith

LEMMA CompleteIs ==
  ASSUME NEW line \in Seq(Word), NEW W, NEW n, LineOf(line, W, n), NEW u, u = LineTokens(line),
         IsComplete(line)
  PROVE  CompleteTokens(u) /\ Step(line) = 0 /\ Braces(W, n, 0)
<1>1. PICK d, V, m : CompleteWith(line, u, d, V, m)
  BY CompleteHas
<1>2. /\ m \in Nat \ {0} /\ d = Name(line) /\ V = ValuesIn(line) /\ d \in Directives \ {"location"}
      /\ Len(u) = m + 2 /\ u[1] = d /\ u[m + 2] = Semicolon
      /\ DOMAIN V = 1..m /\ \A k \in 1..m : u[k + 1] = V[k] /\ V[k] \notin Special
  BY <1>1 DEF CompleteWith
<1>3. CompleteTokens(u)
  <2>1. /\ d \notin Lists => m = IF d = "return" THEN 2 ELSE 1
        /\ d = "methods" => \A k \in 1..m : V[k] \in DOMAIN Comma <=> k # m
    BY <1>1 DEF CompleteWith
  <2> QED
    BY <1>2, <2>1 DEF CompleteTokens
<1>4. Step(line) = 0
  <2>1. ~Opens(line, "server") /\ ~Opens(line, "location") /\ ~Closes(line)
    BY <1>2, Punctuation DEF Opens, Closes, Directives, Lists, Singles
  <2> QED
    BY <2>1, Zenon DEF Step
<1>5. /\ n \in Nat /\ n # 0 /\ W[1].w = d /\ \A k \in 1..n : W[k] \in Word
  BY <1>2 DEF LineOf, Directives, Lists, Singles
<1>6. n = m + 1 /\ \A k \in 1..m : V[k] = W[k + 1].w
  <2>1. ValuesOf(line, W, n)
    BY <1>5, ValuesAre
  <2>2. PICK i \in Nat : i = n - 1 /\ n = i + 1
    BY <1>5
  <2>3. Len(V) = i /\ DOMAIN V = 1..i /\ \A k \in 1..i : V[k] = W[k + 1].w
    BY <1>2, <2>1, <2>2 DEF ValuesOf
  <2>4. i = m
    BY <1>2, <2>3
  <2> QED
    BY <2>2, <2>3, <2>4
<1>7. \A k \in 1..n : ~Bare(W[k], LeftBrace) /\ ~Bare(W[k], RightBrace)
  <2>1. \A k \in 1..n : W[k].w \notin {LeftBrace, RightBrace}
    <3>1. W[1].w \notin {LeftBrace, RightBrace}
      BY <1>2, <1>5, Punctuation
    <3>2. \A k \in 1..n : k = 1 \/ (k - 1 \in 1..m /\ (k - 1) + 1 = k)
      BY <1>2, <1>6
    <3>3. \A k \in 1..m : W[k + 1].w \notin {LeftBrace, RightBrace}
      BY <1>2, <1>6 DEF Special
    <3> QED
      BY <3>1, <3>2, <3>3
  <2> QED
    BY <1>5, <2>1, BareIs
<1> QED
  BY <1>3, <1>4, <1>7 DEF Braces

LEMMA LineIsShaped ==
  ASSUME NEW line \in Seq(Word), LineWellFormed(line)
  PROVE  /\ Shaped(LineTokens(line), Step(line)) /\ Step(line) \in {-1, 0, 1}
         /\ Braces(Words(line), Len(Words(line)), Step(line))
<1>1. PICK W \in {Words(line)}, n \in {Len(Words(line))}, u \in {LineTokens(line)} :
        W = Words(line) /\ n = Len(W) /\ u = LineTokens(line)
  OBVIOUS
<1>2. LineOf(line, W, n)
  BY <1>1, LineIs
<1>3. CASE Opens(line, "server") \/ Opens(line, "location")
  <2>1. PICK what \in {"server", "location"} : Opens(line, what)
    BY <1>3
  <2>2. /\ n = (IF what = "server" THEN 2 ELSE 3) /\ Len(u) = n
        /\ u[1] = what /\ u[n] = LeftBrace
        /\ what = "location" => u[2] \notin Special
        /\ Braces(W, n, 1)
    BY <1>1, <1>2, <2>1, OpensIs
  <2>3. ServerTokens(u) \/ LocationTokens(u)
    BY <2>2 DEF ServerTokens, LocationTokens
  <2>4. Step(line) = 1
    BY <1>3, Zenon DEF Step
  <2> QED
    BY <1>1, <2>2, <2>3, <2>4 DEF Shaped
<1>4. CASE Closes(line)
  BY <1>1, <1>2, <1>4, ClosesIs DEF Shaped
<1>5. CASE IsComplete(line)
  BY <1>1, <1>2, <1>5, CompleteIs DEF Shaped
<1>6. CASE SaysNothing(line)
  BY <1>1, <1>2, <1>6, SaysNothingIs DEF Shaped
<1> QED
  BY <1>3, <1>4, <1>5, <1>6 DEF LineWellFormed

----------------------------------------------------------------------------
(* How many blocks are open, by the lines and by the words.                *)

Sums(f, n, g) == g = [k \in 1..(n + 1) |-> IF k = 1 THEN 0 ELSE g[k - 1] + Step(f[k - 1])]

LEMMA SumsExist ==
  ASSUME NEW f, NEW n \in Nat
  PROVE  \E g : Sums(f, n, g)
<1> DEFINE S == {m \in Nat : \E g : Sums(f, m, g)}
<1>1. 0 \in S
  <2>1. Sums(f, 0, [k \in 1..1 |-> 0])
    BY DEF Sums
  <2> QED
    BY <2>1
<1>2. ASSUME NEW m \in Nat, m \in S PROVE m + 1 \in S
  <2>1. PICK g : Sums(f, m, g)
    BY <1>2
  <2> DEFINE h == [k \in 1..(m + 2) |-> IF k = 1 THEN 0 ELSE g[k - 1] + Step(f[k - 1])]
  <2>2. \A k \in 1..(m + 1) : h[k] = g[k]
    <3>1. \A k \in 1..(m + 1) : k \in 1..(m + 2)
      OBVIOUS
    <3>2. \A k \in 1..(m + 1) : g[k] = IF k = 1 THEN 0 ELSE g[k - 1] + Step(f[k - 1])
      BY <2>1, Zenon DEF Sums
    <3> QED
      BY <3>1, <3>2
  <2>3. \A k \in 1..(m + 2) : k # 1 => k - 1 \in 1..(m + 1)
    OBVIOUS
  <2>4. h = [k \in 1..(m + 2) |-> IF k = 1 THEN 0 ELSE h[k - 1] + Step(f[k - 1])]
    BY <2>2, <2>3
  <2> HIDE DEF h
  <2>5. (m + 1) + 1 = m + 2
    OBVIOUS
  <2>6. Sums(f, m + 1, h)
    BY <2>4, <2>5 DEF Sums
  <2> QED
    BY <2>6
<1> HIDE DEF S
<1>3. n \in S
  BY <1>1, <1>2, Reaches
<1> QED
  BY <1>3 DEF S

Lv(f) == CHOOSE g : Sums(f, Len(f), g)

LEMMA LvIs ==
  ASSUME NEW f, Len(f) \in Nat
  PROVE  Sums(f, Len(f), Lv(f))
  BY SumsExist DEF Lv

LEMMA LevelsAreLv == \A f : Levels(f) = Lv(f)
  BY Zenon DEF Levels, Lv, Sums

LevelsOf(f, n, g) ==
  /\ g \in [1..(n + 1) -> Int] /\ g[1] = 0
  /\ \A k \in 1..n : g[k + 1] = g[k] + Step(f[k])

LEMMA SumsAre ==
  ASSUME NEW f, NEW n \in Nat, NEW g, Sums(f, n, g), \A k \in 1..n : Step(f[k]) \in {-1, 0, 1}
  PROVE  LevelsOf(f, n, g)
<1>1. \A k \in 1..(n + 1) : g[k] = IF k = 1 THEN 0 ELSE g[k - 1] + Step(f[k - 1])
  BY Zenon DEF Sums
<1>2. g[1] = 0
  <2>1. 1 \in 1..(n + 1)
    OBVIOUS
  <2> QED
    BY <1>1, <2>1
<1>3. \A k \in 1..n : g[k + 1] = g[k] + Step(f[k])
  <2>1. \A k \in 1..n : k + 1 \in 1..(n + 1) /\ k + 1 # 1 /\ (k + 1) - 1 = k
    OBVIOUS
  <2> QED
    BY <1>1, <2>1
<1> DEFINE S == {m \in Nat : m \in 0..n => g[m + 1] \in Int}
<1>4. 0 \in S
  BY <1>2
<1>5. ASSUME NEW m \in Nat, m \in S PROVE m + 1 \in S
  <2> SUFFICES ASSUME m + 1 \in 0..n PROVE g[(m + 1) + 1] \in Int
    OBVIOUS
  <2>1. m \in 0..n /\ m + 1 \in 1..n
    OBVIOUS
  <2>2. g[m + 1] \in Int /\ Step(f[m + 1]) \in Int
    BY <1>5, <2>1
  <2> QED
    BY <1>3, <2>1, <2>2
<1> HIDE DEF S
<1>6. \A k \in 1..(n + 1) : g[k] \in Int
  <2>1. Nat \subseteq S
    BY <1>4, <1>5, Reaches
  <2>2. \A k \in 1..(n + 1) : k - 1 \in Nat /\ k - 1 \in 0..n /\ (k - 1) + 1 = k
    OBVIOUS
  <2> QED
    BY <2>1, <2>2 DEF S
<1>7. g \in [1..(n + 1) -> Int]
  <2>1. g = [k \in 1..(n + 1) |-> g[k]]
    BY Zenon DEF Sums
  <2> QED
    BY <1>6, <2>1
<1> QED
  BY <1>2, <1>3, <1>7 DEF LevelsOf

\* Braces among the first words.
Braced(words, n, b) == {k \in 1..n : Bare(words[k], b)}

LEMMA BracedIsFinite ==
  ASSUME NEW words, NEW n \in Nat, NEW b
  PROVE  IsFiniteSet(Braced(words, n, b)) /\ Cardinality(Braced(words, n, b)) \in Nat
<1>1. IsFiniteSet(1..n)
  BY FS_Interval
<1>2. Braced(words, n, b) \in SUBSET (1..n)
  BY DEF Braced
<1>3. IsFiniteSet(Braced(words, n, b))
  BY <1>1, <1>2, FS_Subset
<1> QED
  BY <1>3, FS_CardinalityType

LEMMA BracedNoMore ==
  ASSUME NEW words, NEW n \in Nat, NEW m \in Nat, NEW b, \A j \in 1..m : ~Bare(words[n + j], b)
  PROVE  Cardinality(Braced(words, n + m, b)) = Cardinality(Braced(words, n, b))
<1>1. \A k \in 1..(n + m) : k \in 1..n \/ (k - n \in 1..m /\ n + (k - n) = k)
  OBVIOUS
<1>2. \A k \in 1..n : k \in 1..(n + m)
  OBVIOUS
<1>3. Braced(words, n + m, b) = Braced(words, n, b)
  BY <1>1, <1>2 DEF Braced
<1> QED
  BY <1>3

LastOnly(words, n, m, b) == \A j \in 1..m : Bare(words[n + j], b) <=> j = m

LEMMA BracedOneMore ==
  ASSUME NEW words, NEW n \in Nat, NEW m \in Nat \ {0}, NEW b,
         LastOnly(words, n, m, b)
  PROVE  Cardinality(Braced(words, n + m, b)) = Cardinality(Braced(words, n, b)) + 1
<1>1. \A k \in 1..(n + m) : k \in 1..n \/ (k - n \in 1..m /\ n + (k - n) = k)
  OBVIOUS
<1>2. \A k \in 1..n : k \in 1..(n + m) /\ k # n + m
  OBVIOUS
<1>3. n + m \in 1..(n + m) /\ m \in 1..m /\ \A k \in 1..(n + m) : k - n = m => k = n + m
  OBVIOUS
<1>4. Braced(words, n + m, b) = Braced(words, n, b) \cup {n + m}
  BY <1>1, <1>2, <1>3 DEF Braced, LastOnly
<1>5. n + m \notin Braced(words, n, b)
  BY <1>2 DEF Braced
<1> QED
  BY <1>4, <1>5, BracedIsFinite, FS_AddElement

WordsAt(words, n, W, m) == \A j \in 1..m : words[n + j] = W[j]

LEMMA DepthGrows ==
  ASSUME NEW words, NEW n \in Nat, NEW W, NEW m \in Nat, NEW step, Braces(W, m, step),
         WordsAt(words, n, W, m)
  PROVE  Depth(words, n + m) = Depth(words, n) + step
<1> DEFINE open(k)  == Cardinality(Braced(words, k, LeftBrace))
           close(k) == Cardinality(Braced(words, k, RightBrace))
<1>1. \A k \in Nat : Depth(words, k) = open(k) - close(k) /\ open(k) \in Nat /\ close(k) \in Nat
  BY BracedIsFinite DEF Depth, Braced
<1> HIDE DEF open, close
<1>2. n + m \in Nat
  OBVIOUS
<1>3. CASE step = 1
  <2>1. m # 0 /\ \A k \in 1..m : ~Bare(W[k], RightBrace) /\ (Bare(W[k], LeftBrace) <=> k = m)
    BY <1>3 DEF Braces, WordsAt
  <2>2. open(n + m) = open(n) + 1
    <3>1. m \in Nat \ {0} /\ LastOnly(words, n, m, LeftBrace)
      BY <2>1 DEF LastOnly, WordsAt
    <3> QED
      BY <3>1, BracedOneMore DEF open
  <2>3. close(n + m) = close(n)
    BY <2>1, BracedNoMore DEF close, WordsAt
  <2> QED
    BY <1>1, <1>2, <1>3, <2>2, <2>3
<1>4. CASE step = -1
  <2>1. m # 0 /\ \A k \in 1..m : ~Bare(W[k], LeftBrace) /\ (Bare(W[k], RightBrace) <=> k = m)
    BY <1>4 DEF Braces, WordsAt
  <2>2. close(n + m) = close(n) + 1
    <3>1. m \in Nat \ {0} /\ LastOnly(words, n, m, RightBrace)
      BY <2>1 DEF LastOnly, WordsAt
    <3> QED
      BY <3>1, BracedOneMore DEF close
  <2>3. open(n + m) = open(n)
    BY <2>1, BracedNoMore DEF open, WordsAt
  <2> QED
    BY <1>1, <1>2, <1>4, <2>2, <2>3
<1>5. CASE step = 0
  <2>1. \A k \in 1..m : ~Bare(W[k], LeftBrace) /\ ~Bare(W[k], RightBrace)
    BY <1>5 DEF Braces, WordsAt
  <2>2. close(n + m) = close(n)
    BY <2>1, BracedNoMore DEF close, WordsAt
  <2>3. open(n + m) = open(n)
    BY <2>1, BracedNoMore DEF open, WordsAt
  <2> QED
    BY <1>1, <1>2, <1>5, <2>2, <2>3
<1> QED
  BY <1>3, <1>4, <1>5 DEF Braces

LEMMA Rising ==
  ASSUME NEW X, NEW e \in Seq(Seq(X)), NEW t, NEW o, PlacesIn(e, t, o)
  PROVE  /\ Len(e) \in Nat /\ o[Len(e) + 1] = Len(t) /\ Len(t) \in Nat
         /\ \A k \in 1..(Len(e) + 1) : o[k] \in Nat /\ o[k] <= Len(t)
<1>1. PICK n \in Nat : n = Len(e)
  BY LenProperties
<1>2. \A k \in 1..n : Len(e[k]) \in Nat
  BY <1>1, ElementOfSeq, LenProperties
<1>3. /\ \A k \in 1..(n + 1) : o[k] \in Nat
      /\ o[n + 1] = Len(t)
      /\ \A k \in 1..n : o[k + 1] = o[k] + Len(e[k])
  BY <1>1 DEF PlacesIn
<1> DEFINE S == {m \in Nat : m \in 0..n => o[(n + 1) - m] <= o[n + 1]}
<1>4. 0 \in S
  BY <1>3
<1>5. ASSUME NEW m \in Nat, m \in S PROVE m + 1 \in S
  <2> SUFFICES ASSUME m + 1 \in 0..n PROVE o[(n + 1) - (m + 1)] <= o[n + 1]
    OBVIOUS
  <2>1. PICK k \in 1..n : k = n - m
    OBVIOUS
  <2>2. (n + 1) - (m + 1) = k /\ (n + 1) - m = k + 1 /\ m \in 0..n /\ k \in 1..(n + 1) /\ k + 1 \in 1..(n + 1)
    BY <2>1
  <2>3. o[k + 1] <= o[n + 1]
    BY <1>5, <2>2
  <2>4. o[k + 1] = o[k] + Len(e[k]) /\ o[k] \in Nat /\ Len(e[k]) \in Nat /\ o[n + 1] \in Nat
    BY <1>2, <1>3, <2>2
  <2>5. o[k] <= o[n + 1]
    BY <2>3, <2>4
  <2> QED
    BY <2>2, <2>5, Zenon
<1> HIDE DEF S
<1>6. \A k \in 1..(n + 1) : o[k] <= o[n + 1]
  <2>1. Nat \subseteq S
    BY <1>4, <1>5, Reaches
  <2>2. \A k \in 1..(n + 1) : (n + 1) - k \in Nat /\ (n + 1) - k \in 0..n /\ (n + 1) - ((n + 1) - k) = k
    OBVIOUS
  <2> QED
    BY <2>1, <2>2 DEF S
<1> QED
  BY <1>1, <1>3, <1>6

LinesFine(f) == \A k \in 1..Len(f) : LineWellFormed(f[k])

WordsOf(f) == [k \in DOMAIN f |-> Words(f[k])]

LEMMA WordsOfAre ==
  ASSUME NEW f \in Seq(Seq(Word))
  PROVE  /\ WordsOf(f) \in Seq(Seq(Word)) /\ Len(WordsOf(f)) = Len(f) /\ Len(f) \in Nat
         /\ \A k \in 1..Len(f) : WordsOf(f)[k] = Words(f[k]) /\ f[k] \in Seq(Word)
         /\ AllWords(f) = FlattenSeq(WordsOf(f)) /\ AllWords(f) \in Seq(Word)
<1>1. Len(f) \in Nat /\ DOMAIN f = 1..Len(f) /\ \A k \in 1..Len(f) : f[k] \in Seq(Word)
  BY LenProperties, ElementOfSeq
<1>2. WordsOf(f) \in [1..Len(f) -> Seq(Word)]
  BY <1>1, WordsAre DEF WordsOf
<1>3. WordsOf(f) \in Seq(Seq(Word)) /\ Len(WordsOf(f)) = Len(f)
  BY <1>1, <1>2, FcnIsSeq
<1>4. AllWords(f) = FlattenSeq(WordsOf(f))
  BY DEF AllWords, WordsOf
<1>5. AllWords(f) \in Seq(Word)
  BY <1>3, <1>4, FlattenPlaces
<1> QED
  BY <1>1, <1>3, <1>4, <1>5 DEF WordsOf

LEMMA NoDepth ==
  ASSUME NEW words
  PROVE  Depth(words, 0) = 0
<1>1. \A b : {k \in 1..0 : Bare(words[k], b)} = {}
  OBVIOUS
<1>2. Cardinality({}) = 0
  BY FS_EmptySet
<1> QED
  BY <1>1, <1>2 DEF Depth

\* Where the words of each line stand, and how many blocks are open there.
Counted(f, g, p) ==
  /\ PlacesIn(WordsOf(f), AllWords(f), p)
  /\ \A k \in 1..(Len(f) + 1) : p[k] \in Nat /\ p[k] <= Len(AllWords(f)) /\ Depth(AllWords(f), p[k]) = g[k]

LEMMA DepthIsLevel ==
  ASSUME NEW f \in Seq(Seq(Word)), LinesFine(f), NEW g, LevelsOf(f, Len(f), g)
  PROVE  \E p : Counted(f, g, p)
<1>1. PICK n \in Nat : n = Len(f)
  BY WordsOfAre
<1>2. PICK words \in {AllWords(f)}, e \in {WordsOf(f)} : words = AllWords(f) /\ e = WordsOf(f)
  OBVIOUS
<1>3. /\ e \in Seq(Seq(Word)) /\ Len(e) = n /\ words = FlattenSeq(e) /\ words \in Seq(Word)
      /\ \A k \in 1..n : e[k] = Words(f[k]) /\ f[k] \in Seq(Word)
  BY <1>1, <1>2, WordsOfAre
<1>4. PICK p : PlacesIn(e, words, p)
  BY <1>3, FlattenPlaces
<1>5. /\ p[1] = 0
      /\ \A k \in 1..n : p[k + 1] = p[k] + Len(e[k]) /\ \A j \in 1..Len(e[k]) : words[p[k] + j] = e[k][j]
  BY <1>3, <1>4 DEF PlacesIn
<1>6. Len(words) \in Nat /\ \A k \in 1..(n + 1) : p[k] \in Nat /\ p[k] <= Len(words)
  BY <1>3, <1>4, Rising
<1>7. /\ g \in [1..(n + 1) -> Int] /\ g[1] = 0
      /\ \A k \in 1..n : g[k + 1] = g[k] + Step(f[k])
  BY <1>1 DEF LevelsOf
<1> DEFINE S == {m \in Nat : m \in 0..n => Depth(words, p[m + 1]) = g[m + 1]}
<1>8. 0 \in S
  BY <1>5, <1>7, NoDepth
<1>9. ASSUME NEW m \in Nat, m \in S PROVE m + 1 \in S
  <2> SUFFICES ASSUME m + 1 \in 0..n PROVE Depth(words, p[(m + 1) + 1]) = g[(m + 1) + 1]
    OBVIOUS
  <2>1. PICK k \in 1..n : k = m + 1
    OBVIOUS
  <2>2. Depth(words, p[k]) = g[k]
    BY <1>9, <2>1
  <2>3. PICK W \in {Words(f[k])}, q \in {Len(Words(f[k]))}, step \in {Step(f[k])} :
          W = Words(f[k]) /\ q = Len(W) /\ step = Step(f[k])
    OBVIOUS
  <2>4. q \in Nat /\ Braces(W, q, step)
    <3>1. f[k] \in Seq(Word) /\ LineWellFormed(f[k])
      BY <1>1, <1>3 DEF LinesFine
    <3> QED
      BY <2>3, <3>1, LineIsShaped, WordsAre
  <2>5. p[k + 1] = p[k] + q /\ WordsAt(words, p[k], W, q)
    BY <1>3, <1>5, <2>3 DEF WordsAt
  <2>6. p[k] \in Nat
    BY <1>6
  <2>7. Depth(words, p[k] + q) = Depth(words, p[k]) + step
    BY <2>4, <2>5, <2>6, DepthGrows
  <2>8. g[k + 1] = g[k] + step
    BY <1>7, <2>3
  <2> QED
    BY <2>1, <2>2, <2>5, <2>7, <2>8
<1> HIDE DEF S
<1>10. \A k \in 1..(n + 1) : Depth(words, p[k]) = g[k]
  <2>1. Nat \subseteq S
    BY <1>8, <1>9, Reaches
  <2>2. \A k \in 1..(n + 1) : k - 1 \in Nat /\ k - 1 \in 0..n /\ (k - 1) + 1 = k
    OBVIOUS
  <2>3. \A k \in 1..(n + 1) : k - 1 \in S
    BY <2>1, <2>2
  <2> QED
    BY <2>2, <2>3 DEF S
<1>11. Counted(f, g, p)
  BY <1>1, <1>2, <1>4, <1>6, <1>10 DEF Counted
<1> QED
  BY <1>11

\* tokenize() has counted the braces: no line closes more blocks than are open.
LEMMA LevelsAreNatural ==
  ASSUME NEW f \in Seq(Seq(Word)), LinesFine(f), ~Unopened(AllWords(f)),
         NEW g, LevelsOf(f, Len(f), g)
  PROVE  g \in [1..(Len(f) + 1) -> Nat]
<1>1. PICK n \in Nat, words \in {AllWords(f)} : n = Len(f) /\ words = AllWords(f)
  BY WordsOfAre
<1>2. PICK p : Counted(f, g, p)
  BY DepthIsLevel
<1>3. /\ \A k \in 1..(n + 1) : p[k] \in Nat /\ p[k] <= Len(words) /\ Depth(words, p[k]) = g[k]
      /\ words \in Seq(Word) /\ Len(words) \in Nat
  <2>1. words \in Seq(Word)
    BY <1>1, WordsOfAre
  <2> QED
    BY <1>1, <1>2, <2>1, LenProperties DEF Counted
<1>4. g \in [1..(n + 1) -> Int]
  BY <1>1 DEF LevelsOf
<1>5. ASSUME NEW k \in 1..(n + 1) PROVE g[k] \in Nat
  <2>1. Depth(words, p[k]) = g[k]
    BY <1>3
  <2>2. CASE p[k] = 0
    BY <2>1, <2>2, NoDepth
  <2>3. CASE p[k] # 0
    <3>1. p[k] \in DOMAIN words
      <4>1. DOMAIN words = 1..Len(words)
        BY <1>3, LenProperties
      <4> QED
        BY <1>3, <2>3, <4>1
    <3>2. ~(Depth(words, p[k]) < 0)
      BY <1>1, <3>1 DEF Unopened
    <3>3. g[k] \in Int
      BY <1>4
    <3> QED
      BY <2>1, <3>2, <3>3
  <2> QED
    BY <2>2, <2>3
<1> QED
  BY <1>1, <1>4, <1>5

----------------------------------------------------------------------------
(* The iterator among the lines.                                           *)

\* Tokens p + 1 to q of t are those of a line that takes the level from l to m.
LineAt(t, p, q, l, m) ==
  \E u, step : /\ Shaped(u, step) /\ Len(u) \in Nat /\ q = p + Len(u) /\ m = l + step
               /\ \A j \in 1..Len(u) : t[p + j] = u[j]

\* Tokens t are those of n lines, which end at the places o and have the levels lv.
Laid(t, o, lv, n) ==
  /\ n \in Nat /\ Len(t) \in Nat
  /\ lv \in [1..(n + 1) -> Nat] /\ lv[1] = 0
  /\ o \in [1..(n + 1) -> Nat] /\ o[1] = 0 /\ o[n + 1] = Len(t)
  /\ \A k \in 1..(n + 1) : o[k] <= Len(t)
  /\ \A k \in 1..n : LineAt(t, o[k], o[k + 1], lv[k], lv[k + 1])

\* Of the first k lines only passive tokens are still to be looked at, by the
\* iterator a, and no more blocks are open than these lines leave open.
Reading(t, o, lv, n, a, d, k) ==
  /\ k \in 0..n /\ a <= o[k + 1] + 1 /\ d <= lv[k + 1]
  /\ \A j \in a..o[k + 1] : Passive(t[j])

LEMMA EmptyLine ==
  ASSUME NEW t, NEW p \in Nat, NEW l \in Nat, NEW m, LineAt(t, p, p, l, m)
  PROVE  m = l
<1>0. PICK u : \E step : Shaped(u, step) /\ Len(u) \in Nat /\ p = p + Len(u) /\ m = l + step
  BY DEF LineAt
<1>1. PICK step : Shaped(u, step) /\ Len(u) \in Nat /\ p = p + Len(u) /\ m = l + step
  BY <1>0
<1>2. Len(u) = 0
  BY <1>1
<1>3. step = 0
  <2>1. ~CompleteTokens(u)
    <3> SUFFICES ASSUME CompleteTokens(u) PROVE FALSE
      OBVIOUS
    <3>1. PICK i \in Nat : Len(u) = i + 2
      BY DEF CompleteTokens
    <3> QED
      BY <1>2, <3>1
  <2> QED
    BY <1>1, <1>2, <2>1 DEF Shaped, ServerTokens, LocationTokens, CloseTokens
<1> QED
  BY <1>1, <1>3

LEMMA LastOf ==
  ASSUME NEW n \in Nat, NEW M \in SUBSET (0..n), M # {}
  PROVE  \E m \in M : m = n \/ m + 1 \notin M
<1> DEFINE K == {j \in 0..n : n - j \in M}
<1>1. K \in SUBSET Nat /\ K # {}
  <2>1. PICK k \in 0..n : k \in M
    OBVIOUS
  <2>2. n - k \in 0..n /\ n - (n - k) = k
    OBVIOUS
  <2>3. n - k \in K
    BY <2>1, <2>2
  <2>4. \A j \in K : j \in Nat
    OBVIOUS
  <2> HIDE DEF K
  <2> QED
    BY <2>3, <2>4
<1>2. IsFiniteSet(K)
  <2>1. IsFiniteSet(0..n)
    BY FS_Interval
  <2> QED
    BY <2>1, FS_Subset
<1>3. PICK j \in K : \A i \in K : j <= i
  <2> HIDE DEF K
  <2> QED
    BY <1>1, <1>2, LeastIsMember
<1>4. PICK m \in 0..n : m = n - j /\ j = n - m
  OBVIOUS
<1>5. m \in M
  BY <1>3, <1>4
<1>6. ASSUME m # n, m + 1 \in M PROVE FALSE
  <2>1. n - (m + 1) \in 0..n /\ n - (n - (m + 1)) = m + 1 /\ ~(j <= n - (m + 1))
    BY <1>4, <1>6
  <2>2. n - (m + 1) \in K
    BY <1>6, <2>1
  <2> QED
    BY <1>3, <2>1, <2>2
<1> QED
  BY <1>5, <1>6

\* A line without a token is passed at once.
LEMMA EmptyPassed ==
  ASSUME NEW t, NEW o, NEW lv, NEW n, Laid(t, o, lv, n), NEW a \in Nat, NEW d \in Nat,
         NEW m \in 0..n, m # n, Reading(t, o, lv, n, a, d, m), ~(o[m + 1] < o[m + 2])
  PROVE  Reading(t, o, lv, n, a, d, m + 1) /\ o[m + 2] = o[m + 1]
<1>0. n \in Nat
  BY DEF Laid
<1>1. /\ m + 1 \in 1..n /\ m + 1 \in 0..n /\ m + 1 \in 1..(n + 1) /\ m + 2 \in 1..(n + 1)
      /\ (m + 1) + 1 = m + 2
  BY <1>0
<1>2. LineAt(t, o[m + 1], o[m + 2], lv[m + 1], lv[m + 2])
  BY <1>1 DEF Laid
<1>3. o[m + 1] \in Nat /\ o[m + 2] \in Nat /\ lv[m + 1] \in Nat
  BY <1>1 DEF Laid
<1>4. o[m + 2] = o[m + 1]
  <2>1. PICK u : Len(u) \in Nat /\ o[m + 2] = o[m + 1] + Len(u)
    BY <1>2 DEF LineAt
  <2> QED
    BY <1>3, <2>1
<1>5. lv[m + 2] = lv[m + 1]
  BY <1>2, <1>3, <1>4, EmptyLine
<1> QED
  BY <1>1, <1>4, <1>5 DEF Reading

LEMMA Furthest ==
  ASSUME NEW t, NEW o, NEW lv, NEW n, Laid(t, o, lv, n), NEW a \in Nat, NEW d \in Nat,
         NEW k, Reading(t, o, lv, n, a, d, k)
  PROVE  \E m \in 0..n : Reading(t, o, lv, n, a, d, m) /\ (m = n \/ o[m + 1] < o[m + 2])
<1> DEFINE M == {m \in 0..n : Reading(t, o, lv, n, a, d, m)}
<1>1. M \in SUBSET (0..n) /\ M # {} /\ n \in Nat
  <2>1. k \in 0..n /\ n \in Nat
    BY DEF Reading, Laid
  <2> QED
    BY <2>1
<1>2. PICK m \in M : m = n \/ m + 1 \notin M
  <2> HIDE DEF M
  <2> QED
    BY <1>1, LastOf
<1>3. m \in 0..n /\ Reading(t, o, lv, n, a, d, m)
  BY <1>2
<1>4. ASSUME m # n, ~(o[m + 1] < o[m + 2]) PROVE m + 1 \in M
  <2>1. Reading(t, o, lv, n, a, d, m + 1) /\ m + 1 \in 0..n
    BY <1>1, <1>3, <1>4, EmptyPassed
  <2> QED
    BY <2>1
<1> QED
  BY <1>2, <1>3, <1>4

\* A line that is next, with its tokens u, at the level l.
NextLine(t, o, lv, n, a, m, u, step) ==
  /\ m \in 0..n /\ m + 1 \in 0..n
  /\ Shaped(u, step) /\ Len(u) \in Nat /\ Len(u) # 0
  /\ o[m + 2] = (a + Len(u)) - 1 /\ o[m + 2] <= Len(t)
  /\ lv[m + 1] \in Nat /\ lv[m + 2] \in Nat /\ lv[m + 2] = lv[m + 1] + step
  /\ t[a] = u[1] /\ \A j \in 1..(Len(u) - 1) : t[a + j] = u[j + 1]

\* Tokens p + 1 to q of t are u.
IsLine(t, p, q, l, m, u, step) ==
  /\ Shaped(u, step) /\ Len(u) \in Nat /\ q = p + Len(u) /\ m = l + step
  /\ \A j \in 1..Len(u) : t[p + j] = u[j]

LEMMA NextLineIs ==
  ASSUME NEW t, NEW o, NEW lv, NEW n, Laid(t, o, lv, n), NEW a \in Nat \ {0}, NEW m \in 0..n, m # n,
         a = o[m + 1] + 1, o[m + 1] < o[m + 2],
         NEW u, NEW step, IsLine(t, o[m + 1], o[m + 2], lv[m + 1], lv[m + 2], u, step)
  PROVE  NextLine(t, o, lv, n, a, m, u, step)
<1>1. n \in Nat /\ Len(t) \in Nat
  BY DEF Laid
<1>2. m + 1 \in 0..n /\ m + 1 \in 1..(n + 1) /\ m + 2 \in 1..(n + 1)
  BY <1>1
<1>3. o[m + 1] \in Nat /\ lv[m + 1] \in Nat /\ o[m + 2] <= Len(t) /\ lv[m + 2] \in Nat
  BY <1>2 DEF Laid
<1>4. /\ Shaped(u, step) /\ Len(u) \in Nat /\ o[m + 2] = o[m + 1] + Len(u)
      /\ lv[m + 2] = lv[m + 1] + step /\ \A j \in 1..Len(u) : t[o[m + 1] + j] = u[j]
  BY DEF IsLine
<1>5. PICK p \in Nat, c \in Nat : p = o[m + 1] /\ c = Len(u)
  BY <1>3, <1>4
<1>6. o[m + 2] = p + c /\ p < o[m + 2] /\ a = p + 1
  BY <1>4, <1>5
<1>7. c # 0 /\ p + c = (a + c) - 1 /\ \A j \in 1..(c - 1) : j + 1 \in 1..c /\ p + (j + 1) = a + j
  BY <1>6
<1>8. Len(u) # 0 /\ o[m + 2] = (a + Len(u)) - 1
  BY <1>5, <1>6, <1>7
<1>9. t[a] = u[1]
  <2>1. 1 \in 1..Len(u)
    BY <1>4, <1>8
  <2> QED
    BY <1>4, <2>1
<1>10. \A j \in 1..(Len(u) - 1) : t[a + j] = u[j + 1]
  <2>1. \A j \in 1..(Len(u) - 1) : j + 1 \in 1..Len(u) /\ o[m + 1] + (j + 1) = a + j
    BY <1>5, <1>7
  <2> QED
    BY <1>4, <2>1
<1> QED
  BY <1>2, <1>3, <1>4, <1>8, <1>9, <1>10 DEF NextLine

\* What the iterator may look at.
LEMMA LooksAt ==
  ASSUME NEW t, NEW o, NEW lv, NEW n, Laid(t, o, lv, n), NEW a \in Nat \ {0}, NEW d \in Nat,
         NEW k, Reading(t, o, lv, n, a, d, k)
  PROVE  \E m : /\ Reading(t, o, lv, n, a, d, m)
                /\ \/ a <= o[m + 1] /\ a <= Len(t) /\ Passive(t[a])
                   \/ m = n /\ a = Len(t) + 1 /\ d <= lv[n + 1]
                   \/ d <= lv[m + 1] /\ \E u, step : NextLine(t, o, lv, n, a, m, u, step)
<1>1. PICK m \in 0..n : Reading(t, o, lv, n, a, d, m) /\ (m = n \/ o[m + 1] < o[m + 2])
  BY Furthest
<1>2. n \in Nat /\ Len(t) \in Nat /\ m + 1 \in 1..(n + 1)
  BY <1>1 DEF Laid
<1>3. o[m + 1] \in Nat /\ o[m + 1] <= Len(t) /\ lv[m + 1] \in Nat
  BY <1>2 DEF Laid
<1>4. a <= o[m + 1] + 1 /\ d <= lv[m + 1] /\ \A j \in a..o[m + 1] : Passive(t[j])
  BY <1>1 DEF Reading
<1>5. CASE a <= o[m + 1]
  <2>1. a \in a..o[m + 1] /\ a <= Len(t)
    BY <1>2, <1>3, <1>5
  <2>2. a <= o[m + 1] /\ a <= Len(t) /\ Passive(t[a])
    BY <1>4, <1>5, <2>1
  <2> QED
    BY <1>1, <2>2
<1>6. CASE a = o[m + 1] + 1 /\ m = n
  <2>1. m = n /\ a = Len(t) + 1 /\ d <= lv[n + 1]
    BY <1>4, <1>6 DEF Laid
  <2> QED
    BY <1>1, <2>1
<1>7. CASE a = o[m + 1] + 1 /\ m # n
  <2>1. /\ m + 1 \in 1..n /\ m + 1 \in 0..n /\ m + 2 \in 1..(n + 1) /\ (m + 1) + 1 = m + 2
    BY <1>1, <1>2, <1>7
  <2>2. LineAt(t, o[m + 1], o[m + 2], lv[m + 1], lv[m + 2])
    BY <2>1 DEF Laid
  <2>3. PICK u : \E step : IsLine(t, o[m + 1], o[m + 2], lv[m + 1], lv[m + 2], u, step)
    BY <2>2 DEF LineAt, IsLine
  <2>4. PICK step : IsLine(t, o[m + 1], o[m + 2], lv[m + 1], lv[m + 2], u, step)
    BY <2>3
  <2>5. NextLine(t, o, lv, n, a, m, u, step)
    BY <1>1, <1>7, <2>4, NextLineIs
  <2> QED
    BY <1>1, <1>4, <2>5
<1> QED
  BY <1>1, <1>3, <1>4, <1>5, <1>6, <1>7

\* What a line is, by its first token.
LEMMA FirstToken ==
  ASSUME NEW u, NEW step, Shaped(u, step), Len(u) \in Nat, Len(u) # 0
  PROVE  /\ u[1] = "server" => ServerTokens(u) /\ step = 1
         /\ u[1] = "location" => LocationTokens(u) /\ step = 1
         /\ u[1] = RightBrace => CloseTokens(u) /\ step = -1
         /\ u[1] \in Directives \ {"location"} => CompleteTokens(u) /\ step = 0
         /\ Passive(u[1]) => step = 0
<1>0. 1 \in 1..Len(u)
  OBVIOUS
<1>1. /\ "server" \notin Directives /\ "location" \in Directives /\ "server" # "location"
      /\ RightBrace \notin Directives /\ RightBrace # "server"
  BY Punctuation DEF Directives, Lists, Singles
<1>2. CompleteTokens(u) => u[1] \in Directives \ {"location"}
  BY DEF CompleteTokens
<1>3. PassiveTokens(u) => u[1] \notin Directives /\ u[1] # "server" /\ u[1] # RightBrace
  BY <1>0 DEF PassiveTokens, Passive
<1>4. Passive(u[1]) => u[1] \notin Directives /\ u[1] # "server" /\ u[1] # RightBrace
  BY DEF Passive
<1>5. /\ ServerTokens(u) => u[1] = "server"
      /\ LocationTokens(u) => u[1] = "location"
      /\ CloseTokens(u) => u[1] = RightBrace
  BY DEF ServerTokens, LocationTokens, CloseTokens
<1> QED
  BY <1>1, <1>2, <1>3, <1>4, <1>5, Zenon DEF Shaped

LEMMA RestPassive ==
  ASSUME NEW u, NEW step, Shaped(u, step), Len(u) \in Nat, NEW j \in 2..Len(u)
  PROVE  Passive(u[j])
<1>1. Passive(Semicolon) /\ Passive(LeftBrace) /\ \A x : x \notin Special => Passive(x)
  BY PassiveAre
<1>2. CASE ServerTokens(u)
  <2>1. Len(u) = 2 /\ u[2] = LeftBrace
    BY <1>2 DEF ServerTokens
  <2>2. j = 2
    BY <2>1
  <2> QED
    BY <1>1, <2>1, <2>2
<1>3. CASE LocationTokens(u)
  <2>1. Len(u) = 3 /\ u[2] \notin Special /\ u[3] = LeftBrace
    BY <1>3 DEF LocationTokens
  <2>2. j = 2 \/ j = 3
    BY <2>1
  <2> QED
    BY <1>1, <2>1, <2>2
<1>4. CASE CloseTokens(u)
  BY <1>4 DEF CloseTokens
<1>5. CASE CompleteTokens(u)
  <2>1. PICK m \in Nat \ {0} :
          Len(u) = m + 2 /\ u[m + 2] = Semicolon /\ \A k \in 1..m : u[k + 1] \notin Special
    BY <1>5 DEF CompleteTokens
  <2>2. CASE j = m + 2
    BY <1>1, <2>1, <2>2
  <2>3. CASE j # m + 2
    <3>1. j - 1 \in 1..m /\ (j - 1) + 1 = j
      BY <2>1, <2>3
    <3>2. u[j] \notin Special
      BY <2>1, <3>1
    <3> QED
      BY <1>1, <3>2
  <2> QED
    BY <2>2, <2>3
<1>6. CASE PassiveTokens(u)
  <2>1. j \in 1..Len(u)
    OBVIOUS
  <2> QED
    BY <1>6, <2>1 DEF PassiveTokens
<1> QED
  BY <1>2, <1>3, <1>4, <1>5, <1>6 DEF Shaped

\* The iterator behind the first token of the next line, and not behind the line.
LEMMA Onward ==
  ASSUME NEW t, NEW o, NEW lv, NEW n, NEW a \in Nat \ {0}, NEW m, NEW u, NEW step,
         NextLine(t, o, lv, n, a, m, u, step),
         NEW b \in Nat, b > a, b <= a + Len(u), NEW d, d <= lv[m + 2]
  PROVE  Reading(t, o, lv, n, b, d, m + 1)
<1>1. PICK c \in Nat : c = Len(u)
  BY DEF NextLine
<1>2. m \in Nat /\ m + 1 \in 0..n /\ (m + 1) + 1 = m + 2 /\ o[m + 2] = (a + c) - 1
  BY <1>1 DEF NextLine
<1>3. b <= ((a + c) - 1) + 1
  BY <1>1
<1>4. ASSUME NEW j \in b..((a + c) - 1) PROVE Passive(t[j])
  <2>1. j - a \in 1..(c - 1) /\ a + (j - a) = j /\ (j - a) + 1 \in 2..c
    OBVIOUS
  <2>2. t[j] = u[(j - a) + 1]
    BY <1>1, <2>1 DEF NextLine
  <2>3. Shaped(u, step) /\ Len(u) \in Nat
    BY DEF NextLine
  <2> QED
    BY <1>1, <2>1, <2>2, <2>3, RestPassive
<1> QED
  BY <1>2, <1>3, <1>4 DEF Reading

\* A complete directive with the tokens u finds what it looks for, and goes on
\* behind its last token at most.
LEMMA DirectiveEnds ==
  ASSUME TypeInv, Looking, NEW u, CompleteTokens(u), NEW d, d = u[1],
         at + Len(u) <= Len(tokens) + 1, \A j \in 1..(Len(u) - 1) : tokens[at + j] = u[j + 1]
  PROVE  LastRead(d) < End /\ NextLook(d) <= at + Len(u)
<1>1. PICK m \in Nat \ {0} :
        /\ Len(u) = m + 2 /\ u[1] \in Directives \ {"location"} /\ u[m + 2] = Semicolon
        /\ u[1] \notin Lists => m = IF u[1] = "return" THEN 2 ELSE 1
        /\ u[1] = "methods" => \A k \in 1..m : u[k + 1] \in DOMAIN Comma <=> k # m
  BY DEF CompleteTokens
<1>2. /\ Len(tokens) \in Nat /\ End = Len(tokens) + 1 /\ at \in Nat /\ at >= 1
      /\ at + (m + 2) <= Len(tokens) + 1
  BY <1>1, LookingIs
<1>3. d \in Directives \ {"location"} /\ d = u[1]
  BY <1>1
<1>4. CASE d \in Singles
  <2>1. d \notin Lists /\ d # "return"
    BY <1>4 DEF Singles, Lists
  <2>2. m = 1
    BY <1>1, <1>3, <2>1
  <2>3. LastRead(d) = at + 1 /\ NextLook(d) <= at + 3
    <3>1. LastRead(d) = at + 1
      BY <1>4 DEF LastRead, Singles, Lists
    <3>2. NextLook(d) = (at + 1) + 1 \/ NextLook(d) = (at + 1) + 2
      BY <3>1 DEF NextLook
    <3> QED
      BY <1>2, <3>1, <3>2
  <2> QED
    BY <1>1, <1>2, <2>2, <2>3
<1>5. CASE d = "return"
  <2>1. d \notin Lists /\ d \notin Singles /\ d \notin {"index", "server_name", "autoindex"}
    BY <1>5 DEF Singles, Lists
  <2>2. m = 2
    BY <1>1, <1>3, <1>5, <2>1
  <2>3. LastRead(d) = at + 2
    BY <1>5, <2>1 DEF LastRead
  <2>4. NextLook(d) = (at + 2) + 2
    BY <2>1, <2>3 DEF NextLook
  <2> QED
    BY <1>1, <1>2, <2>2, <2>3, <2>4
<1>6. CASE d = "methods"
  <2> DEFINE K == {k \in (at + 1)..Len(tokens) : tokens[k] \notin DOMAIN Comma}
  <2>1. LastRead(d) = Ahead(K)
    BY <1>6 DEF LastRead, Singles
  <2>2. at + m \in (at + 1)..Len(tokens)
    BY <1>2
  <2>3. tokens[at + m] = u[m + 1] /\ u[m + 1] \notin DOMAIN Comma
    BY <1>1, <1>3, <1>6
  <2>4. at + m \in K /\ K \in SUBSET ((at + 1)..Len(tokens))
    BY <2>2, <2>3
  <2> HIDE DEF K
  <2>5. Ahead(K) \in Nat /\ Ahead(K) <= at + m
    BY <2>4, AheadIs
  <2>6. NextLook(d) = Ahead(K) + 2
    BY <1>6, <2>1 DEF NextLook
  <2> QED
    BY <1>1, <1>2, <2>1, <2>5, <2>6
<1>7. CASE d \in Lists \ {"methods"}
  <2> DEFINE K == {k \in (at + 1)..Len(tokens) : tokens[k] = Semicolon}
  <2>1. LastRead(d) = Ahead(K)
    BY <1>7 DEF LastRead, Singles, Lists
  <2>2. at + (m + 1) \in (at + 1)..Len(tokens)
    BY <1>2
  <2>3. tokens[at + (m + 1)] = Semicolon
    <3>1. m + 1 \in 1..((m + 2) - 1) /\ (m + 1) + 1 = m + 2
      OBVIOUS
    <3> QED
      BY <1>1, <3>1
  <2>4. at + (m + 1) \in K /\ K \in SUBSET ((at + 1)..Len(tokens))
    BY <2>2, <2>3
  <2> HIDE DEF K
  <2>5. Ahead(K) \in Nat /\ Ahead(K) <= at + (m + 1)
    BY <2>4, AheadIs
  <2>6. NextLook(d) = Ahead(K) + 1
    BY <1>7, <2>1 DEF NextLook, Lists
  <2> QED
    BY <1>1, <1>2, <2>1, <2>5, <2>6
<1> QED
  BY <1>3, <1>4, <1>5, <1>6, <1>7 DEF Directives

----------------------------------------------------------------------------
(* Every step among well-formed lines.                                     *)

\* The lines end at the places o, and the iterator is among them.
Among(o) ==
  /\ Laid(tokens, o, Lv(file), Len(file))
  /\ \E k : Reading(tokens, o, Lv(file), Len(file), at, Len(blocks), k)

\* The iterator before the line u, the m-th but one.
Before(o, m, u, step) ==
  /\ NextLine(tokens, o, Lv(file), Len(file), at, m, u, step)
  /\ Len(blocks) \in Nat /\ Len(blocks) <= Lv(file)[m + 1]

\* A step that passes line u whole, or its first token, and leaves no more blocks
\* open than the line does.
LEMMA MovesOn ==
  ASSUME TypeInv, NEW o, Laid(tokens, o, Lv(file), Len(file)), NEW m, NEW u, NEW step,
         Before(o, m, u, step), tokens' = tokens, file' = file,
         at' \in Nat, at' > at, at' <= at + Len(u),
         Len(blocks') \in Nat, Len(blocks') <= Lv(file)[m + 1] + step
  PROVE  Among(o)'
<1>1. PICK t \in {tokens}, lv \in {Lv(file)}, n \in {Len(file)}, a \in {at}, b \in {at'},
           d \in {Len(blocks')} :
        t = tokens /\ lv = Lv(file) /\ n = Len(file) /\ a = at /\ b = at' /\ d = Len(blocks')
  OBVIOUS
<1>2. a \in Nat \ {0} /\ b \in Nat /\ b > a /\ b <= a + Len(u)
  <2>1. at \in 1..(Len(tokens) + 2) /\ Len(tokens) \in Nat
    BY DEF TypeInv, Laid
  <2>2. at \in Nat \ {0}
    BY <2>1
  <2> QED
    BY <1>1, <2>2
<1>3. NextLine(t, o, lv, n, a, m, u, step)
  BY <1>1 DEF Before
<1>4. d <= lv[m + 2]
  <2>1. lv[m + 2] = lv[m + 1] + step
    BY <1>3 DEF NextLine
  <2> QED
    BY <1>1, <2>1
<1>5. Reading(t, o, lv, n, b, d, m + 1)
  BY <1>2, <1>3, <1>4, Onward
<1>6. Laid(t, o, lv, n)
  BY <1>1
<1>7. tokens' = t /\ Lv(file') = lv /\ Len(file') = n /\ at' = b /\ Len(blocks') = d
  BY <1>1
<1> QED
  BY <1>5, <1>6, <1>7 DEF Among

LEMMA BlocksAre ==
  ASSUME TypeInv
  PROVE  /\ Len(blocks) \in Nat /\ at \in Nat \ {0} /\ Len(tokens) \in Nat
         /\ End = Len(tokens) + 1 /\ (Inside <=> Len(blocks) # 0)
<1>1. Len(blocks) \in Nat /\ (blocks = <<>> <=> Len(blocks) = 0)
  BY EmptySeq, LenProperties DEF TypeInv
<1>2. Len(tokens) \in Nat
  BY LenProperties DEF TypeInv
<1>3. at \in 1..(Len(tokens) + 2)
  BY DEF TypeInv
<1> QED
  BY <1>1, <1>2, <1>3 DEF End, Inside

\* What a step from state "parse" has to show.
Stays(o) ==
  /\ state' = "parse" => Among(o)'
  /\ state' # "beyond" \/ Lv(file)[Len(file) + 1] # 0

\* A token that was read along with a directive, or that says nothing, is skipped.
LEMMA PassiveStep ==
  ASSUME TypeInv, Looking, Next, Passive(tokens[at])
  PROVE  Skip
<1>1. state = "parse" /\ at < End /\ at <= Len(tokens)
  BY LookingIs
<1>2. ~Tokenize /\ ~Done /\ ~Beyond
  <2>1. ~(at >= End)
    BY <1>1, BlocksAre
  <2> QED
    BY <1>1, <2>1 DEF Tokenize, Done, Beyond
<1>3. tokens[at] \notin Directives /\ tokens[at] # "server" /\ tokens[at] # RightBrace
  BY DEF Passive
<1>4. "location" \in Directives
  BY DEF Directives
<1>5. ~OpenServer /\ ~OpenLocation /\ ~CloseBlock
  BY <1>3, <1>4 DEF OpenServer, OpenLocation, CloseBlock
<1>6. ~Directive
  BY <1>3 DEF Directive
<1> QED
  BY <1>2, <1>5, <1>6 DEF Next

LEMMA SkipInLine ==
  ASSUME TypeInv, NEW o, Laid(tokens, o, Lv(file), Len(file)), NEW m, NEW u, NEW step,
         Before(o, m, u, step), Skip
  PROVE  Stays(o)
<1>1. /\ state = "parse" /\ at' = at + 1
      /\ file' = file /\ tokens' = tokens /\ state' = state /\ blocks' = blocks
  BY DEF Skip, Looking
<1>2. at \in Nat \ {0} /\ Len(blocks) \in Nat /\ (Inside <=> Len(blocks) # 0)
  BY BlocksAre
<1>3. PICK l \in {Lv(file)[m + 1]}, c \in {Len(u)}, n \in {Len(blocks)} :
        l = Lv(file)[m + 1] /\ c = Len(u) /\ n = Len(blocks)
  OBVIOUS
<1>4. c \in Nat /\ c # 0 /\ l \in Nat /\ n <= l /\ l + step \in Nat /\ n \in Nat
  BY <1>2, <1>3 DEF Before, NextLine
<1>5. Shaped(u, step) /\ Len(u) # 0 /\ u[1] = tokens[at]
  BY DEF Before, NextLine
<1>6. n <= l + step
  <2>1. CASE step = -1
    <3>1. CloseTokens(u)
      BY <1>5, <2>1 DEF Shaped
    <3>2. tokens[at] = RightBrace
      BY <1>5, <3>1 DEF CloseTokens
    <3>3. ~Inside
      BY <3>2 DEF Skip
    <3>4. n = 0
      BY <1>2, <1>3, <3>3
    <3> QED
      BY <1>4, <3>4
  <2>2. CASE step # -1
    <3>1. step = 0 \/ step = 1
      BY <1>5, <2>2 DEF Shaped
    <3> QED
      BY <1>4, <3>1
  <2> QED
    BY <2>1, <2>2
<1>7. at' \in Nat /\ at' > at /\ at' <= at + c
  BY <1>1, <1>2, <1>4
<1>8. Len(blocks') \in Nat /\ Len(blocks') <= Lv(file)[m + 1] + step
  BY <1>1, <1>3, <1>4, <1>6
<1>9. Among(o)'
  BY <1>1, <1>3, <1>7, <1>8, MovesOn
<1> QED
  BY <1>1, <1>9 DEF Stays

LEMMA OpenServerInLine ==
  ASSUME TypeInv, NEW o, Laid(tokens, o, Lv(file), Len(file)), NEW m, NEW u, NEW step,
         Before(o, m, u, step), OpenServer
  PROVE  Stays(o)
<1>1. Looking /\ ~Inside /\ tokens[at] = "server" /\ at \in Nat /\ End = Len(tokens) + 1
  BY BlocksAre DEF OpenServer
<1>2. /\ Shaped(u, step) /\ Len(u) \in Nat /\ Len(u) # 0 /\ u[1] = "server"
      /\ o[m + 2] = (at + Len(u)) - 1 /\ o[m + 2] <= Len(tokens)
      /\ Lv(file)[m + 1] \in Nat
      /\ \A j \in 1..(Len(u) - 1) : tokens[at + j] = u[j + 1]
  BY <1>1 DEF Before, NextLine
<1>3. ServerTokens(u) /\ step = 1
  BY <1>2, FirstToken
<1>4. Len(u) = 2 /\ u[2] = LeftBrace
  BY <1>3 DEF ServerTokens
<1>5. tokens[at + 1] = LeftBrace /\ at + 1 # End
  <2>1. tokens[at + 1] = u[1 + 1]
    BY <1>2, <1>4
  <2>2. at + 1 <= Len(tokens)
    BY <1>1, <1>2, <1>4
  <2> QED
    BY <1>1, <1>4, <2>1, <2>2, BlocksAre
<1>6. /\ blocks' = <<NewBlock>> /\ at' = at + 2
      /\ file' = file /\ state' = state /\ tokens' = tokens
  BY <1>5 DEF OpenServer
<1>7. at' \in Nat /\ at' > at /\ at' <= at + Len(u)
  BY <1>1, <1>4, <1>6
<1>8. Len(blocks') \in Nat /\ Len(blocks') <= Lv(file)[m + 1] + step
  <2>1. Len(blocks') = 1
    BY <1>6, ShortLens
  <2> QED
    BY <1>2, <1>3, <2>1
<1>9. Among(o)'
  BY <1>6, <1>7, <1>8, MovesOn
<1>10. state' = "parse"
  BY <1>1, <1>6 DEF Looking
<1> QED
  BY <1>9, <1>10 DEF Stays

LEMMA OpenLocationInLine ==
  ASSUME TypeInv, NEW o, Laid(tokens, o, Lv(file), Len(file)), NEW m, NEW u, NEW step,
         Before(o, m, u, step), OpenLocation
  PROVE  Stays(o)
<1>1. Looking /\ tokens[at] = "location" /\ at \in Nat /\ End = Len(tokens) + 1 /\ Len(tokens) \in Nat
  BY BlocksAre DEF OpenLocation
<1>2. /\ Shaped(u, step) /\ Len(u) \in Nat /\ Len(u) # 0 /\ u[1] = "location"
      /\ o[m + 2] = (at + Len(u)) - 1 /\ o[m + 2] <= Len(tokens)
      /\ Lv(file)[m + 1] \in Nat /\ Len(blocks) <= Lv(file)[m + 1]
      /\ \A j \in 1..(Len(u) - 1) : tokens[at + j] = u[j + 1]
  BY <1>1 DEF Before, NextLine
<1>3. LocationTokens(u) /\ step = 1
  BY <1>2, FirstToken
<1>4. Len(u) = 3 /\ u[3] = LeftBrace
  BY <1>3 DEF LocationTokens
<1>5. tokens[at + 2] = LeftBrace /\ at + 2 < End
  <2>1. tokens[at + 2] = u[2 + 1]
    BY <1>2, <1>4
  <2>2. at + 2 <= Len(tokens)
    BY <1>1, <1>2, <1>4
  <2> QED
    BY <1>1, <1>4, <2>1, <2>2
<1>6. /\ blocks' = Append(blocks, NewLocation(tokens[at + 1])) /\ at' = at + 3
      /\ file' = file /\ state' = state /\ tokens' = tokens
  BY <1>1, <1>5 DEF OpenLocation
<1>7. at' \in Nat /\ at' > at /\ at' <= at + Len(u)
  BY <1>1, <1>4, <1>6
<1>8. Len(blocks') \in Nat /\ Len(blocks') <= Lv(file)[m + 1] + step
  <2>1. PICK S : blocks \in Seq(S)
    BY DEF TypeInv
  <2>2. Len(blocks') = Len(blocks) + 1 /\ Len(blocks) \in Nat
    BY <1>6, <2>1, OneMore
  <2> QED
    BY <1>2, <1>3, <2>2
<1>9. Among(o)'
  BY <1>6, <1>7, <1>8, MovesOn
<1>10. state' = "parse"
  BY <1>1, <1>6 DEF Looking
<1> QED
  BY <1>9, <1>10 DEF Stays

LEMMA CloseInLine ==
  ASSUME TypeInv, NEW o, Laid(tokens, o, Lv(file), Len(file)), NEW m, NEW u, NEW step,
         Before(o, m, u, step), CloseBlock
  PROVE  Stays(o)
<1>1. /\ Looking /\ tokens[at] = RightBrace /\ at \in Nat /\ Inside /\ Len(blocks) \in Nat
      /\ Len(blocks) # 0
  BY BlocksAre DEF CloseBlock
<1>2. /\ Shaped(u, step) /\ Len(u) \in Nat /\ Len(u) # 0 /\ u[1] = RightBrace
      /\ Lv(file)[m + 1] \in Nat /\ Len(blocks) <= Lv(file)[m + 1]
  BY <1>1 DEF Before, NextLine
<1>3. step = -1
  BY <1>2, FirstToken
<1>4. at' = at + 1 /\ file' = file /\ state' = state /\ tokens' = tokens
  BY DEF CloseBlock
<1>5. at' \in Nat /\ at' > at /\ at' <= at + Len(u)
  BY <1>1, <1>2, <1>4
<1>6. Len(blocks') \in Nat /\ Len(blocks') <= Lv(file)[m + 1] + step
  <2>1. Len(blocks') = Len(blocks) - 1
    BY CloseBlockType
  <2> QED
    BY <1>1, <1>2, <1>3, <2>1
<1>7. Among(o)'
  BY <1>4, <1>5, <1>6, MovesOn
<1>8. state' = "parse"
  BY <1>1, <1>4 DEF Looking
<1> QED
  BY <1>7, <1>8 DEF Stays

LEMMA DirectiveInLine ==
  ASSUME TypeInv, NEW o, Laid(tokens, o, Lv(file), Len(file)), NEW m, NEW u, NEW step,
         Before(o, m, u, step), Directive
  PROVE  Stays(o)
<1>1. Looking /\ at \in Nat /\ Inside /\ Len(blocks) \in Nat /\ Len(tokens) \in Nat
  BY BlocksAre DEF Directive
<1>2. PICK d \in Directives \ {"location"} :
        /\ tokens[at] = d
        /\ \/ Finish("threw")
           \/ LastRead(d) >= End
           \/ /\ LastRead(d) < End /\ blocks' = Append(Front(blocks), Assign(Top, d)) /\ at' = NextLook(d)
              /\ file' = file /\ state' = state /\ tokens' = tokens
  BY DEF Directive
<1>3. /\ Shaped(u, step) /\ Len(u) \in Nat /\ Len(u) # 0 /\ u[1] = d
      /\ o[m + 2] = (at + Len(u)) - 1 /\ o[m + 2] <= Len(tokens)
      /\ Lv(file)[m + 1] \in Nat /\ Len(blocks) <= Lv(file)[m + 1]
      /\ \A j \in 1..(Len(u) - 1) : tokens[at + j] = u[j + 1]
  BY <1>2 DEF Before, NextLine
<1>4. CompleteTokens(u) /\ step = 0
  BY <1>2, <1>3, FirstToken
<1>5. LastRead(d) < End /\ NextLook(d) <= at + Len(u)
  <2>1. at + Len(u) <= Len(tokens) + 1
    BY <1>1, <1>3
  <2> QED
    BY <1>1, <1>3, <1>4, <2>1, DirectiveEnds
<1>6. CASE Finish("threw")
  BY <1>6 DEF Finish, Stays
<1>7. CASE ~Finish("threw")
  <2>1. /\ blocks' = Append(Front(blocks), Assign(Top, d)) /\ at' = NextLook(d)
        /\ file' = file /\ state' = state /\ tokens' = tokens
    <3>1. LastRead(d) \in Nat /\ End \in Nat
      BY <1>1, LastReadIs, BlocksAre
    <3>2. ~(LastRead(d) >= End)
      BY <1>5, <3>1
    <3> QED
      BY <1>2, <1>7, <3>2
  <2>2. at' \in Nat /\ at' > at /\ at' <= at + Len(u)
    <3>1. NextLook(d) \in 1..(Len(tokens) + 2) /\ NextLook(d) > at
      BY <1>1, <1>5, NextLookIs
    <3> QED
      BY <1>1, <1>5, <2>1, <3>1
  <2>3. Len(blocks') = Len(blocks)
    <3>1. PICK S : blocks \in Seq(S)
      BY DEF TypeInv
    <3>2. PICK s \in Seq(S), b \in {Assign(Top, d)} : s = blocks /\ b = Assign(Top, d)
      BY <3>1
    <3>3. s # <<>>
      BY <1>1, <3>2 DEF Inside
    <3>4. Exchanged(Append(Front(s), b), s, b)
      BY <3>3, LastExchanged
    <3> QED
      BY <2>1, <3>2, <3>4 DEF Exchanged
  <2>4. Len(blocks') \in Nat /\ Len(blocks') <= Lv(file)[m + 1] + step
    BY <1>1, <1>3, <1>4, <2>3
  <2>5. Among(o)'
    BY <2>1, <2>2, <2>4, MovesOn
  <2>6. state' = "parse"
    BY <1>1, <2>1 DEF Looking
  <2> QED
    BY <2>5, <2>6 DEF Stays
<1> QED
  BY <1>6, <1>7

LEMMA AmongStep ==
  ASSUME TypeInv, state = "parse", NEW o, Among(o), Next
  PROVE  Stays(o)
<1>1. PICK t \in {tokens}, lv \in {Lv(file)}, n \in {Len(file)}, a \in {at}, d \in {Len(blocks)} :
        t = tokens /\ lv = Lv(file) /\ n = Len(file) /\ a = at /\ d = Len(blocks)
  OBVIOUS
<1>2. Laid(t, o, lv, n) /\ a \in Nat \ {0} /\ d \in Nat /\ \E k : Reading(t, o, lv, n, a, d, k)
  BY <1>1, BlocksAre DEF Among
<1>3. PICK m :
        /\ Reading(t, o, lv, n, a, d, m)
        /\ \/ a <= o[m + 1] /\ a <= Len(t) /\ Passive(t[a])
           \/ m = n /\ a = Len(t) + 1 /\ d <= lv[n + 1]
           \/ d <= lv[m + 1] /\ \E u, step : NextLine(t, o, lv, n, a, m, u, step)
  BY <1>2, LooksAt
<1>4. Laid(tokens, o, Lv(file), Len(file)) /\ Len(tokens) \in Nat /\ End = Len(tokens) + 1
  BY <1>1, <1>2, BlocksAre
<1>5. CASE a <= o[m + 1] /\ a <= Len(t) /\ Passive(t[a])
  <2>1. Looking
    BY <1>1, <1>2, <1>4, <1>5 DEF Looking
  <2>2. Skip
    BY <1>1, <1>5, <2>1, PassiveStep
  <2>3. /\ at' = a + 1 /\ file' = file /\ state' = "parse" /\ tokens' = t
        /\ Len(blocks') = d /\ Lv(file') = lv /\ Len(file') = n
    BY <1>1, <2>2 DEF Skip
  <2>4. o[m + 1] \in Nat
    <3>1. n \in Nat /\ m \in 0..n
      BY <1>2, <1>3 DEF Laid, Reading
    <3>2. m + 1 \in 1..(n + 1)
      BY <3>1
    <3> QED
      BY <1>2, <3>2 DEF Laid
  <2>5. a + 1 <= o[m + 1] + 1 /\ \A j \in (a + 1)..o[m + 1] : j \in a..o[m + 1]
    BY <1>2, <1>5, <2>4
  <2>6. Reading(t, o, lv, n, a + 1, d, m)
    BY <1>3, <2>5 DEF Reading
  <2>7. Among(o)'
    BY <1>2, <2>3, <2>6 DEF Among
  <2> QED
    BY <2>3, <2>7 DEF Stays
<1>6. CASE m = n /\ a = Len(t) + 1 /\ d <= lv[n + 1]
  <2>1. ~Looking /\ ~Tokenize
    BY <1>1, <1>4, <1>6 DEF Looking, Tokenize
  <2>2. Done \/ Beyond
    BY <2>1 DEF Next, Skip, OpenServer, OpenLocation, CloseBlock, Directive
  <2>3. CASE Done
    BY <2>3 DEF Done, Finish, Stays
  <2>4. CASE Beyond
    <3>1. d # 0 /\ state' = "beyond"
      BY <1>1, <2>4, BlocksAre DEF Beyond, Finish
    <3>2. lv[n + 1] # 0
      <4>1. n \in Nat
        BY <1>2 DEF Laid
      <4>2. lv[n + 1] \in Nat
        BY <1>2, <4>1 DEF Laid
      <4> QED
        BY <1>2, <1>6, <3>1, <4>2
    <3> QED
      BY <1>1, <3>1, <3>2 DEF Stays
  <2> QED
    BY <2>2, <2>3, <2>4
<1>7. CASE d <= lv[m + 1] /\ \E u, step : NextLine(t, o, lv, n, a, m, u, step)
  <2>0. PICK u : \E step : NextLine(t, o, lv, n, a, m, u, step)
    BY <1>7
  <2>1. PICK step : NextLine(t, o, lv, n, a, m, u, step)
    BY <2>0
  <2>2. Before(o, m, u, step)
    BY <1>1, <1>2, <1>7, <2>1 DEF Before
  <2>3. Looking /\ at < End
    <3>1. /\ Len(u) \in Nat /\ Len(u) # 0
          /\ o[m + 2] = (a + Len(u)) - 1 /\ o[m + 2] <= Len(t)
      BY <2>1 DEF NextLine
    <3> QED
      BY <1>1, <1>2, <1>4, <3>1 DEF Looking
  <2>4. ~Tokenize /\ ~Done /\ ~Beyond
    <3>1. ~(at >= End)
      BY <1>1, <1>2, <1>4, <2>3
    <3> QED
      BY <3>1 DEF Tokenize, Done, Beyond
  <2>5. CASE Skip
    BY <1>4, <2>2, <2>5, SkipInLine
  <2>6. CASE OpenServer
    BY <1>4, <2>2, <2>6, OpenServerInLine
  <2>7. CASE OpenLocation
    BY <1>4, <2>2, <2>7, OpenLocationInLine
  <2>8. CASE CloseBlock
    BY <1>4, <2>2, <2>8, CloseInLine
  <2>9. CASE Directive
    BY <1>4, <2>2, <2>9, DirectiveInLine
  <2> QED
    BY <2>4, <2>5, <2>6, <2>7, <2>8, <2>9 DEF Next
<1> QED
  BY <1>3, <1>5, <1>6, <1>7

\* What tokenize() lets through is laid out by its lines.
LEMMA LinesAreLaid ==
  ASSUME NEW f \in Seq(Seq(Word)), LinesFine(f), ~Unopened(AllWords(f)),
         NEW t, t = FlattenSeq(AllTokens(f))
  PROVE  \E o : /\ Laid(t, o, Lv(f), Len(f)) /\ PlacesIn(AllTokens(f), t, o)
               /\ Reading(t, o, Lv(f), Len(f), 1, 0, 0)
<1>1. PICK n \in {Len(f)}, e \in {AllTokens(f)}, lv \in {Lv(f)} :
        n = Len(f) /\ e = AllTokens(f) /\ lv = Lv(f)
  OBVIOUS
<1>2. /\ e \in Seq(Seq(Token)) /\ Len(e) = n /\ n \in Nat /\ t = FlattenSeq(e)
      /\ \A k \in 1..n : f[k] \in Seq(Word) /\ e[k] = LineTokens(f[k])
  BY <1>1, TokensAre
<1>3. ASSUME NEW k \in 1..n
      PROVE  Shaped(LineTokens(f[k]), Step(f[k])) /\ Step(f[k]) \in {-1, 0, 1}
  <2>1. f[k] \in Seq(Word) /\ LineWellFormed(f[k])
    BY <1>1, <1>2 DEF LinesFine
  <2> QED
    BY <2>1, LineIsShaped
<1>4. LevelsOf(f, n, lv)
  <2>1. Sums(f, n, lv)
    BY <1>1, <1>2, LvIs
  <2> QED
    BY <1>2, <1>3, <2>1, SumsAre
<1>5. lv \in [1..(n + 1) -> Nat] /\ lv[1] = 0 /\ \A k \in 1..n : lv[k + 1] = lv[k] + Step(f[k])
  <2>1. lv \in [1..(n + 1) -> Nat]
    BY <1>1, <1>4, LevelsAreNatural
  <2> QED
    BY <1>4, <2>1 DEF LevelsOf
<1>6. PICK o : PlacesIn(e, t, o)
  BY <1>2, FlattenPlaces
<1>7. /\ o \in [1..(n + 1) -> Nat] /\ o[1] = 0
      /\ \A k \in 1..n : o[k + 1] = o[k] + Len(e[k]) /\ \A j \in 1..Len(e[k]) : t[o[k] + j] = e[k][j]
  BY <1>2, <1>6 DEF PlacesIn
<1>8. Len(t) \in Nat /\ o[n + 1] = Len(t) /\ \A k \in 1..(n + 1) : o[k] <= Len(t)
  BY <1>2, <1>6, Rising
<1>9. ASSUME NEW k \in 1..n PROVE LineAt(t, o[k], o[k + 1], lv[k], lv[k + 1])
  <2>1. PICK u \in {e[k]}, step \in {Step(f[k])} : u = e[k] /\ step = Step(f[k])
    OBVIOUS
  <2>2. Len(u) \in Nat
    <3>1. u \in Seq(Token)
      BY <1>2, <2>1, ElementOfSeq
    <3> QED
      BY <3>1, LenProperties
  <2>3. Shaped(u, step)
    BY <1>2, <1>3, <2>1
  <2>4. o[k + 1] = o[k] + Len(u) /\ lv[k + 1] = lv[k] + step
    BY <1>5, <1>7, <2>1
  <2>5. \A j \in 1..Len(u) : t[o[k] + j] = u[j]
    BY <1>7, <2>1
  <2> QED
    BY <2>2, <2>3, <2>4, <2>5 DEF LineAt
<1>10. Laid(t, o, lv, n)
  BY <1>2, <1>5, <1>7, <1>8, <1>9 DEF Laid
<1>11. Reading(t, o, lv, n, 1, 0, 0)
  <2>1. 0 \in 0..n /\ 0 + 1 = 1 /\ 1 <= o[1] + 1 /\ 0 <= lv[1]
    BY <1>2, <1>5, <1>7
  <2>2. \A j \in 1..o[1] : FALSE
    BY <1>7
  <2> QED
    BY <2>1, <2>2 DEF Reading
<1> QED
  BY <1>1, <1>6, <1>10, <1>11

\* Among well-formed lines the iterator always knows where it is; it leaves the
\* tokens only behind the last line, when that leaves a block open.
NestInv ==
  /\ state = "parse" /\ LinesFine(file) => \E o : Among(o)
  /\ state = "beyond" => ~LinesFine(file) \/ Lv(file)[Len(file) + 1] # 0

LEMMA NextNest ==
  ASSUME TypeInv, NestInv, [Next]_vars
  PROVE  NestInv'
<1>1. CASE UNCHANGED vars
  BY <1>1 DEF vars, NestInv, Among
<1>2. CASE Tokenize
  <2>1. state' # "beyond" /\ file' = file
    BY <1>2 DEF Tokenize
  <2>2. ASSUME state' = "parse", LinesFine(file') PROVE \E o : Among(o)'
    <3>1. PICK f \in {file}, t \in {FlattenSeq(AllTokens(file))} :
            f = file /\ t = FlattenSeq(AllTokens(f))
      OBVIOUS
    <3>2. /\ ~Unopened(AllWords(f)) /\ tokens' = t
          /\ at' = at /\ blocks' = blocks /\ state = "tokenize"
      BY <1>2, <2>2, <3>1 DEF Tokenize, AllTokens
    <3>3. f \in Seq(Seq(Word)) /\ LinesFine(f) /\ at = 1 /\ blocks = <<>>
      BY <2>1, <2>2, <3>1, <3>2 DEF TypeInv
    <3>4. PICK o : Laid(t, o, Lv(f), Len(f)) /\ Reading(t, o, Lv(f), Len(f), 1, 0, 0)
      BY <3>1, <3>2, <3>3, LinesAreLaid
    <3>5. Len(blocks') = 0 /\ file' = f
      BY <2>1, <3>1, <3>2, <3>3, EmptySeq
    <3>6. Among(o)'
      BY <3>2, <3>3, <3>4, <3>5 DEF Among
    <3> QED
      BY <3>6
  <2> QED
    BY <2>1, <2>2 DEF NestInv
<1>3. CASE Next /\ ~Tokenize
  <2>1. state = "parse" /\ file' = file
    BY <1>3 DEF Next, Done, Beyond, Finish, Looking, Skip, OpenServer, OpenLocation,
                CloseBlock, Directive
  <2>2. CASE ~LinesFine(file)
    BY <2>1, <2>2 DEF NestInv
  <2>3. CASE LinesFine(file)
    <3>1. PICK o : Among(o)
      BY <2>1, <2>3 DEF NestInv
    <3>2. Stays(o)
      BY <1>3, <2>1, <3>1, AmongStep
    <3>3. state' = "parse" => \E p : Among(p)'
      BY <3>2 DEF Stays
    <3> QED
      BY <2>1, <3>2, <3>3 DEF NestInv, Stays
  <2> QED
    BY <2>2, <2>3
<1> QED
  BY <1>1, <1>2, <1>3

LEMMA NestHolds == Spec => []NestInv
<1>1. Init => NestInv
  BY DEF Init, NestInv
<1> QED
  BY <1>1, TypeInvHolds, NextNest, PTL DEF Spec

LEMMA NestIsOpen == TypeInv /\ NestInv => BeyondOnlyIfOpen
<1> SUFFICES ASSUME TypeInv, NestInv, state = "beyond", LinesWellFormed(file) PROVE ~AllClosed(file)
  BY DEF BeyondOnlyIfOpen
<1>1. PICK f \in {file}, n \in {Len(file)}, lv \in {Lv(file)} :
        f = file /\ n = Len(f) /\ lv = Lv(f)
  OBVIOUS
<1>2. f \in Seq(Seq(Word)) /\ n \in Nat /\ DOMAIN f = 1..n
  BY <1>1, LenProperties DEF TypeInv
<1>3. LinesFine(f)
  <2>1. \A k \in 1..n : f[k] \in Range(f)
    BY <1>2 DEF Range
  <2> QED
    BY <1>1, <2>1 DEF LinesWellFormed, LinesFine, LineWellFormed
<1>4. lv[n + 1] # 0
  BY <1>1, <1>3 DEF NestInv
<1>5. Len(lv) = n + 1
  <2>1. \A k \in 1..n : Step(f[k]) \in {-1, 0, 1}
    BY Zenon DEF Step
  <2>2. LevelsOf(f, n, lv)
    BY <1>1, <1>2, <2>1, LvIs, SumsAre
  <2>3. lv \in [1..(n + 1) -> Int] /\ n + 1 \in Nat
    BY <1>2, <2>2 DEF LevelsOf
  <2> QED
    BY <2>3, FcnIsSeq
<1>6. Last(Levels(file)) = lv[n + 1]
  BY <1>1, <1>5, LevelsAreLv DEF Last
<1> QED
  BY <1>4, <1>6 DEF AllClosed

\* No parser of a directive compares its iterator with end(), and most of them
\* pass a token unseen.  For files of any number of lines and any depth: when
\* every line is well formed in itself, wherever it stands, the tokens are
\* overrun only if the file leaves a block open.
THEOREM OverrunOnlyIfLeftOpen == Spec => []BeyondOnlyIfOpen
  BY TypeInvHolds, NestHolds, NestIsOpen, PTL

----------------------------------------------------------------------------
(* Sequences that grow by one.                                             *)

Agree(d, e, n) == \A i \in 1..n : d[i] = e[i]

LEMMA TwoConcats ==
  ASSUME NEW e, NEW d, NEW n \in Nat, NEW m \in Nat, n <= m, Agree(d, e, n),
         NEW g, Concats(e, n, g), NEW h, Concats(d, m, h)
  PROVE  Agree(g, h, n)
<1> DEFINE S == {i \in Nat : i \in 1..n => g[i] = h[i]}
<1>1. \A i \in 1..n : g[i] = IF i = 1 THEN e[i] ELSE g[i - 1] \o e[i]
  BY Zenon DEF Concats
<1>2. \A i \in 1..n : h[i] = IF i = 1 THEN e[i] ELSE h[i - 1] \o e[i]
  <2>1. \A i \in 1..m : h[i] = IF i = 1 THEN d[i] ELSE h[i - 1] \o d[i]
    BY Zenon DEF Concats
  <2> QED
    BY <2>1 DEF Agree
<1>3. 0 \in S
  OBVIOUS
<1>4. ASSUME NEW i \in Nat, i \in S PROVE i + 1 \in S
  <2> SUFFICES ASSUME i + 1 \in 1..n PROVE g[i + 1] = h[i + 1]
    OBVIOUS
  <2>1. CASE i = 0
    BY <1>1, <1>2, <2>1
  <2>2. CASE i # 0
    <3>1. i \in 1..n /\ (i + 1) - 1 = i /\ i + 1 # 1
      BY <2>2
    <3>2. g[i] = h[i]
      BY <1>4, <3>1
    <3> QED
      BY <1>1, <1>2, <3>1, <3>2
  <2> QED
    BY <2>1, <2>2
<1> HIDE DEF S
<1>5. Nat \subseteq S
  BY <1>3, <1>4, Reaches
<1> QED
  BY <1>5 DEF S, Agree

\* One sequence more to join.
LEMMA FlattenOneMore ==
  ASSUME NEW X, NEW e \in Seq(Seq(X)), NEW x \in Seq(X)
  PROVE  FlattenSeq(Append(e, x)) = FlattenSeq(e) \o x
<1>1. PICK n \in Nat, d \in {Append(e, x)} : n = Len(e) /\ d = Append(e, x)
  BY LenProperties
<1>2. Len(d) = n + 1 /\ d[n + 1] = x /\ \A i \in 1..n : d[i] = e[i]
  BY <1>1, AppendProperties
<1>3. PICK h : Concats(d, n + 1, h) /\ FlattenSeq(d) = h[n + 1]
  BY <1>2, FlattenIsConcat
<1>4. h[n + 1] = IF n + 1 = 1 THEN d[n + 1] ELSE h[(n + 1) - 1] \o d[n + 1]
  <2>1. \A i \in 1..(n + 1) : h[i] = IF i = 1 THEN d[i] ELSE h[i - 1] \o d[i]
    BY <1>3, Zenon DEF Concats
  <2>2. n + 1 \in 1..(n + 1)
    OBVIOUS
  <2> QED
    BY <2>1, <2>2, Zenon
<1>5. CASE n = 0
  <2>1. h[n + 1] = x
    BY <1>2, <1>4, <1>5
  <2>2. FlattenSeq(e) = <<>>
    <3>1. e = <<>>
      BY <1>1, <1>5, EmptySeq
    <3> QED
      BY <1>1, <1>5, <3>1 DEF FlattenSeq
  <2>3. <<>> \o x = x
    OBVIOUS
  <2> QED
    BY <1>1, <1>3, <2>1, <2>2, <2>3
<1>6. CASE n # 0
  <2>1. PICK g : Concats(e, n, g) /\ FlattenSeq(e) = g[n]
    BY <1>1, <1>6, FlattenIsConcat
  <2>2. n <= n + 1 /\ n + 1 \in Nat /\ n \in 1..n /\ (n + 1) - 1 = n /\ n + 1 # 1
    BY <1>6
  <2>3. \A i \in 1..n : g[i] = h[i]
    <3>1. PICK m \in Nat : m = n + 1
      OBVIOUS
    <3>2. Concats(d, m, h) /\ n <= m
      BY <1>3, <3>1
    <3>3. Concats(e, n, g) /\ Agree(d, e, n)
      BY <1>2, <2>1 DEF Agree
    <3>4. Agree(g, h, n)
      BY <3>2, <3>3, TwoConcats
    <3> QED
      BY <3>4 DEF Agree
  <2>4. h[n + 1] = h[n] \o x
    BY <1>2, <1>4, <2>2
  <2> QED
    BY <1>1, <1>3, <2>1, <2>2, <2>3, <2>4
<1> QED
  BY <1>5, <1>6

----------------------------------------------------------------------------
(* Lines in their order.                                                   *)

Picked(ls, n, g) ==
  g = [k \in 0..n |-> IF k = 0 THEN <<>> ELSE IF k \in ls THEN Append(g[k - 1], k) ELSE g[k - 1]]

LEMMA PickedExists ==
  ASSUME NEW ls, NEW n \in Nat
  PROVE  \E g : Picked(ls, n, g)
<1> DEFINE S == {m \in Nat : \E g : Picked(ls, m, g)}
<1>1. 0 \in S
  <2>1. Picked(ls, 0, [k \in 0..0 |-> <<>>])
    BY DEF Picked
  <2> QED
    BY <2>1
<1>2. ASSUME NEW m \in Nat, m \in S PROVE m + 1 \in S
  <2>1. PICK g : Picked(ls, m, g)
    BY <1>2
  <2> DEFINE h == [k \in 0..(m + 1) |->
                     IF k = 0 THEN <<>> ELSE IF k \in ls THEN Append(g[k - 1], k) ELSE g[k - 1]]
  <2>2. \A k \in 0..m : h[k] = g[k]
    <3>1. \A k \in 0..m : k \in 0..(m + 1)
      OBVIOUS
    <3>2. \A k \in 0..m : g[k] = IF k = 0 THEN <<>> ELSE IF k \in ls THEN Append(g[k - 1], k) ELSE g[k - 1]
      BY <2>1, Zenon DEF Picked
    <3> QED
      BY <3>1, <3>2
  <2>3. \A k \in 0..(m + 1) : k # 0 => k - 1 \in 0..m
    OBVIOUS
  <2>4. h = [k \in 0..(m + 1) |->
               IF k = 0 THEN <<>> ELSE IF k \in ls THEN Append(h[k - 1], k) ELSE h[k - 1]]
    BY <2>2, <2>3
  <2> HIDE DEF h
  <2>5. Picked(ls, m + 1, h)
    BY <2>4 DEF Picked
  <2> QED
    BY <2>5
<1> HIDE DEF S
<1>3. n \in S
  BY <1>1, <1>2, Reaches
<1> QED
  BY <1>3 DEF S

LEMMA InOrderIsPicked ==
  ASSUME NEW f, NEW ls, Len(f) \in Nat
  PROVE  \E g : Picked(ls, Len(f), g) /\ InOrder(f, ls) = g[Len(f)]
<1> DEFINE g == CHOOSE g : Picked(ls, Len(f), g)
<1>1. Picked(ls, Len(f), g)
  BY PickedExists
<1>2. InOrder(f, ls) = g[Len(f)]
  BY Zenon DEF InOrder, Picked
<1> QED
  BY <1>1, <1>2

LEMMA PickedIs ==
  ASSUME NEW ls, NEW n \in Nat, NEW g, Picked(ls, n, g)
  PROVE  /\ g[0] = <<>>
         /\ \A k \in 1..n : g[k] = IF k \in ls THEN Append(g[k - 1], k) ELSE g[k - 1]
<1>1. \A k \in 0..n : g[k] = IF k = 0 THEN <<>> ELSE IF k \in ls THEN Append(g[k - 1], k) ELSE g[k - 1]
  BY Zenon DEF Picked
<1>2. 0 \in 0..n /\ \A k \in 1..n : k \in 0..n /\ k # 0
  OBVIOUS
<1> QED
  BY <1>1, <1>2

LEMMA PickedSame ==
  ASSUME NEW n \in Nat, NEW m \in 0..n, NEW ls, NEW ms, \A k \in 1..m : k \in ls <=> k \in ms,
         NEW g, Picked(ls, n, g), NEW h, Picked(ms, n, h)
  PROVE  g[m] = h[m]
<1> DEFINE S == {i \in Nat : i \in 0..m => g[i] = h[i]}
<1>1. 0 \in S
  BY PickedIs
<1>2. ASSUME NEW i \in Nat, i \in S PROVE i + 1 \in S
  <2> SUFFICES ASSUME i + 1 \in 0..m PROVE g[i + 1] = h[i + 1]
    OBVIOUS
  <2>1. i \in 0..m /\ i + 1 \in 1..n /\ i + 1 \in 1..m /\ (i + 1) - 1 = i
    OBVIOUS
  <2>2. g[i] = h[i] /\ (i + 1 \in ls <=> i + 1 \in ms)
    BY <1>2, <2>1
  <2>3. g[i + 1] = IF i + 1 \in ls THEN Append(g[i], i + 1) ELSE g[i]
    BY <2>1, PickedIs
  <2>4. h[i + 1] = IF i + 1 \in ms THEN Append(h[i], i + 1) ELSE h[i]
    BY <2>1, PickedIs
  <2> QED
    BY <2>2, <2>3, <2>4
<1> HIDE DEF S
<1>3. m \in S /\ m \in 0..m
  BY <1>1, <1>2, Reaches
<1> QED
  BY <1>3 DEF S

LEMMA PickedNoMore ==
  ASSUME NEW n \in Nat, NEW m \in 0..n, NEW ls, \A k \in (m + 1)..n : k \notin ls,
         NEW g, Picked(ls, n, g)
  PROVE  g[n] = g[m]
<1> DEFINE S == {i \in Nat : m + i \in m..n => g[m + i] = g[m]}
<1>1. 0 \in S
  OBVIOUS
<1>2. ASSUME NEW i \in Nat, i \in S PROVE i + 1 \in S
  <2> SUFFICES ASSUME m + (i + 1) \in m..n PROVE g[m + (i + 1)] = g[m]
    OBVIOUS
  <2>1. /\ m + i \in m..n /\ m + (i + 1) \in 1..n /\ m + (i + 1) \in (m + 1)..n
        /\ (m + (i + 1)) - 1 = m + i
    OBVIOUS
  <2>2. g[m + i] = g[m] /\ m + (i + 1) \notin ls
    BY <1>2, <2>1
  <2>3. g[m + (i + 1)] = g[m + i]
    BY <2>1, <2>2, PickedIs
  <2> QED
    BY <2>2, <2>3
<1> HIDE DEF S
<1>3. n - m \in S /\ m + (n - m) = n /\ n \in m..n
  <2>1. n - m \in Nat
    OBVIOUS
  <2> QED
    BY <1>1, <1>2, <2>1, Reaches
<1> QED
  BY <1>3 DEF S

LEMMA InOrderNone ==
  ASSUME NEW f, Len(f) \in Nat
  PROVE  InOrder(f, {}) = <<>>
<1>1. PICK g : Picked({}, Len(f), g) /\ InOrder(f, {}) = g[Len(f)]
  BY InOrderIsPicked
<1>2. g[Len(f)] = g[0]
  BY <1>1, PickedNoMore
<1> QED
  BY <1>1, <1>2, PickedIs

LEMMA InOrderOneMore ==
  ASSUME NEW f, Len(f) \in Nat, NEW k \in 1..Len(f), NEW ls, ls \subseteq 1..(k - 1)
  PROVE  InOrder(f, ls \cup {k}) = Append(InOrder(f, ls), k)
<1>1. PICK n \in Nat : n = Len(f)
  OBVIOUS
<1>2. PICK ms : ms = ls \cup {k}
  OBVIOUS
<1>3. PICK g : Picked(ls, n, g) /\ InOrder(f, ls) = g[n]
  BY <1>1, InOrderIsPicked
<1>4. PICK h : Picked(ms, n, h) /\ InOrder(f, ms) = h[n]
  BY <1>1, InOrderIsPicked
<1>5. /\ k \in 1..n /\ k - 1 \in 0..n /\ k \in 0..n /\ k \in ms /\ (\A j \in 1..(k - 1) : j \in ls <=> j \in ms)
      /\ (\A j \in (k + 1)..n : j \notin ms) /\ (\A j \in ((k - 1) + 1)..n : j \notin ls)
  BY <1>1, <1>2
<1>6. g[k - 1] = h[k - 1]
  BY <1>3, <1>4, <1>5, PickedSame
<1>7. h[n] = h[k]
  BY <1>4, <1>5, PickedNoMore
<1>8. g[n] = g[k - 1]
  BY <1>3, <1>5, PickedNoMore
<1>9. h[k] = Append(h[k - 1], k)
  <2>1. \A j \in 1..n : h[j] = IF j \in ms THEN Append(h[j - 1], j) ELSE h[j - 1]
    BY <1>4, PickedIs
  <2> QED
    BY <1>5, <2>1
<1> QED
  BY <1>2, <1>3, <1>4, <1>6, <1>7, <1>8, <1>9

LEMMA InOrderIsSeq ==
  ASSUME NEW f, Len(f) \in Nat, NEW ls
  PROVE  InOrder(f, ls) \in Seq(ls)
<1>0. PICK n \in Nat : n = Len(f)
  OBVIOUS
<1>1. PICK g : Picked(ls, n, g) /\ InOrder(f, ls) = g[n]
  BY <1>0, InOrderIsPicked
<1> DEFINE S == {i \in Nat : i \in 0..n => g[i] \in Seq(ls)}
<1>2. 0 \in S
  <2>1. g[0] = <<>>
    BY <1>1, PickedIs
  <2> QED
    BY <2>1, EmptySeq
<1>3. ASSUME NEW i \in Nat, i \in S PROVE i + 1 \in S
  <2> SUFFICES ASSUME i + 1 \in 0..n PROVE g[i + 1] \in Seq(ls)
    OBVIOUS
  <2>1. i \in 0..n /\ i + 1 \in 1..n /\ (i + 1) - 1 = i
    OBVIOUS
  <2>2. g[i] \in Seq(ls)
    BY <1>3, <2>1
  <2>3. g[i + 1] = IF i + 1 \in ls THEN Append(g[i], i + 1) ELSE g[i]
    BY <1>1, <2>1, PickedIs
  <2> QED
    BY <2>2, <2>3, AppendProperties
<1> HIDE DEF S
<1>4. n \in S /\ n \in 0..n
  BY <1>2, <1>3, Reaches
<1> QED
  BY <1>1, <1>4 DEF S

----------------------------------------------------------------------------
(* What lines mean, one line after the other.                              *)

Items == STRING \cup {Comma[s] : s \in DOMAIN Comma}

LEMMA ListedIs ==
  ASSUME NEW line \in Seq(Word), Name(line) \in Directives
  PROVE  Listed(line) \in Seq(Items)
<1>1. PICK W, n : LineOf(line, W, n)
  BY LineIs
<1>2. n \in Nat /\ n # 0 /\ DOMAIN W = 1..n /\ \A k \in 1..n : W[k] \in Word
  BY <1>1 DEF LineOf, Directives, Lists, Singles
<1>3. ValuesOf(line, W, n)
  BY <1>1, <1>2, ValuesAre
<1>4. PICK m \in Nat, V \in {ValuesIn(line)} : V = ValuesIn(line) /\ m = n - 1
  BY <1>2
<1>5. DOMAIN V = 1..m /\ \A k \in 1..m : V[k] = W[k + 1].w /\ k + 1 \in 1..n
  BY <1>2, <1>3, <1>4 DEF ValuesOf
<1>6. \A k \in 1..m : V[k] \in STRING
  BY <1>2, <1>5 DEF Word
<1>7. Listed(line) \in [1..m -> Items]
  BY <1>4, <1>5, <1>6 DEF Listed, Items
<1> QED
  BY <1>7, FcnIsSeq

\* The lists on lines s, joined.
Gather(f, s) == FlattenSeq([n \in DOMAIN s |-> Listed(f[s[n]])])

Named(f) == {k \in 1..Len(f) : f[k] \in Seq(Word) /\ Name(f[k]) \in Directives}

LEMMA GatherMore ==
  ASSUME NEW f, NEW s \in Seq(Named(f)), NEW k \in Named(f)
  PROVE  Gather(f, Append(s, k)) = Gather(f, s) \o Listed(f[k])
<1> DEFINE L(r) == [i \in DOMAIN r |-> Listed(f[r[i]])]
<1>1. \A i \in Named(f) : Listed(f[i]) \in Seq(Items)
  BY ListedIs DEF Named
<1>2. PICK n \in Nat : n = Len(s) /\ DOMAIN s = 1..n /\ \A i \in 1..n : s[i] \in Named(f)
  BY LenProperties, ElementOfSeq
<1>3. L(s) \in [1..n -> Seq(Items)]
  BY <1>1, <1>2
<1>4. L(s) \in Seq(Seq(Items)) /\ Len(L(s)) = n
  <2> HIDE DEF L
  <2> QED
    BY <1>2, <1>3, FcnIsSeq
<1>5. PICK x \in Seq(Items) : x = Listed(f[k])
  BY <1>1
<1>6. PICK r : r = Append(s, k)
  OBVIOUS
<1>7. DOMAIN r = 1..(n + 1) /\ r[n + 1] = k /\ \A i \in 1..n : r[i] = s[i]
  <2>1. r \in Seq(Named(f)) /\ Len(r) = n + 1 /\ r[n + 1] = k /\ \A i \in 1..n : r[i] = s[i]
    BY <1>2, <1>6, AppendProperties
  <2> QED
    BY <2>1, LenProperties
<1>8. L(r) = Append(L(s), x)
  <2>1. PICK e \in Seq(Seq(Items)) : e = L(s)
    BY <1>4
  <2>2. Len(e) = n /\ \A i \in 1..n : e[i] = Listed(f[s[i]])
    BY <1>2, <1>4, <2>1
  <2>3. PICK a : a = Append(e, x)
    OBVIOUS
  <2>4. /\ a \in Seq(Seq(Items)) /\ Len(a) = n + 1 /\ a[n + 1] = x
        /\ \A i \in 1..n : a[i] = e[i]
    BY <2>2, <2>3, AppendProperties
  <2>5. DOMAIN a = 1..(n + 1) /\ a = [i \in DOMAIN a |-> a[i]]
    BY <2>4, LenProperties
  <2>6. \A i \in 1..(n + 1) : a[i] = Listed(f[r[i]])
    <3>1. \A i \in 1..(n + 1) : i \in 1..n \/ i = n + 1
      OBVIOUS
    <3> QED
      BY <1>5, <1>7, <2>2, <2>4, <3>1
  <2>7. L(r) = a
    BY <1>7, <2>5, <2>6
  <2> QED
    BY <2>1, <2>3, <2>7
<1>9. FlattenSeq(Append(L(s), x)) = FlattenSeq(L(s)) \o x
  <2> HIDE DEF L
  <2> QED
    BY <1>4, FlattenOneMore
<1> QED
  BY <1>5, <1>6, <1>8, <1>9 DEF Gather

LEMMA GatherNone == \A f : Gather(f, <<>>) = <<>>
<1> SUFFICES ASSUME NEW f PROVE Gather(f, <<>>) = <<>>
  OBVIOUS
<1>1. PICK e : e = [n \in DOMAIN <<>> |-> Listed(f[<<>>[n]])]
  OBVIOUS
<1>2. DOMAIN <<>> = 1..0
  OBVIOUS
<1>3. e \in [1..0 -> {}]
  BY <1>1, <1>2
<1>4. e \in Seq({}) /\ Len(e) = 0
  BY <1>3, FcnIsSeq
<1>5. e = <<>>
  BY <1>4, EmptySeq
<1> QED
  BY <1>1, <1>4, <1>5 DEF Gather, FlattenSeq

\* Where a thing that is set comes from.
From(s) == IF s = "status" THEN "return" ELSE s

Settings == Singles \cup {"status", "return"}

LEMMA NewBlockSet == DOMAIN NewBlock.set = Settings /\ NewBlock.set = [s \in Settings |-> NewBlock.set[s]]
  BY DEF NewBlock, Settings

LEMMA MeaningIs ==
  ASSUME NEW f, NEW ls
  PROVE  Meaning(f, ls) =
           [lists |-> [d \in Lists |-> Gather(f, Said(f, ls, d))],
            set |-> [s \in Settings |->
                       IF Said(f, ls, From(s)) = <<>> THEN NewBlock.set[s]
                       ELSE SetTo(f[Last(Said(f, ls, From(s)))], s)]]
  BY NewBlockSet DEF Meaning, Gather, From

\* Lines before line k.
Below(ls, k) == ls \subseteq 1..(k - 1)

LEMMA SeqWider ==
  ASSUME NEW S, NEW T, S \subseteq T, NEW s \in Seq(S)
  PROVE  s \in Seq(T)
<1>1. PICK n \in Nat : n = Len(s) /\ DOMAIN s = 1..n /\ \A k \in 1..n : s[k] \in S
  BY LenProperties, ElementOfSeq
<1>2. s = [k \in 1..n |-> s[k]]
  BY <1>1, LenProperties
<1>3. s \in [1..n -> T]
  BY <1>1, <1>2
<1> QED
  BY <1>3, FcnIsSeq

LEMMA SaidMore ==
  ASSUME NEW f, Len(f) \in Nat, NEW k \in 1..Len(f), NEW ls, Below(ls, k), NEW d
  PROVE  Said(f, ls \cup {k}, d) =
           IF Name(f[k]) = d THEN Append(Said(f, ls, d), k) ELSE Said(f, ls, d)
<1>1. PICK ms : ms = {j \in ls : Name(f[j]) = d}
  OBVIOUS
<1>2. ms \subseteq 1..(k - 1)
  BY <1>1 DEF Below
<1>3. {j \in ls \cup {k} : Name(f[j]) = d} = IF Name(f[k]) = d THEN ms \cup {k} ELSE ms
  BY <1>1
<1>4. InOrder(f, ms \cup {k}) = Append(InOrder(f, ms), k)
  BY <1>2, InOrderOneMore
<1> QED
  BY <1>1, <1>3, <1>4 DEF Said

LEMMA SaidIsSeq ==
  ASSUME NEW f, Len(f) \in Nat, NEW ls, NEW d, NEW T, \A k \in ls : Name(f[k]) = d => k \in T
  PROVE  Said(f, ls, d) \in Seq(T)
<1>1. PICK ms : ms = {k \in ls : Name(f[k]) = d}
  OBVIOUS
<1>2. Said(f, ls, d) \in Seq(ms) /\ ms \subseteq T
  BY <1>1, InOrderIsSeq DEF Said
<1> QED
  BY <1>2, SeqWider

\* The meaning of no lines is that of a new block.
LEMMA MeaningNone ==
  ASSUME NEW f, Len(f) \in Nat
  PROVE  Meaning(f, {}) = Own(NewBlock)
<1>1. \A d : Said(f, {}, d) = <<>>
  <2>1. \A d : {k \in {} : Name(f[k]) = d} = {}
    OBVIOUS
  <2> QED
    BY <2>1, InOrderNone DEF Said
<1>2. NewBlock.lists = [d \in Lists |-> <<>>]
  BY DEF NewBlock
<1>3. PICK S, set : S = Settings /\ set = NewBlock.set
  OBVIOUS
<1>4. set = [s \in S |-> set[s]]
  BY <1>3, NewBlockSet
<1>5. [s \in S |-> IF Said(f, {}, From(s)) = <<>> THEN set[s]
                   ELSE SetTo(f[Last(Said(f, {}, From(s)))], s)] = set
  BY <1>1, <1>4
<1>6. [d \in Lists |-> Gather(f, Said(f, {}, d))] = [d \in Lists |-> <<>>]
  BY <1>1, GatherNone
<1> QED
  BY <1>2, <1>3, <1>5, <1>6, MeaningIs DEF Own

\* A line that is no directive means nothing.
LEMMA MeaningQuiet ==
  ASSUME NEW f, Len(f) \in Nat, NEW k \in 1..Len(f), NEW ls, Below(ls, k),
         Name(f[k]) \notin Directives \ {"location"}
  PROVE  Meaning(f, ls \cup {k}) = Meaning(f, ls)
<1>1. \A d \in Directives \ {"location"} : Said(f, ls \cup {k}, d) = Said(f, ls, d)
  <2>1. \A d : Said(f, ls \cup {k}, d) =
                 IF Name(f[k]) = d THEN Append(Said(f, ls, d), k) ELSE Said(f, ls, d)
    BY SaidMore
  <2> QED
    BY <2>1
<1>2. \A d \in Lists : d \in Directives \ {"location"}
  BY DEF Directives, Lists
<1>3. \A s \in Settings : From(s) \in Directives \ {"location"}
  BY DEF Settings, From, Directives, Singles
<1>4. PICK ms : ms = ls \cup {k}
  OBVIOUS
<1>5. /\ \A d \in Lists : Said(f, ms, d) = Said(f, ls, d)
      /\ \A s \in Settings : Said(f, ms, From(s)) = Said(f, ls, From(s))
  BY <1>1, <1>2, <1>3, <1>4
<1>6. [d \in Lists |-> Gather(f, Said(f, ms, d))] = [d \in Lists |-> Gather(f, Said(f, ls, d))]
  BY <1>5
<1>7. [s \in Settings |-> IF Said(f, ms, From(s)) = <<>> THEN NewBlock.set[s]
                          ELSE SetTo(f[Last(Said(f, ms, From(s)))], s)]
      = [s \in Settings |-> IF Said(f, ls, From(s)) = <<>> THEN NewBlock.set[s]
                          ELSE SetTo(f[Last(Said(f, ls, From(s)))], s)]
  BY <1>5
<1> QED
  BY <1>4, <1>6, <1>7, MeaningIs

\* A block's directives after that on a line.
Also(own, line) ==
  [lists |-> [d \in Lists |-> IF d = Name(line) THEN own.lists[d] \o Listed(line) ELSE own.lists[d]],
   set |-> [s \in Settings |-> IF From(s) = Name(line) THEN SetTo(line, s) ELSE own.set[s]]]

LEMMA MeaningMore ==
  ASSUME NEW f \in Seq(Seq(Word)), NEW k \in 1..Len(f), NEW ls, Below(ls, k),
         Name(f[k]) \in Directives \ {"location"}
  PROVE  Meaning(f, ls \cup {k}) = Also(Meaning(f, ls), f[k])
<1>0. Len(f) \in Nat /\ \A j \in 1..Len(f) : f[j] \in Seq(Word)
  BY LenProperties, ElementOfSeq
<1>1. PICK ms, own : ms = ls \cup {k} /\ own = Meaning(f, ls)
  OBVIOUS
<1>2. \A d : Said(f, ms, d) = IF Name(f[k]) = d THEN Append(Said(f, ls, d), k) ELSE Said(f, ls, d)
  <2>1. \A d : Said(f, ls \cup {k}, d) =
                 IF Name(f[k]) = d THEN Append(Said(f, ls, d), k) ELSE Said(f, ls, d)
    BY <1>0, SaidMore
  <2> QED
    BY <1>1, <2>1
<1>3. \A d \in Lists : own.lists[d] = Gather(f, Said(f, ls, d))
  BY <1>1, MeaningIs
<1>4. \A s \in Settings : own.set[s] = IF Said(f, ls, From(s)) = <<>> THEN NewBlock.set[s]
                                       ELSE SetTo(f[Last(Said(f, ls, From(s)))], s)
  BY <1>1, MeaningIs
<1>5. ASSUME NEW d \in Lists, d = Name(f[k])
      PROVE  Gather(f, Append(Said(f, ls, d), k)) = own.lists[d] \o Listed(f[k])
  <2>1. k \in Named(f)
    BY <1>0, <1>5 DEF Named, Directives
  <2>2. \A j \in ls : Name(f[j]) = d => j \in Named(f)
    <3>1. \A j \in ls : j \in 1..Len(f)
      BY <1>0 DEF Below
    <3> QED
      BY <1>0, <3>1 DEF Named, Directives
  <2>3. Said(f, ls, d) \in Seq(Named(f))
    BY <1>0, <2>2, SaidIsSeq
  <2>4. Gather(f, Append(Said(f, ls, d), k)) = Gather(f, Said(f, ls, d)) \o Listed(f[k])
    BY <2>1, <2>3, GatherMore
  <2> QED
    BY <1>3, <2>4
<1>6. ASSUME NEW d
      PROVE  Append(Said(f, ls, d), k) # <<>> /\ Last(Append(Said(f, ls, d), k)) = k
  <2> DEFINE K == ls \cup {k}
  <2>1. \A j \in ls : Name(f[j]) = d => j \in K
    OBVIOUS
  <2>2. k \in K
    OBVIOUS
  <2> HIDE DEF K
  <2>6. PICK s \in Seq(K) : s = Said(f, ls, d)
    BY <1>0, <2>1, SaidIsSeq
  <2>3. PICK n \in Nat, a \in {Append(s, k)} : n = Len(s) /\ a = Append(s, k)
    BY <2>2, LenProperties
  <2>4. Len(a) = n + 1 /\ a[n + 1] = k
    BY <2>2, <2>3, AppendProperties
  <2>5. a # <<>>
    BY <2>4
  <2> QED
    BY <2>3, <2>4, <2>5, <2>6 DEF Last
<1>7. \A d \in Lists : Gather(f, Said(f, ms, d)) =
                         IF d = Name(f[k]) THEN own.lists[d] \o Listed(f[k]) ELSE own.lists[d]
  BY <1>2, <1>3, <1>5
<1>8. ASSUME NEW s \in Settings
      PROVE  (IF Said(f, ms, From(s)) = <<>> THEN NewBlock.set[s]
              ELSE SetTo(f[Last(Said(f, ms, From(s)))], s))
             = IF From(s) = Name(f[k]) THEN SetTo(f[k], s) ELSE own.set[s]
  <2>1. CASE From(s) = Name(f[k])
    BY <1>2, <1>6, <2>1
  <2>2. CASE From(s) # Name(f[k])
    BY <1>2, <1>4, <2>2
  <2> QED
    BY <2>1, <2>2
<1>9. [d \in Lists |-> Gather(f, Said(f, ms, d))] =
        [d \in Lists |-> IF d = Name(f[k]) THEN own.lists[d] \o Listed(f[k]) ELSE own.lists[d]]
  BY <1>7
<1>10. [s \in Settings |-> IF Said(f, ms, From(s)) = <<>> THEN NewBlock.set[s]
                           ELSE SetTo(f[Last(Said(f, ms, From(s)))], s)]
       = [s \in Settings |-> IF From(s) = Name(f[k]) THEN SetTo(f[k], s) ELSE own.set[s]]
  BY <1>8
<1>11. Meaning(f, ms) =
         [lists |-> [d \in Lists |-> Gather(f, Said(f, ms, d))],
          set |-> [s \in Settings |-> IF Said(f, ms, From(s)) = <<>> THEN NewBlock.set[s]
                                      ELSE SetTo(f[Last(Said(f, ms, From(s)))], s)]]
  BY MeaningIs
<1> QED
  BY <1>1, <1>9, <1>10, <1>11 DEF Also

----------------------------------------------------------------------------
(* Well-nested files.                                                      *)

LEMMA KindIs ==
  ASSUME NEW line \in Seq(Word)
  PROVE  /\ Step(line) \in {-1, 0, 1}
         /\ Opens(line, "server") => Step(line) = 1 /\ Name(line) = "server" /\ ~Opens(line, "location")
         /\ Opens(line, "location") => Step(line) = 1 /\ Name(line) = "location" /\ ~Opens(line, "server")
         /\ Closes(line) => Step(line) = -1 /\ Name(line) = RightBrace
         /\ IsComplete(line) => Step(line) = 0 /\ Name(line) \in Directives \ {"location"}
         /\ SaysNothing(line) => Step(line) = 0 /\ Name(line) \notin Directives
         /\ Step(line) = 0 => ~Opens(line, "server") /\ ~Opens(line, "location") /\ ~Closes(line)
         /\ Step(line) = -1 => Closes(line) /\ ~Opens(line, "server") /\ ~Opens(line, "location")
         /\ Step(line) = 1 => Opens(line, "server") \/ Opens(line, "location")
<1>0. Step(line) = IF Opens(line, "server") \/ Opens(line, "location") THEN 1
                   ELSE IF Closes(line) THEN -1 ELSE 0
  BY Zenon DEF Step
<1>1. ASSUME NEW what, Opens(line, what) PROVE Name(line) = what
  BY <1>1 DEF Opens
<1>2. Closes(line) => Name(line) = RightBrace
  BY DEF Closes
<1>3. IsComplete(line) => Name(line) \in Directives \ {"location"}
  BY DEF IsComplete
<1>4. "server" # "location" /\ RightBrace # "server" /\ RightBrace # "location"
  BY Punctuation DEF Directives
<1>5. "server" \notin Directives /\ RightBrace \notin Directives
  BY Punctuation DEF Directives, Lists, Singles
<1>6. ASSUME SaysNothing(line) PROVE Step(line) = 0 /\ Name(line) \notin Directives
  <2>1. PICK W \in {Words(line)}, n \in {Len(Words(line))} : LineOf(line, W, n)
    BY LineIs
  <2>2. Step(line) = 0
    BY <1>6, <2>1, SaysNothingIs
  <2>3. CASE n = 0
    BY <2>1, <2>2, <2>3 DEF LineOf, Directives, Lists, Singles
  <2>4. CASE n # 0
    <3>0. n \in Nat /\ DOMAIN Plain(line) = 1..n /\ (n # 0 => Name(line) = W[1].w)
          /\ \A k \in 1..n : Plain(line)[k] = W[k].w
      BY <2>1, Zenon DEF LineOf
    <3>3. 1 \in 1..n
      BY <2>4, <3>0
    <3>1. 1 \in DOMAIN Plain(line) /\ Plain(line)[1] = Name(line)
      BY <2>4, <3>0, <3>3, Zenon
    <3>2. Name(line) \notin Special
      BY <1>6, <3>1 DEF SaysNothing, Range
    <3> QED
      BY <2>2, <3>2 DEF Special
  <2> QED
    BY <2>3, <2>4
<1>7. Opens(line, "server") => Name(line) = "server" /\ ~Opens(line, "location")
  BY <1>1, <1>4, Zenon
<1>8. Opens(line, "location") => Name(line) = "location" /\ ~Opens(line, "server")
  BY <1>1, <1>4, Zenon
<1>9. Closes(line) => ~Opens(line, "server") /\ ~Opens(line, "location")
  BY <1>1, <1>2, <1>4, Zenon
<1>10. IsComplete(line) => ~Opens(line, "server") /\ ~Opens(line, "location") /\ ~Closes(line)
  BY <1>1, <1>2, <1>3, <1>5, Zenon
<1>11. 0 # 1 /\ 0 # -1 /\ 1 # -1
  OBVIOUS
<1> QED
  BY <1>0, <1>2, <1>3, <1>6, <1>7, <1>8, <1>9, <1>10, <1>11

\* A line on the level l.
Stands(line, l) ==
  /\ LineWellFormed(line)
  /\ Opens(line, "server") => l = 0
  /\ Opens(line, "location") => l = 1
  /\ Closes(line) \/ IsComplete(line) => l >= 1

\* A file of n lines with the levels lv, in which they belong.
Nested(f, lv, n) ==
  /\ f \in Seq(Seq(Word)) /\ n = Len(f) /\ n \in Nat
  /\ lv \in [1..(n + 1) -> 0..2] /\ lv[1] = 0 /\ lv[n + 1] = 0
  /\ \A k \in 1..n : f[k] \in Seq(Word) /\ Stands(f[k], lv[k]) /\ lv[k + 1] = lv[k] + Step(f[k])

LEMMA WellFormedIsNested ==
  ASSUME NEW f \in Seq(Seq(Word)), WellFormed(f)
  PROVE  Nested(f, Lv(f), Len(f))
<1>1. PICK n \in Nat, lv \in {Lv(f)} : n = Len(f) /\ lv = Lv(f)
  BY LenProperties
<1>2. DOMAIN f = 1..n /\ \A k \in 1..n : f[k] \in Seq(Word)
  BY <1>1, LenProperties, ElementOfSeq
<1>3. LevelsOf(f, n, lv)
  <2>1. \A k \in 1..n : Step(f[k]) \in {-1, 0, 1}
    BY <1>2, KindIs
  <2> QED
    BY <1>1, <2>1, LvIs, SumsAre
<1>4. lv \in [1..(n + 1) -> Int] /\ lv[1] = 0 /\ \A k \in 1..n : lv[k + 1] = lv[k] + Step(f[k])
  BY <1>3 DEF LevelsOf
<1>5. lv[n + 1] = 0
  <2>1. Last(lv) = 0
    BY <1>1, LevelsAreLv DEF WellFormed, AllClosed
  <2>2. Len(lv) = n + 1
    BY <1>4, FcnIsSeq
  <2> QED
    BY <2>1, <2>2 DEF Last
<1>6. ASSUME NEW k \in 1..n PROVE Stands(f[k], lv[k])
  <2>1. f[k] \in Range(f)
    BY <1>2 DEF Range
  <2>2. LineWellFormed(f[k])
    BY <2>1, Zenon DEF WellFormed, LinesWellFormed, LineWellFormed
  <2>3. Levels(f) = lv
    BY <1>1, LevelsAreLv
  <2>4. /\ Opens(f[k], "server") => lv[k] = 0
        /\ Opens(f[k], "location") => lv[k] = 1
        /\ Closes(f[k]) \/ IsComplete(f[k]) => lv[k] >= 1
    BY <1>2, <2>3, Zenon DEF WellFormed
  <2> QED
    BY <2>2, <2>4 DEF Stands
<1> DEFINE S == {m \in Nat : m \in 0..n => lv[m + 1] \in 0..2}
<1>7. 0 \in S
  BY <1>4
<1>8. ASSUME NEW m \in Nat, m \in S PROVE m + 1 \in S
  <2> SUFFICES ASSUME m + 1 \in 0..n PROVE lv[(m + 1) + 1] \in 0..2
    OBVIOUS
  <2>1. m \in 0..n /\ m + 1 \in 1..n
    OBVIOUS
  <2>2. PICK line \in Seq(Word), l \in 0..2, s \in {-1, 0, 1} :
          line = f[m + 1] /\ l = lv[m + 1] /\ s = Step(line)
    BY <1>2, <1>8, <2>1, KindIs
  <2>3. Stands(line, l)
    BY <1>6, <2>1, <2>2
  <2>4. lv[(m + 1) + 1] = l + s
    BY <1>4, <2>1, <2>2
  <2>7. /\ Step(line) = 1 => Opens(line, "server") \/ Opens(line, "location")
        /\ Step(line) = -1 => Closes(line)
    BY KindIs
  <2>5. s = 1 => l = 0 \/ l = 1
    BY <2>2, <2>3, <2>7, Zenon DEF Stands
  <2>6. s = -1 => l >= 1
    BY <2>2, <2>3, <2>7, Zenon DEF Stands
  <2> QED
    BY <2>4, <2>5, <2>6
<1> HIDE DEF S
<1>9. \A k \in 1..(n + 1) : lv[k] \in 0..2
  <2>1. \A k \in 1..(n + 1) : k - 1 \in S /\ k - 1 \in 0..n /\ (k - 1) + 1 = k
    <3>1. \A k \in 1..(n + 1) : k - 1 \in Nat
      OBVIOUS
    <3> QED
      BY SMTT(30), <1>7, <1>8, <3>1, Reaches
  <2> QED
    BY <2>1 DEF S
<1>10. lv \in [1..(n + 1) -> 0..2]
  BY <1>4, <1>9
<1>11. Nested(f, lv, n)
  BY <1>1, <1>2, <1>4, <1>5, <1>6, <1>10 DEF Nested
<1> QED
  BY <1>1, <1>11

----------------------------------------------------------------------------
(* tokenize() lets a well-formed file through.                             *)

LEMMA NeverUnended ==
  ASSUME NEW line \in Seq(Word), LineWellFormed(line)
  PROVE  ~Unended(line)
<1> SUFFICES ASSUME Unended(line) PROVE FALSE
  OBVIOUS
<1>1. PICK W \in {Words(line)}, n \in {Len(Words(line))} : W = Words(line) /\ n = Len(W) /\ LineOf(line, W, n)
  BY LineIs
<1>2. PICK k \in DOMAIN W : \E d \in Checked \ {"location"} : Bare(W[k], d)
  BY <1>1, Zenon DEF Unended
<1>3. PICK d \in Checked \ {"location"} : Bare(W[k], d)
  BY <1>2
<1>4. k \in 1..n /\ n \in Nat /\ W[k] \in Word /\ (n # 0 => W[1].w = Name(line))
  BY <1>1, <1>2 DEF LineOf
<1>5. W[k].w = d
  BY <1>3, <1>4, BareIs
<1>6. d \in Special /\ d \in Directives /\ d # "server" /\ d \notin {LeftBrace, RightBrace}
  <2>1. d \in Directives
    BY <1>3 DEF Checked, Directives, Lists, Singles
  <2> QED
    BY <2>1, Punctuation DEF Special, Directives, Lists, Singles
<1>7. k = 1 => Name(line) = d
  BY <1>4, <1>5
<1>8. ~Opens(line, "server") /\ ~Opens(line, "location")
  <2> SUFFICES ASSUME NEW what \in {"server", "location"}, Opens(line, what) PROVE FALSE
    OBVIOUS
  <2>1. /\ Name(line) = what /\ n = (IF what = "server" THEN 2 ELSE 3) /\ Bare(W[n], LeftBrace)
        /\ what = "location" => W[2].w \notin Special
    BY <1>1 DEF Opens, Last
  <2>2. W[n].w = LeftBrace
    <3>1. n \in 1..n
      BY <2>1
    <3>2. W[n] \in Word
      BY <1>1, <3>1 DEF LineOf
    <3> QED
      BY <2>1, <3>2, BareIs
  <2>3. k = 1 \/ k = 2 \/ k = n
    BY <1>4, <2>1
  <2>4. k # n
    BY <1>5, <1>6, <2>2
  <2>5. k # 1
    BY <1>3, <1>6, <1>7, <2>1
  <2>6. k = 2 /\ what = "location"
    BY <2>1, <2>3, <2>4, <2>5
  <2> QED
    BY <1>5, <1>6, <2>1, <2>6
<1>9. ~Closes(line)
  <2> SUFFICES ASSUME Closes(line) PROVE FALSE
    OBVIOUS
  <2>1. Name(line) = RightBrace /\ n = 1
    BY <1>1 DEF Closes
  <2> QED
    BY <1>4, <1>6, <1>7, <2>1
<1>10. ~SaysNothing(line)
  <2> SUFFICES ASSUME SaysNothing(line) PROVE FALSE
    OBVIOUS
  <2>1. k \in DOMAIN Plain(line) /\ Plain(line)[k] = d
    BY <1>1, <1>4, <1>5 DEF LineOf
  <2> QED
    BY <1>6, <2>1 DEF SaysNothing, Range
<1>11. IsComplete(line)
  BY <1>8, <1>9, <1>10 DEF LineWellFormed
<1>12. Name(line) \in Checked => Last(line).semi
  BY <1>11, Zenon DEF IsComplete
<1>13. ~Last(line).semi
  BY Zenon DEF Unended
<1>14. k # 1
  BY <1>3, <1>7, <1>12, <1>13, Zenon
<1>15. ValuesOf(line, W, n) /\ n # 0
  BY <1>1, <1>4, ValuesAre
<1>16. k - 1 \in 1..(n - 1) /\ (k - 1) + 1 = k
  BY <1>4, <1>14
<1>17. k - 1 \in DOMAIN ValuesIn(line) /\ ValuesIn(line)[k - 1] = d
  BY <1>5, <1>15, <1>16 DEF ValuesOf
<1>18. d \in Range(ValuesIn(line))
  BY <1>17 DEF Range
<1> QED
  BY <1>6, <1>11, <1>18 DEF IsComplete

LEMMA NeverUnopened ==
  ASSUME NEW f, NEW n, NEW lv, Nested(f, lv, n), LevelsOf(f, n, lv)
  PROVE  ~Unopened(AllWords(f))
<1>1. PICK words \in {AllWords(f)}, e \in {WordsOf(f)} : words = AllWords(f) /\ e = WordsOf(f)
  OBVIOUS
<1>2. f \in Seq(Seq(Word)) /\ n = Len(f) /\ n \in Nat
  BY DEF Nested
<1>3. /\ e \in Seq(Seq(Word)) /\ Len(e) = n /\ words \in Seq(Word) /\ Len(words) \in Nat
      /\ DOMAIN words = 1..Len(words)
      /\ \A k \in 1..n : e[k] = Words(f[k]) /\ f[k] \in Seq(Word)
  BY <1>1, <1>2, WordsOfAre, LenProperties
<1>4. LinesFine(f)
  BY <1>2 DEF Nested, Stands, LinesFine
<1>5. PICK p : Counted(f, lv, p)
  BY <1>2, <1>4, DepthIsLevel
<1>6. /\ p[1] = 0 /\ Len(words) = p[n + 1]
      /\ \A k \in 1..n : p[k + 1] = p[k] + Len(e[k]) /\ \A j \in 1..Len(e[k]) : words[p[k] + j] = e[k][j]
      /\ \A k \in 1..(n + 1) : p[k] \in Nat /\ Depth(words, p[k]) = lv[k]
  BY <1>1, <1>2, <1>3, <1>5 DEF Counted, PlacesIn
<1> SUFFICES ASSUME NEW x \in 1..Len(words), Depth(words, x) < 0 PROVE FALSE
  BY <1>1, <1>3 DEF Unopened
<1> DEFINE K == {i \in 0..n : x <= p[i + 1]}
<1>7. n \in K /\ K \in SUBSET Nat /\ IsFiniteSet(K)
  <2>1. IsFiniteSet(0..n)
    BY <1>2, FS_Interval
  <2> QED
    BY <1>2, <1>6, <2>1, FS_Subset
<1>8. PICK m \in K : \A y \in K : m <= y
  <2> HIDE DEF K
  <2> QED
    BY <1>7, LeastIsMember
<1>9. m \in 0..n /\ x <= p[m + 1] /\ m # 0
  BY <1>2, <1>6, <1>8
<1>10. m \in 1..n /\ m - 1 \in 0..n /\ (m - 1) + 1 = m /\ ~(m <= m - 1) /\ m + 1 \in 1..(n + 1) /\ m \in 1..(n + 1)
  BY <1>2, <1>9
<1>11. p[m] < x
  <2>1. m - 1 \notin K
    BY <1>8, <1>10
  <2> QED
    BY <1>6, <1>10, <2>1
<1>12. PICK W \in {Words(f[m])}, q \in {Len(Words(f[m]))}, step \in {Step(f[m])} :
         W = Words(f[m]) /\ q = Len(W) /\ step = Step(f[m])
  OBVIOUS
<1>13. q \in Nat /\ Braces(W, q, step)
  <2>1. f[m] \in Seq(Word) /\ LineWellFormed(f[m])
    BY <1>3, <1>10 DEF Nested, Stands
  <2> QED
    BY <1>12, <2>1, LineIsShaped, WordsAre
<1>14. p[m + 1] = p[m] + q /\ \A j \in 1..q : words[p[m] + j] = W[j]
  <2>1. e[m] = W /\ Len(e[m]) = q
    BY <1>3, <1>10, <1>12
  <2>2. p[m + 1] = p[m] + Len(e[m]) /\ \A j \in 1..Len(e[m]) : words[p[m] + j] = e[m][j]
    BY <1>6, <1>10
  <2> QED
    BY <2>1, <2>2
<1>15. lv[m] \in 0..2 /\ lv[m + 1] \in 0..2
  BY <1>10 DEF Nested
<1>16. CASE x = p[m + 1]
  BY <1>6, <1>10, <1>15, <1>16
<1>17. CASE x # p[m + 1]
  <2>1. PICK a \in Nat : a = p[m]
    BY <1>6, <1>10
  <2>2. x - a \in Nat /\ x - a < q /\ a + (x - a) = x
    BY <1>9, <1>11, <1>13, <1>14, <1>17, <2>1
  <2>3. PICK j \in Nat : j = x - a /\ j < q /\ a + j = x
    BY <2>2
  <2>4. Braces(W, j, 0)
    <3>1. \A k \in 1..j : k \in 1..q /\ k # q
      BY <1>13, <2>3
    <3>2. \A k \in 1..j : ~Bare(W[k], LeftBrace) /\ ~Bare(W[k], RightBrace)
      BY <1>13, <3>1, Zenon DEF Braces
    <3> QED
      BY <3>2 DEF Braces
  <2>5. WordsAt(words, a, W, j)
    <3>1. \A k \in 1..j : k \in 1..q
      BY <1>13, <2>3
    <3> QED
      BY <1>14, <2>1, <3>1 DEF WordsAt
  <2>6. Depth(words, a + j) = Depth(words, a) + 0
    BY <2>4, <2>5, DepthGrows
  <2>7. Depth(words, a) = lv[m]
    BY <1>6, <1>10, <2>1
  <2>8. Depth(words, x) = lv[m] + 0
    BY <2>3, <2>6, <2>7
  <2>9. ~(lv[m] + 0 < 0)
    BY <1>15
  <2> QED
    BY <2>8, <2>9
<1> QED
  BY <1>16, <1>17

----------------------------------------------------------------------------
(* The lines of a block, as far as they have been read.                    *)

OpenedIn(f, what, a, b) == {k \in a..b : Opens(f[k], what)}

\* A server's own lines to line m, and what a location is told to there.
OwnTo(lv, o, m)   == {k \in (o + 1)..m : lv[k] = 1}
InTo(lv, o, p, m) == OwnTo(lv, o, p - 1) \cup ((p + 1)..m)

\* Line o has opened the server, line p the location, that is open behind line m.
InServer(lv, o, m)   == o \in 1..m /\ lv[o] = 0 /\ \A j \in (o + 1)..(m + 1) : lv[j] >= 1
InLocation(lv, p, m) == p \in 1..m /\ lv[p] = 1 /\ \A j \in (p + 1)..(m + 1) : lv[j] = 2

LEMMA OpenedOneMore ==
  ASSUME NEW f, NEW what, NEW a \in Nat, NEW m \in Nat, a <= m + 1
  PROVE  OpenedIn(f, what, a, m + 1) =
           IF Opens(f[m + 1], what) THEN OpenedIn(f, what, a, m) \cup {m + 1}
           ELSE OpenedIn(f, what, a, m)
<1>1. a..(m + 1) = (a..m) \cup {m + 1}
  OBVIOUS
<1> QED
  BY <1>1 DEF OpenedIn

LEMMA OpenedNoMore ==
  ASSUME NEW f, NEW what, NEW a \in Nat, NEW c \in Nat, NEW m \in Nat, a <= c + 1, c <= m,
         \A k \in (c + 1)..m : ~Opens(f[k], what)
  PROVE  OpenedIn(f, what, a, m) = OpenedIn(f, what, a, c)
<1>1. a..m = (a..c) \cup ((c + 1)..m)
  OBVIOUS
<1> QED
  BY <1>1 DEF OpenedIn

LEMMA OwnOneMore ==
  ASSUME NEW lv, NEW o \in Nat, NEW m \in Nat, o <= m
  PROVE  OwnTo(lv, o, m + 1) = IF lv[m + 1] = 1 THEN OwnTo(lv, o, m) \cup {m + 1} ELSE OwnTo(lv, o, m)
<1>1. (o + 1)..(m + 1) = ((o + 1)..m) \cup {m + 1}
  OBVIOUS
<1> QED
  BY <1>1 DEF OwnTo

LEMMA OwnNoMore ==
  ASSUME NEW lv, NEW o \in Nat, NEW c \in Nat, NEW m \in Nat, o <= c, c <= m,
         \A k \in (c + 1)..m : lv[k] # 1
  PROVE  OwnTo(lv, o, m) = OwnTo(lv, o, c)
<1>1. (o + 1)..m = ((o + 1)..c) \cup ((c + 1)..m)
  OBVIOUS
<1> QED
  BY <1>1 DEF OwnTo

LEMMA InOneMore ==
  ASSUME NEW lv, NEW o \in Nat, NEW p \in Nat, NEW m \in Nat, p <= m
  PROVE  InTo(lv, o, p, m + 1) = InTo(lv, o, p, m) \cup {m + 1}
<1>1. (p + 1)..(m + 1) = ((p + 1)..m) \cup {m + 1}
  OBVIOUS
<1> QED
  BY <1>1 DEF InTo

LEMMA InStarts ==
  ASSUME NEW lv, NEW o \in Nat, NEW p \in Nat
  PROVE  InTo(lv, o, p, p) = OwnTo(lv, o, p - 1)
<1>1. (p + 1)..p = {}
  OBVIOUS
<1> QED
  BY <1>1 DEF InTo

LEMMA AllBelow ==
  ASSUME NEW lv, NEW o \in Nat, NEW m \in Nat
  PROVE  /\ Below(OwnTo(lv, o, m), m + 1)
         /\ \A p \in 1..m : Below(InTo(lv, o, p, m), m + 1)
         /\ \A f, what, a \in Nat \ {0} : Below(OpenedIn(f, what, a, m), m + 1)
<1>1. (m + 1) - 1 = m
  OBVIOUS
<1>2. Below(OwnTo(lv, o, m), m + 1)
  BY <1>1 DEF Below, OwnTo
<1>3. ASSUME NEW p \in 1..m PROVE Below(InTo(lv, o, p, m), m + 1)
  <2>1. OwnTo(lv, o, p - 1) \subseteq 1..m
    BY DEF OwnTo
  <2>2. (p + 1)..m \subseteq 1..m
    OBVIOUS
  <2> QED
    BY <1>1, <2>1, <2>2 DEF Below, InTo
<1>4. ASSUME NEW f, NEW what, NEW a \in Nat \ {0} PROVE Below(OpenedIn(f, what, a, m), m + 1)
  BY <1>1 DEF Below, OpenedIn
<1> QED
  BY <1>2, <1>3, <1>4

\* A block that line m + 1 closes.
LEMMA BodyIs ==
  ASSUME NEW n \in Nat, NEW lv \in [1..(n + 1) -> 0..2], NEW m \in 1..n, NEW o \in 1..m,
         \A j \in (o + 1)..m : lv[j] > lv[o], lv[m + 1] = lv[o]
  PROVE  Body(lv, o) = (o + 1)..m
<1>1. DOMAIN lv = 1..(n + 1)
  OBVIOUS
<1>2. ASSUME NEW k \in Body(lv, o) PROVE k \in (o + 1)..m
  <2>1. k \in 1..(n + 1) /\ k > o /\ \A j \in (o + 1)..k : lv[j] > lv[o]
    BY <1>1 DEF Body
  <2>2. ASSUME k >= m + 1 PROVE FALSE
    <3>1. m + 1 \in (o + 1)..k
      BY <2>1, <2>2
    <3>2. lv[m + 1] > lv[o] /\ lv[o] \in 0..2
      BY <2>1, <3>1
    <3> QED
      BY <3>2
  <2> QED
    BY <2>1, <2>2
<1>3. ASSUME NEW k \in (o + 1)..m PROVE k \in Body(lv, o)
  <2>1. k \in 1..(n + 1) /\ k > o /\ \A j \in (o + 1)..k : j \in (o + 1)..m
    OBVIOUS
  <2> QED
    BY <1>1, <2>1 DEF Body
<1> QED
  BY <1>2, <1>3

ServerEnds(f, lv, o, m) ==
  /\ Body(lv, o) = (o + 1)..(m + 1)
  /\ OwnLines(lv, o) = OwnTo(lv, o, m + 1)
  /\ {k \in Body(lv, o) : Opens(f[k], "location")} = OpenedIn(f, "location", o + 1, m + 1)

LEMMA ServerCloses ==
  ASSUME NEW f, NEW n, NEW lv, Nested(f, lv, n), NEW m \in Nat, m + 1 \in 1..n,
         NEW o, InServer(lv, o, m), lv[m + 2] = 0
  PROVE  ServerEnds(f, lv, o, m)
<1>1. n \in Nat /\ lv \in [1..(n + 1) -> 0..2]
  BY DEF Nested
<1>2. o \in 1..(m + 1) /\ lv[o] = 0 /\ \A j \in (o + 1)..(m + 1) : lv[j] >= 1
  BY DEF InServer
<1>3. \A j \in (o + 1)..(m + 1) : lv[j] > lv[o]
  <2>1. \A j \in (o + 1)..(m + 1) : lv[j] \in 0..2
    BY <1>1, <1>2
  <2> QED
    BY <1>2, <2>1
<1>4. PICK c \in 1..n : c = m + 1
  OBVIOUS
<1>5. Body(lv, o) = (o + 1)..c
  <2>1. o \in 1..c /\ (\A j \in (o + 1)..c : lv[j] > lv[o]) /\ lv[c + 1] = lv[o]
    BY <1>2, <1>3, <1>4
  <2> QED
    BY <1>1, <2>1, BodyIs
<1>6. OwnLines(lv, o) = OwnTo(lv, o, c)
  BY <1>2, <1>5 DEF OwnLines, OwnTo
<1> QED
  BY <1>4, <1>5, <1>6 DEF OpenedIn, ServerEnds

LEMMA LocationCloses ==
  ASSUME NEW f, NEW n, NEW lv, Nested(f, lv, n), NEW m \in Nat, m + 1 \in 1..n,
         NEW o, InServer(lv, o, m), NEW p, InLocation(lv, p, m), o < p, lv[m + 2] = 1
  PROVE  LocationLines(lv, o, p) = InTo(lv, o, p, m + 1)
<1>1. n \in Nat /\ lv \in [1..(n + 1) -> 0..2]
  BY DEF Nested
<1>2. o \in 1..m /\ lv[o] = 0 /\ \A j \in (o + 1)..(m + 1) : lv[j] >= 1
  BY DEF InServer
<1>3. p \in 1..m /\ lv[p] = 1 /\ \A j \in (p + 1)..(m + 1) : lv[j] = 2
  BY DEF InLocation
<1>4. PICK c \in 1..n : c = m + 1
  OBVIOUS
<1>5. Body(lv, p) = (p + 1)..c
  <2>1. p \in 1..c /\ (\A j \in (p + 1)..c : lv[j] > lv[p]) /\ lv[c + 1] = lv[p]
    BY <1>3, <1>4
  <2> QED
    BY SMTT(30), <1>1, <2>1, BodyIs
<1>6. {k \in OwnLines(lv, o) : k < p} = OwnTo(lv, o, p - 1)
  <2>1. ASSUME NEW k \in OwnLines(lv, o), k < p PROVE k \in OwnTo(lv, o, p - 1)
    <3>1. k \in 1..(n + 1) /\ k > o /\ lv[k] = 1
      BY <1>1, <1>2 DEF OwnLines, Body
    <3> QED
      BY <1>2, <1>3, <2>1, <3>1 DEF OwnTo
  <2>2. ASSUME NEW k \in OwnTo(lv, o, p - 1) PROVE k \in OwnLines(lv, o) /\ k < p
    <3>1. k \in (o + 1)..(p - 1) /\ lv[k] = 1
      BY DEF OwnTo
    <3>2. k \in 1..(n + 1) /\ k > o /\ k < p
      BY <1>1, <1>2, <1>3, <3>1
    <3>3. \A j \in (o + 1)..k : lv[j] > lv[o]
      <4>1. \A j \in (o + 1)..k : j \in (o + 1)..(m + 1) /\ j \in 1..(n + 1)
        BY <1>1, <1>2, <1>3, <3>1
      <4>2. \A j \in (o + 1)..k : lv[j] >= 1 /\ lv[j] \in 0..2
        BY <1>1, <1>2, <4>1
      <4> QED
        BY <1>2, <4>2
    <3>4. k \in Body(lv, o)
      BY <1>1, <3>2, <3>3 DEF Body
    <3> QED
      BY <1>2, <3>1, <3>2, <3>4 DEF OwnLines
  <2> QED
    BY <2>1, <2>2
<1> QED
  BY <1>4, <1>5, <1>6 DEF LocationLines, InTo

----------------------------------------------------------------------------
(* The blocks under construction, and the lines they have been told.       *)

AsLocation(b) == [uri |-> b.uri, own |-> Own(b)]

\* S are the servers opened by lines up to m.
SameServers(f, lv, S, m) ==
  LET q == InOrder(f, OpenedIn(f, "server", 1, m))
  IN /\ \E X : S \in Seq(X)
     /\ Len(S) = Len(q) /\ \A i \in 1..Len(q) : Read(S[i]) = ServerAt(f, lv, q[i])

\* L are the locations opened by lines up to m of the server that line o opens.
SameLocations(f, lv, o, L, m) ==
  LET q == InOrder(f, OpenedIn(f, "location", o + 1, m))
  IN /\ \E X : L \in Seq(X)
     /\ Len(L) = Len(q) /\ \A i \in 1..Len(q) : AsLocation(L[i]) = LocationAt(f, lv, o, q[i])

NotOpened(f, what, a, b) == \A k \in a..b : ~Opens(f[k], what)

Paired(T, S, t, r, q, k) ==
  \A i \in 1..Len(r) : (i \in 1..Len(q) /\ T[i] = S[i] /\ r[i] = q[i]) \/ (T[i] = t /\ r[i] = k)

\* Two sequences with one more each.
LEMMA PairsOneMore ==
  ASSUME NEW X, NEW S \in Seq(X), NEW Y, NEW q \in Seq(Y), Len(S) = Len(q), NEW t, NEW k
  PROVE  /\ \E Z : Append(S, t) \in Seq(Z)
         /\ Len(Append(S, t)) = Len(Append(q, k))
         /\ Paired(Append(S, t), S, t, Append(q, k), q, k)
<1>1. /\ Append(S, t) \in Seq(X \cup {t}) /\ Len(Append(S, t)) = Len(S) + 1 /\ Len(S) \in Nat
      /\ \A i \in 1..Len(S) : Append(S, t)[i] = S[i]
      /\ Append(S, t)[Len(S) + 1] = t
  BY OneMore
<1>2. /\ Len(Append(q, k)) = Len(q) + 1 /\ Len(q) \in Nat
      /\ \A i \in 1..Len(q) : Append(q, k)[i] = q[i]
      /\ Append(q, k)[Len(q) + 1] = k
  BY OneMore
<1>3. \A i \in 1..(Len(q) + 1) : i \in 1..Len(q) \/ i = Len(q) + 1
  BY <1>2
<1> QED
  BY <1>1, <1>2, <1>3 DEF Paired

\* Line c is the last to open one.
LastOpened(f, what, a, c, m) ==
  /\ InOrder(f, OpenedIn(f, what, a, m)) = Append(InOrder(f, OpenedIn(f, what, a, c - 1)), c)
  /\ \E Y : InOrder(f, OpenedIn(f, what, a, c - 1)) \in Seq(Y)

LEMMA OpenedOnce ==
  ASSUME NEW f, NEW n \in Nat, n = Len(f), NEW what, NEW a \in Nat \ {0}, NEW c \in 1..n, a <= c,
         NEW m \in c..n, Opens(f[c], what), NotOpened(f, what, c + 1, m)
  PROVE  LastOpened(f, what, a, c, m)
<1>1. PICK d \in Nat : d = c - 1 /\ c = d + 1 /\ d + 1 \in 1..n
  OBVIOUS
<1>2. OpenedIn(f, what, a, m) = OpenedIn(f, what, a, c)
  <2>1. a \in Nat /\ c \in Nat /\ m \in Nat /\ a <= c + 1 /\ c <= m
    OBVIOUS
  <2> QED
    BY <2>1, OpenedNoMore DEF NotOpened
<1>3. OpenedIn(f, what, a, d + 1) = OpenedIn(f, what, a, d) \cup {d + 1}
  <2>1. a \in Nat /\ a <= d + 1 /\ Opens(f[d + 1], what)
    BY <1>1
  <2> QED
    BY <2>1, OpenedOneMore
<1>4. PICK ls : ls = OpenedIn(f, what, a, d)
  OBVIOUS
<1>5. ls \subseteq 1..((d + 1) - 1)
  BY <1>4 DEF OpenedIn
<1>6. InOrder(f, ls \cup {d + 1}) = Append(InOrder(f, ls), d + 1)
  BY <1>1, <1>5, InOrderOneMore
<1>7. InOrder(f, ls) \in Seq(ls)
  BY InOrderIsSeq
<1> QED
  BY <1>1, <1>2, <1>3, <1>4, <1>6, <1>7 DEF LastOpened

LEMMA ServersOneMore ==
  ASSUME NEW f, NEW n, NEW lv, Nested(f, lv, n), NEW c \in 1..n, NEW m \in c..n,
         Opens(f[c], "server"), NotOpened(f, "server", c + 1, m),
         NEW S, SameServers(f, lv, S, c - 1), NEW t, Read(t) = ServerAt(f, lv, c)
  PROVE  SameServers(f, lv, Append(S, t), m)
<1>1. n \in Nat /\ n = Len(f)
  BY DEF Nested
<1>2. PICK q, r : q = InOrder(f, OpenedIn(f, "server", 1, c - 1)) /\ r = InOrder(f, OpenedIn(f, "server", 1, m))
  OBVIOUS
<1>3. r = Append(q, c) /\ \E Y : q \in Seq(Y)
  <2>1. PICK a \in Nat \ {0} : a = 1 /\ a <= c
    BY <1>1
  <2>2. LastOpened(f, "server", a, c, m)
    BY <1>1, <2>1, OpenedOnce
  <2> QED
    BY <1>2, <2>1, <2>2 DEF LastOpened
<1>4. (\E X : S \in Seq(X)) /\ Len(S) = Len(q) /\ \A i \in 1..Len(q) : Read(S[i]) = ServerAt(f, lv, q[i])
  BY <1>2, Zenon DEF SameServers
<1>5. PICK T : T = Append(S, t)
  OBVIOUS
<1>6. (\E Z : T \in Seq(Z)) /\ Len(T) = Len(r) /\ Paired(T, S, t, r, q, c)
  <2>1. PICK X : S \in Seq(X)
    BY <1>4
  <2>2. PICK Y : q \in Seq(Y)
    BY <1>3
  <2>3. Len(S) = Len(q)
    BY <1>4
  <2>4. /\ \E Z : Append(S, t) \in Seq(Z)
        /\ Len(Append(S, t)) = Len(Append(q, c))
        /\ Paired(Append(S, t), S, t, Append(q, c), q, c)
    BY <2>1, <2>2, <2>3, PairsOneMore, Zenon
  <2> QED
    BY <1>3, <1>5, <2>4, Zenon
<1>7. \A i \in 1..Len(r) : Read(T[i]) = ServerAt(f, lv, r[i])
  BY <1>4, <1>6, Zenon DEF Paired
<1> QED
  BY <1>2, <1>5, <1>6, <1>7, Zenon DEF SameServers

LEMMA LocationsOneMore ==
  ASSUME NEW f, NEW n, NEW lv, Nested(f, lv, n), NEW c \in 1..n, NEW m \in c..n,
         Opens(f[c], "location"), NotOpened(f, "location", c + 1, m),
         NEW o \in Nat, o < c,
         NEW L, SameLocations(f, lv, o, L, c - 1), NEW t, AsLocation(t) = LocationAt(f, lv, o, c)
  PROVE  SameLocations(f, lv, o, Append(L, t), m)
<1>1. n \in Nat /\ n = Len(f)
  BY DEF Nested
<1>2. PICK q, r : q = InOrder(f, OpenedIn(f, "location", o + 1, c - 1)) /\ r = InOrder(f, OpenedIn(f, "location", o + 1, m))
  OBVIOUS
<1>3. r = Append(q, c) /\ \E Y : q \in Seq(Y)
  <2>1. PICK a \in Nat \ {0} : a = o + 1 /\ a <= c
    BY <1>1
  <2>2. LastOpened(f, "location", a, c, m)
    BY <1>1, <2>1, OpenedOnce
  <2> QED
    BY <1>2, <2>1, <2>2 DEF LastOpened
<1>4. (\E X : L \in Seq(X)) /\ Len(L) = Len(q) /\ \A i \in 1..Len(q) : AsLocation(L[i]) = LocationAt(f, lv, o, q[i])
  BY <1>2, Zenon DEF SameLocations
<1>5. PICK T : T = Append(L, t)
  OBVIOUS
<1>6. (\E Z : T \in Seq(Z)) /\ Len(T) = Len(r) /\ Paired(T, L, t, r, q, c)
  <2>1. PICK X : L \in Seq(X)
    BY <1>4
  <2>2. PICK Y : q \in Seq(Y)
    BY <1>3
  <2>3. Len(L) = Len(q)
    BY <1>4
  <2>4. /\ \E Z : Append(L, t) \in Seq(Z)
        /\ Len(Append(L, t)) = Len(Append(q, c))
        /\ Paired(Append(L, t), L, t, Append(q, c), q, c)
    BY <2>1, <2>2, <2>3, PairsOneMore, Zenon
  <2> QED
    BY <1>3, <1>5, <2>4, Zenon
<1>7. \A i \in 1..Len(r) : AsLocation(T[i]) = LocationAt(f, lv, o, r[i])
  BY <1>4, <1>6, Zenon DEF Paired
<1> QED
  BY <1>2, <1>5, <1>6, <1>7, Zenon DEF SameLocations

LEMMA SameNoMore ==
  ASSUME NEW f, NEW lv, NEW m \in Nat
  PROVE  /\ \A S : ~Opens(f[m + 1], "server") /\ SameServers(f, lv, S, m) => SameServers(f, lv, S, m + 1)
         /\ \A L : \A o \in 0..m : ~Opens(f[m + 1], "location") /\ SameLocations(f, lv, o, L, m)
                     => SameLocations(f, lv, o, L, m + 1)
<1>1. ASSUME ~Opens(f[m + 1], "server") PROVE OpenedIn(f, "server", 1, m + 1) = OpenedIn(f, "server", 1, m)
  <2>1. 1 \in Nat /\ 1 <= m + 1
    OBVIOUS
  <2> QED
    BY <1>1, <2>1, OpenedOneMore
<1>2. ASSUME ~Opens(f[m + 1], "location"), NEW o \in 0..m
      PROVE  OpenedIn(f, "location", o + 1, m + 1) = OpenedIn(f, "location", o + 1, m)
  <2>1. o + 1 \in Nat /\ o + 1 <= m + 1
    OBVIOUS
  <2> QED
    BY <1>2, <2>1, OpenedOneMore
<1>3. ASSUME NEW S, ~Opens(f[m + 1], "server"), SameServers(f, lv, S, m) PROVE SameServers(f, lv, S, m + 1)
  BY <1>1, <1>3, Zenon DEF SameServers
<1>4. ASSUME NEW L, NEW o \in 0..m, ~Opens(f[m + 1], "location"), SameLocations(f, lv, o, L, m)
      PROVE  SameLocations(f, lv, o, L, m + 1)
  BY <1>2, <1>4, Zenon DEF SameLocations
<1> QED
  BY <1>3, <1>4

\* The innermost block has been told what its lines say, and so have those around it.
InOne(f, lv, m, S, b) ==
  \E o \in 1..m :
    /\ InServer(lv, o, m) /\ Opens(f[o], "server") /\ SameServers(f, lv, S, o - 1)
    /\ Own(b) = Meaning(f, OwnTo(lv, o, m)) /\ SameLocations(f, lv, o, b.locations, m)

InTwo(f, lv, m, S, b, c) ==
  \E o \in 1..m : \E p \in 1..m :
    /\ o < p /\ InServer(lv, o, m) /\ Opens(f[o], "server") /\ SameServers(f, lv, S, o - 1)
    /\ InLocation(lv, p, m) /\ Opens(f[p], "location")
    /\ Own(b) = Meaning(f, OwnTo(lv, o, p)) /\ SameLocations(f, lv, o, b.locations, p - 1)
    /\ c.uri = Plain(f[p])[2] /\ Own(c) = Meaning(f, InTo(lv, o, p, m))

Told(f, lv, m, B, S) ==
  /\ lv[m + 1] = 0 => B = <<>> /\ SameServers(f, lv, S, m)
  /\ lv[m + 1] = 1 => \E b : B = <<b>> /\ InOne(f, lv, m, S, b)
  /\ lv[m + 1] = 2 => \E b, c : B = <<b, c>> /\ InTwo(f, lv, m, S, b, c)

LEMMA LineStands ==
  ASSUME NEW f, NEW n, NEW lv, Nested(f, lv, n), NEW m \in Nat, m + 1 \in 1..n
  PROVE  /\ f \in Seq(Seq(Word)) /\ n = Len(f) /\ n \in Nat /\ f[m + 1] \in Seq(Word)
         /\ LineWellFormed(f[m + 1]) /\ lv[m + 1] \in 0..2 /\ lv[m + 2] \in 0..2
         /\ Opens(f[m + 1], "server") => lv[m + 1] = 0 /\ lv[m + 2] = 1
         /\ Opens(f[m + 1], "location") => lv[m + 1] = 1 /\ lv[m + 2] = 2
         /\ Closes(f[m + 1]) => lv[m + 1] >= 1 /\ lv[m + 2] = lv[m + 1] - 1
         /\ IsComplete(f[m + 1]) => lv[m + 1] >= 1
         /\ Step(f[m + 1]) = 0 => lv[m + 2] = lv[m + 1]
<1>1. f \in Seq(Seq(Word)) /\ n = Len(f) /\ n \in Nat
  BY DEF Nested
<1>2. f[m + 1] \in Seq(Word) /\ Stands(f[m + 1], lv[m + 1]) /\ lv[(m + 1) + 1] = lv[m + 1] + Step(f[m + 1])
  BY DEF Nested
<1>3. lv[m + 1] \in 0..2 /\ lv[(m + 1) + 1] \in 0..2
  <2>1. lv \in [1..(n + 1) -> 0..2] /\ m + 1 \in 1..(n + 1) /\ (m + 1) + 1 \in 1..(n + 1)
    <3>1. m + 1 \in 1..(n + 1) /\ (m + 1) + 1 \in 1..(n + 1)
      BY <1>1
    <3> QED
      BY <3>1 DEF Nested
  <2> QED
    BY <2>1
<1>4. (m + 1) + 1 = m + 2
  OBVIOUS
<1>5. PICK line \in Seq(Word), l \in 0..2, s \in {-1, 0, 1} : line = f[m + 1] /\ l = lv[m + 1] /\ s = Step(line)
  BY <1>2, <1>3, KindIs
<1>6. Stands(line, l) /\ lv[m + 2] = l + s
  BY <1>2, <1>4, <1>5
<1>7. /\ Opens(line, "server") => s = 1 /\ l = 0
      /\ Opens(line, "location") => s = 1 /\ l = 1
      /\ Closes(line) => s = -1 /\ l >= 1
      /\ IsComplete(line) => l >= 1
      /\ LineWellFormed(line)
  <2>1. /\ Opens(line, "server") => Step(line) = 1
        /\ Opens(line, "location") => Step(line) = 1
        /\ Closes(line) => Step(line) = -1
    BY KindIs
  <2> QED
    BY <1>5, <1>6, <2>1, Zenon DEF Stands
<1> QED
  BY SMTT(30), <1>1, <1>3, <1>4, <1>5, <1>6, <1>7

LEMMA ServerStays ==
  ASSUME NEW lv, NEW o, NEW m \in Nat, InServer(lv, o, m), lv[m + 2] >= 1
  PROVE  InServer(lv, o, m + 1)
<1>1. \A j \in (o + 1)..((m + 1) + 1) : j \in (o + 1)..(m + 1) \/ j = m + 2
  BY DEF InServer
<1> QED
  BY <1>1 DEF InServer

LEMMA LocationStays ==
  ASSUME NEW lv, NEW p, NEW m \in Nat, InLocation(lv, p, m), lv[m + 2] = 2
  PROVE  InLocation(lv, p, m + 1)
<1>1. \A j \in (p + 1)..((m + 1) + 1) : j \in (p + 1)..(m + 1) \/ j = m + 2
  BY DEF InLocation
<1> QED
  BY <1>1 DEF InLocation

Setting(line) == Name(line) \in Directives \ {"location"}

LEMMA MeaningLine ==
  ASSUME NEW f \in Seq(Seq(Word)), NEW m \in Nat, m + 1 \in 1..Len(f), NEW ls, Below(ls, m + 1)
  PROVE  Meaning(f, ls \cup {m + 1}) =
           IF Setting(f[m + 1]) THEN Also(Meaning(f, ls), f[m + 1]) ELSE Meaning(f, ls)
<1>1. PICK k \in 1..Len(f) : k = m + 1
  OBVIOUS
<1>2. Len(f) \in Nat
  BY LenProperties
<1>3. Below(ls, k)
  BY <1>1
<1>4. CASE Name(f[k]) \in Directives \ {"location"}
  BY <1>1, <1>3, <1>4, MeaningMore DEF Setting
<1>5. CASE Name(f[k]) \notin Directives \ {"location"}
  BY <1>1, <1>2, <1>3, <1>5, MeaningQuiet DEF Setting
<1> QED
  BY <1>4, <1>5

\* A line makes block t of block b.
Tells(line, b, t) ==
  /\ t.uri = b.uri /\ t.locations = b.locations
  /\ Own(t) = IF Setting(line) THEN Also(Own(b), line) ELSE Own(b)

LEMMA TopOfTwo ==
  /\ \A b, t : Last(<<b>>) = b /\ Append(Front(<<b>>), t) = <<t>>
  /\ \A b, c, t : Last(<<b, c>>) = c /\ Append(Front(<<b, c>>), t) = <<b, t>>
<1>1. ASSUME NEW b, NEW t PROVE Last(<<b>>) = b /\ Append(Front(<<b>>), t) = <<t>>
  <2>1. Front(<<b>>) = <<>>
    BY DEF Front
  <2> QED
    BY <2>1 DEF Last
<1>2. ASSUME NEW b, NEW c, NEW t PROVE Last(<<b, c>>) = c /\ Append(Front(<<b, c>>), t) = <<b, t>>
  <2>0. PICK X : b \in X /\ c \in X
    <3>1. b \in {b, c} /\ c \in {b, c}
      OBVIOUS
    <3> QED
      BY <3>1
  <2>1. PICK s \in Seq(X) : s = <<b, c>>
    BY <2>0, ShortSeqs
  <2>2. s # <<>> /\ Len(s) = 2 /\ s[1] = b /\ s[2] = c
    BY <2>1
  <2>3. PICK r : r = Append(Front(s), t)
    OBVIOUS
  <2>4. Last(s) = s[Len(s)] /\ r \in Seq(X \cup {t}) /\ Exchanged(r, s, t)
    BY <2>2, <2>3, LastExchanged
  <2>5. Len(r) = 2 /\ r[2] = t /\ r[1] = b
    <3>1. 1 \in 1..2 /\ 1 # 2
      OBVIOUS
    <3> QED
      BY <2>2, <2>4, <3>1 DEF Exchanged
  <2>6. r = <<b, t>>
    <3>1. r = [k \in 1..2 |-> r[k]]
      BY <2>4, <2>5, LenProperties
    <3>2. \A k \in 1..2 : k = 1 \/ k = 2
      OBVIOUS
    <3>3. PICK q : q = <<b, t>>
      OBVIOUS
    <3>4. q \in Seq({b, t}) /\ Len(q) = 2 /\ q[1] = b /\ q[2] = t
      BY <3>3
    <3>5. q = [k \in 1..2 |-> q[k]]
      BY <3>4, LenProperties
    <3>6. [k \in 1..2 |-> q[k]] = [k \in 1..2 |-> r[k]]
      BY <2>5, <3>2, <3>4
    <3> QED
      BY <3>1, <3>3, <3>5, <3>6
  <2> QED
    BY <2>1, <2>2, <2>3, <2>4, <2>6
<1> QED
  BY <1>1, <1>2

LEMMA InOneLine ==
  ASSUME NEW f, NEW n, NEW lv, Nested(f, lv, n), NEW m \in Nat, m + 1 \in 1..n,
         Step(f[m + 1]) = 0, lv[m + 1] = 1, NEW S, NEW b, InOne(f, lv, m, S, b),
         NEW t, Tells(f[m + 1], b, t)
  PROVE  InOne(f, lv, m + 1, S, t)
<1>1. /\ f \in Seq(Seq(Word)) /\ n = Len(f) /\ f[m + 1] \in Seq(Word) /\ lv[m + 2] = 1
  BY LineStands
<1>2. PICK o \in 1..m :
        /\ InServer(lv, o, m) /\ Opens(f[o], "server") /\ SameServers(f, lv, S, o - 1)
        /\ Own(b) = Meaning(f, OwnTo(lv, o, m)) /\ SameLocations(f, lv, o, b.locations, m)
  BY Zenon DEF InOne
<1>3. o \in 1..(m + 1) /\ o \in Nat /\ o <= m /\ o \in 0..m
  OBVIOUS
<1>4. InServer(lv, o, m + 1)
  BY <1>1, <1>2, ServerStays
<1>5. SameLocations(f, lv, o, t.locations, m + 1)
  <2>1. ~Opens(f[m + 1], "location")
    BY <1>1, KindIs
  <2>2. t.locations = b.locations
    BY DEF Tells
  <2> QED
    BY <1>2, <1>3, <2>1, <2>2, SameNoMore
<1>6. Own(t) = Meaning(f, OwnTo(lv, o, m + 1))
  <2>1. PICK ls : ls = OwnTo(lv, o, m)
    OBVIOUS
  <2>2. OwnTo(lv, o, m + 1) = ls \cup {m + 1}
    BY <1>3, <2>1, OwnOneMore
  <2>3. Below(ls, m + 1)
    BY <1>3, <2>1, AllBelow
  <2>4. Meaning(f, ls \cup {m + 1}) =
          IF Setting(f[m + 1]) THEN Also(Meaning(f, ls), f[m + 1]) ELSE Meaning(f, ls)
    BY <1>1, <2>3, MeaningLine
  <2> QED
    BY <1>2, <2>1, <2>2, <2>4 DEF Tells
<1> QED
  BY <1>2, <1>3, <1>4, <1>5, <1>6, Zenon DEF InOne

LEMMA InTwoLine ==
  ASSUME NEW f, NEW n, NEW lv, Nested(f, lv, n), NEW m \in Nat, m + 1 \in 1..n,
         Step(f[m + 1]) = 0, lv[m + 1] = 2, NEW S, NEW b, NEW c, InTwo(f, lv, m, S, b, c),
         NEW t, Tells(f[m + 1], c, t)
  PROVE  InTwo(f, lv, m + 1, S, b, t)
<1>1. /\ f \in Seq(Seq(Word)) /\ n = Len(f) /\ f[m + 1] \in Seq(Word) /\ lv[m + 2] = 2
  BY LineStands
<1>2. PICK o \in 1..m, p \in 1..m :
        /\ o < p /\ InServer(lv, o, m) /\ Opens(f[o], "server") /\ SameServers(f, lv, S, o - 1)
        /\ InLocation(lv, p, m) /\ Opens(f[p], "location")
        /\ Own(b) = Meaning(f, OwnTo(lv, o, p)) /\ SameLocations(f, lv, o, b.locations, p - 1)
        /\ c.uri = Plain(f[p])[2] /\ Own(c) = Meaning(f, InTo(lv, o, p, m))
  BY Zenon DEF InTwo
<1>3. o \in 1..(m + 1) /\ p \in 1..(m + 1) /\ o \in Nat /\ p \in Nat /\ p <= m
  OBVIOUS
<1>4. InServer(lv, o, m + 1)
  BY SMTT(30), <1>1, <1>2, ServerStays
<1>5. InLocation(lv, p, m + 1)
  BY <1>1, <1>2, LocationStays
<1>6. Own(t) = Meaning(f, InTo(lv, o, p, m + 1))
  <2>1. PICK ls : ls = InTo(lv, o, p, m)
    OBVIOUS
  <2>2. InTo(lv, o, p, m + 1) = ls \cup {m + 1}
    BY <1>3, <2>1, InOneMore
  <2>3. Below(ls, m + 1)
    BY <1>3, <2>1, AllBelow
  <2>4. Meaning(f, ls \cup {m + 1}) =
          IF Setting(f[m + 1]) THEN Also(Meaning(f, ls), f[m + 1]) ELSE Meaning(f, ls)
    BY <1>1, <2>3, MeaningLine
  <2> QED
    BY <1>2, <2>1, <2>2, <2>4 DEF Tells
<1>7. t.uri = c.uri
  BY DEF Tells
<1> QED
  BY <1>2, <1>3, <1>4, <1>5, <1>6, <1>7, Zenon DEF InTwo

\* A line that opens or closes no block.
LEMMA ToldLine ==
  ASSUME NEW f, NEW n, NEW lv, Nested(f, lv, n), NEW m \in Nat, m + 1 \in 1..n,
         Step(f[m + 1]) = 0, NEW S, NEW B, Told(f, lv, m, B, S), B # <<>>,
         NEW t, Tells(f[m + 1], Last(B), t)
  PROVE  Told(f, lv, m + 1, Append(Front(B), t), S)
<1>1. lv[m + 1] \in 0..2 /\ lv[m + 2] = lv[m + 1] /\ (m + 1) + 1 = m + 2
  BY LineStands
<1>2. CASE lv[m + 1] = 0
  BY <1>2 DEF Told
<1>3. CASE lv[m + 1] = 1
  <2>1. PICK b : B = <<b>> /\ InOne(f, lv, m, S, b)
    BY <1>3 DEF Told
  <2>2. Last(B) = b /\ Append(Front(B), t) = <<t>>
    BY <2>1, TopOfTwo
  <2>3. InOne(f, lv, m + 1, S, t)
    BY <1>3, <2>1, <2>2, InOneLine
  <2> QED
    BY <1>1, <1>3, <2>2, <2>3 DEF Told
<1>4. CASE lv[m + 1] = 2
  <2>1. PICK b, c : B = <<b, c>> /\ InTwo(f, lv, m, S, b, c)
    BY <1>4 DEF Told
  <2>2. Last(B) = c /\ Append(Front(B), t) = <<b, t>>
    BY <2>1, TopOfTwo
  <2>3. InTwo(f, lv, m + 1, S, b, t)
    BY <1>4, <2>1, <2>2, InTwoLine
  <2> QED
    BY <1>1, <1>4, <2>2, <2>3 DEF Told
<1> QED
  BY <1>1, <1>2, <1>3, <1>4

LEMMA ToldQuiet ==
  ASSUME NEW f, NEW n, NEW lv, Nested(f, lv, n), NEW m \in Nat, m + 1 \in 1..n,
         Step(f[m + 1]) = 0, ~Setting(f[m + 1]), NEW S, NEW B, Told(f, lv, m, B, S)
  PROVE  Told(f, lv, m + 1, B, S)
<1>1. lv[m + 1] \in 0..2 /\ lv[m + 2] = lv[m + 1] /\ (m + 1) + 1 = m + 2 /\ f[m + 1] \in Seq(Word)
  BY LineStands
<1>2. CASE lv[m + 1] = 0
  <2>1. ~Opens(f[m + 1], "server")
    BY <1>1, KindIs
  <2>2. B = <<>> /\ SameServers(f, lv, S, m)
    BY <1>2 DEF Told
  <2>3. SameServers(f, lv, S, m + 1)
    BY <2>1, <2>2, SameNoMore
  <2> QED
    BY <1>1, <1>2, <2>2, <2>3 DEF Told
<1>3. CASE lv[m + 1] # 0
  <2>1. \A b : Tells(f[m + 1], b, b)
    BY DEF Tells
  <2>2. B # <<>> /\ Append(Front(B), Last(B)) = B
    <3>1. (\E b : B = <<b>>) \/ (\E b, c : B = <<b, c>>)
      BY <1>1, <1>3 DEF Told
    <3>2. \A b : <<b>> # <<>> /\ Append(Front(<<b>>), Last(<<b>>)) = <<b>>
      BY TopOfTwo
    <3>3. \A b, c : <<b, c>> # <<>> /\ Append(Front(<<b, c>>), Last(<<b, c>>)) = <<b, c>>
      BY TopOfTwo
    <3> QED
      BY <3>1, <3>2, <3>3
  <2>3. Told(f, lv, m + 1, Append(Front(B), Last(B)), S)
    BY <2>1, <2>2, ToldLine
  <2> QED
    BY <2>2, <2>3
<1> QED
  BY <1>2, <1>3

----------------------------------------------------------------------------
(* Blocks that are opened and closed.                                      *)

AllOver(lv, a, b, l) == \A j \in a..b : lv[j] >= l

LEMMA NoneOpened ==
  ASSUME NEW f, NEW n, NEW lv, Nested(f, lv, n), NEW a \in Nat \ {0}, NEW b \in Nat, b <= n
  PROVE  /\ AllOver(lv, a, b, 1) => NotOpened(f, "server", a, b)
         /\ AllOver(lv, a, b, 2) => NotOpened(f, "location", a, b)
<1>1. ASSUME NEW k \in a..b, NEW l \in {1, 2}, lv[k] >= l
      PROVE  ~Opens(f[k], "server") /\ (l = 2 => ~Opens(f[k], "location"))
  <2>1. PICK m \in Nat : k = m + 1
    <3>1. k - 1 \in Nat /\ k = (k - 1) + 1
      OBVIOUS
    <3> QED
      BY <3>1
  <2>2. m + 1 \in 1..n
    <3>1. n \in Nat
      BY DEF Nested
    <3> QED
      BY <2>1, <3>1
  <2>3. /\ lv[m + 1] \in 0..2
        /\ Opens(f[m + 1], "server") => lv[m + 1] = 0
        /\ Opens(f[m + 1], "location") => lv[m + 1] = 1
    BY <2>2, LineStands
  <2>4. lv[m + 1] >= l
    BY <1>1, <2>1
  <2>5. lv[m + 1] # 0 /\ (l = 2 => lv[m + 1] # 1)
    BY <2>3, <2>4
  <2> QED
    BY <2>1, <2>3, <2>5
<1>2. AllOver(lv, a, b, 1) => NotOpened(f, "server", a, b)
  BY <1>1 DEF AllOver, NotOpened
<1>3. AllOver(lv, a, b, 2) => NotOpened(f, "location", a, b)
  BY <1>1 DEF AllOver, NotOpened
<1> QED
  BY <1>2, <1>3

LEMMA NotSetting ==
  ASSUME NEW line \in Seq(Word), Opens(line, "server") \/ Opens(line, "location") \/ Closes(line)
  PROVE  ~Setting(line)
<1>1. Name(line) \in {"server", "location", RightBrace}
  BY KindIs
<1> QED
  BY <1>1, Punctuation DEF Setting, Directives, Lists, Singles

LEMMA ToldOpenServer ==
  ASSUME NEW f, NEW n, NEW lv, Nested(f, lv, n), NEW m \in Nat, m + 1 \in 1..n,
         Opens(f[m + 1], "server"), NEW S, NEW B, Told(f, lv, m, B, S)
  PROVE  B = <<>> /\ Told(f, lv, m + 1, <<NewBlock>>, S)
<1>1. /\ f \in Seq(Seq(Word)) /\ n = Len(f) /\ n \in Nat /\ lv[m + 1] = 0 /\ lv[m + 2] = 1
      /\ (m + 1) + 1 = m + 2
  BY LineStands
<1>2. B = <<>> /\ SameServers(f, lv, S, m)
  BY <1>1 DEF Told
<1>3. PICK o \in 1..(m + 1) : o = m + 1 /\ o - 1 = m
  OBVIOUS
<1>4. InServer(lv, o, m + 1)
  <2>1. \A j \in (o + 1)..((m + 1) + 1) : j = m + 2
    BY <1>3
  <2>2. 1 >= 1
    OBVIOUS
  <2> QED
    BY <1>1, <1>3, <2>1, <2>2 DEF InServer
<1>5. Own(NewBlock) = Meaning(f, OwnTo(lv, o, m + 1))
  <2>1. OwnTo(lv, o, m + 1) = {}
    BY <1>3 DEF OwnTo
  <2> QED
    BY <1>1, <2>1, MeaningNone
<1>6. SameLocations(f, lv, o, NewBlock.locations, m + 1)
  <2>1. OpenedIn(f, "location", o + 1, m + 1) = {}
    BY <1>3 DEF OpenedIn
  <2>2. InOrder(f, OpenedIn(f, "location", o + 1, m + 1)) = <<>>
    BY <1>1, <2>1, InOrderNone
  <2>3. PICK q : q = <<>> /\ Len(q) = 0 /\ q \in Seq({})
    BY EmptySeq
  <2>4. NewBlock.locations = q /\ \A i \in 1..0 : FALSE
    BY <2>3 DEF NewBlock
  <2> QED
    BY <2>2, <2>3, <2>4 DEF SameLocations
<1>7. SameServers(f, lv, S, o - 1)
  BY <1>2, <1>3
<1>8. Opens(f[o], "server")
  BY <1>3
<1>9. InOne(f, lv, m + 1, S, NewBlock)
  BY <1>4, <1>5, <1>6, <1>7, <1>8, Zenon DEF InOne
<1> QED
  BY <1>1, <1>2, <1>9 DEF Told

\* A location that has what its server has, and a server with one location more.
Copies(line, b, c) == c.uri = Plain(line)[2] /\ Own(c) = Own(b)
Adds(t, b, c)      == Own(t) = Own(b) /\ t.locations = Append(b.locations, c)

LEMMA OneAndOne == \A b, t : Append(<<b>>, t) = <<b, t>>
<1> SUFFICES ASSUME NEW b, NEW t PROVE Append(<<b>>, t) = <<b, t>>
  OBVIOUS
<1>1. PICK r : r = Append(<<b>>, t)
  OBVIOUS
<1>2. PICK s \in Seq({b}) : s = <<b>>
  BY ShortSeqs
<1>3. Len(s) = 1 /\ s[1] = b
  BY <1>2
<1>4. r \in Seq({b} \cup {t}) /\ Len(r) = 2 /\ r[1] = b /\ r[2] = t
  BY <1>1, <1>2, <1>3, OneMore
<1>5. r = [k \in 1..2 |-> r[k]]
  BY <1>4, LenProperties
<1>6. PICK q : q = <<b, t>>
  OBVIOUS
<1>7. q \in Seq({b, t}) /\ Len(q) = 2 /\ q[1] = b /\ q[2] = t
  BY <1>6
<1>8. q = [k \in 1..2 |-> q[k]]
  BY <1>7, LenProperties
<1>9. \A k \in 1..2 : k = 1 \/ k = 2
  OBVIOUS
<1>10. [k \in 1..2 |-> q[k]] = [k \in 1..2 |-> r[k]]
  BY <1>4, <1>7, <1>9
<1> QED
  BY <1>1, <1>5, <1>6, <1>8, <1>10

LEMMA ToldOpenLocation ==
  ASSUME NEW f, NEW n, NEW lv, Nested(f, lv, n), NEW m \in Nat, m + 1 \in 1..n,
         Opens(f[m + 1], "location"), NEW S, NEW B, Told(f, lv, m, B, S), NEW c,
         Copies(f[m + 1], Last(B), c)
  PROVE  Told(f, lv, m + 1, Append(B, c), S)
<1>1. /\ f \in Seq(Seq(Word)) /\ n = Len(f) /\ n \in Nat /\ lv[m + 1] = 1 /\ lv[m + 2] = 2
      /\ f[m + 1] \in Seq(Word) /\ (m + 1) + 1 = m + 2
  BY LineStands
<1>2. PICK b : B = <<b>> /\ InOne(f, lv, m, S, b)
  BY <1>1 DEF Told
<1>3. Own(c) = Own(b) /\ c.uri = Plain(f[m + 1])[2]
  BY <1>2, TopOfTwo DEF Copies
<1>4. PICK o \in 1..m :
        /\ InServer(lv, o, m) /\ Opens(f[o], "server") /\ SameServers(f, lv, S, o - 1)
        /\ Own(b) = Meaning(f, OwnTo(lv, o, m)) /\ SameLocations(f, lv, o, b.locations, m)
  BY <1>2, Zenon DEF InOne
<1>5. PICK p \in 1..(m + 1) : p = m + 1 /\ p - 1 = m
  OBVIOUS
<1>6. o \in 1..(m + 1) /\ o \in Nat /\ p \in Nat /\ o < p /\ o <= m
  BY <1>5
<1>7. InServer(lv, o, m + 1)
  <2>1. lv[m + 2] >= 1
    BY <1>1
  <2> QED
    BY <1>4, <2>1, ServerStays
<1>8. InLocation(lv, p, m + 1)
  <2>1. \A j \in (p + 1)..((m + 1) + 1) : j = m + 2
    BY <1>5
  <2> QED
    BY <1>1, <1>5, <2>1 DEF InLocation
<1>9. Own(b) = Meaning(f, OwnTo(lv, o, p))
  <2>1. PICK ls : ls = OwnTo(lv, o, m)
    OBVIOUS
  <2>2. OwnTo(lv, o, m + 1) = ls \cup {m + 1}
    <3>1. OwnTo(lv, o, m + 1) = IF lv[m + 1] = 1 THEN OwnTo(lv, o, m) \cup {m + 1} ELSE OwnTo(lv, o, m)
      BY <1>6, OwnOneMore, Zenon
    <3>2. lv[m + 1] = 1
      BY <1>1, Zenon
    <3> QED
      BY <2>1, <3>1, <3>2, Zenon
  <2>3. Below(ls, m + 1)
    BY <1>6, <2>1, AllBelow
  <2>4. Meaning(f, ls \cup {m + 1}) = Meaning(f, ls)
    <3>1. ~Setting(f[m + 1])
      BY <1>1, NotSetting
    <3> QED
      BY <1>1, <2>3, <3>1, MeaningLine
  <2> QED
    BY <1>4, <1>5, <2>1, <2>2, <2>4
<1>10. Own(c) = Meaning(f, InTo(lv, o, p, m + 1))
  <2>1. InTo(lv, o, p, p) = OwnTo(lv, o, p - 1)
    BY <1>6, InStarts
  <2> QED
    BY <1>3, <1>4, <1>5, <2>1
<1>11. SameLocations(f, lv, o, b.locations, p - 1) /\ Opens(f[p], "location") /\ c.uri = Plain(f[p])[2]
  BY <1>3, <1>4, <1>5
<1>12. InTwo(f, lv, m + 1, S, b, c)
  BY <1>4, <1>6, <1>7, <1>8, <1>9, <1>10, <1>11, Zenon DEF InTwo
<1>13. Told(f, lv, m + 1, <<b, c>>, S)
  BY <1>1, <1>12 DEF Told
<1> QED
  BY <1>2, <1>13, OneAndOne

LEMMA ToldCloseLocation ==
  ASSUME NEW f, NEW n, NEW lv, Nested(f, lv, n), NEW m \in Nat, m + 1 \in 1..n,
         Closes(f[m + 1]), lv[m + 1] = 2, NEW S, NEW b, NEW c, InTwo(f, lv, m, S, b, c),
         NEW t, Adds(t, b, c)
  PROVE  Told(f, lv, m + 1, <<t>>, S)
<1>1. /\ f \in Seq(Seq(Word)) /\ n = Len(f) /\ n \in Nat /\ lv[m + 2] = 1
      /\ f[m + 1] \in Seq(Word) /\ (m + 1) + 1 = m + 2
  BY LineStands
<1>2. PICK o \in 1..m, p \in 1..m :
        /\ o < p /\ InServer(lv, o, m) /\ Opens(f[o], "server") /\ SameServers(f, lv, S, o - 1)
        /\ InLocation(lv, p, m) /\ Opens(f[p], "location")
        /\ Own(b) = Meaning(f, OwnTo(lv, o, p)) /\ SameLocations(f, lv, o, b.locations, p - 1)
        /\ c.uri = Plain(f[p])[2] /\ Own(c) = Meaning(f, InTo(lv, o, p, m))
  BY Zenon DEF InTwo
<1>3. /\ o \in 1..(m + 1) /\ o \in Nat /\ p \in Nat /\ p <= m /\ p <= m + 1 /\ m + 1 \in Nat /\ p \in 1..n
      /\ m + 1 \in p..n /\ p + 1 \in Nat \ {0} /\ m + 1 <= n
  BY <1>1
<1>4. \A j \in (p + 1)..(m + 1) : lv[j] = 2
  BY <1>2 DEF InLocation
<1>10. o <= p
  BY <1>2
<1>5. InServer(lv, o, m + 1)
  <2>1. lv[m + 2] >= 1
    BY <1>1
  <2> QED
    BY <1>2, <2>1, ServerStays
<1>6. Own(t) = Meaning(f, OwnTo(lv, o, m + 1))
  <2>1. \A k \in (p + 1)..(m + 1) : lv[k] # 1
    BY <1>4
  <2>2. OwnTo(lv, o, m + 1) = OwnTo(lv, o, p)
    BY <1>3, <1>10, <2>1, OwnNoMore
  <2> QED
    BY <1>2, <2>2 DEF Adds
<1>7. AsLocation(c) = LocationAt(f, lv, o, p)
  <2>1. PICK ls : ls = InTo(lv, o, p, m)
    OBVIOUS
  <2>2. InTo(lv, o, p, m + 1) = ls \cup {m + 1}
    BY <1>3, <2>1, InOneMore
  <2>3. Below(ls, m + 1)
    BY <1>3, <2>1, AllBelow
  <2>4. Meaning(f, ls \cup {m + 1}) = Meaning(f, ls)
    <3>1. ~Setting(f[m + 1])
      BY <1>1, NotSetting
    <3> QED
      BY <1>1, <2>3, <3>1, MeaningLine
  <2>5. LocationLines(lv, o, p) = InTo(lv, o, p, m + 1)
    BY SMTT(30), <1>1, <1>2, LocationCloses
  <2>6. Own(c) = Meaning(f, LocationLines(lv, o, p))
    BY <1>2, <2>1, <2>2, <2>4, <2>5
  <2> QED
    BY <1>2, <2>6 DEF AsLocation, LocationAt
<1>8. NotOpened(f, "location", p + 1, m + 1)
  <2>1. AllOver(lv, p + 1, m + 1, 2)
    <3>1. 2 >= 2
      OBVIOUS
    <3> QED
      BY <1>4, <3>1 DEF AllOver
  <2> QED
    BY <1>3, <2>1, NoneOpened
<1>9. SameLocations(f, lv, o, t.locations, m + 1)
  <2>1. PICK L \in {b.locations}, x \in {m + 1} : L = b.locations /\ x = m + 1
    OBVIOUS
  <2>2. x \in p..n /\ NotOpened(f, "location", p + 1, x) /\ SameLocations(f, lv, o, L, p - 1)
    BY <1>2, <1>3, <1>8, <2>1
  <2>3. SameLocations(f, lv, o, Append(L, c), x)
    BY <1>2, <1>3, <1>7, <2>2, LocationsOneMore
  <2> QED
    BY <2>1, <2>3 DEF Adds
<1>11. InOne(f, lv, m + 1, S, t)
  BY <1>2, <1>3, <1>5, <1>6, <1>9, Zenon DEF InOne
<1> QED
  BY <1>1, <1>11 DEF Told

LocationsAre(f, lv, o, L, q) ==
  [i \in DOMAIN L |-> AsLocation(L[i])] = [i \in DOMAIN q |-> LocationAt(f, lv, o, q[i])]

LEMMA SameMap ==
  ASSUME NEW f, NEW lv, NEW o \in Nat, NEW m, NEW L, SameLocations(f, lv, o, L, m), Len(f) \in Nat,
         NEW q, q = InOrder(f, OpenedIn(f, "location", o + 1, m))
  PROVE  LocationsAre(f, lv, o, L, q)
<1>1. PICK X : L \in Seq(X)
  BY DEF SameLocations
<1>2. Len(L) = Len(q) /\ \A i \in 1..Len(q) : AsLocation(L[i]) = LocationAt(f, lv, o, q[i])
  BY Zenon DEF SameLocations
<1>3. DOMAIN q = 1..Len(q)
  <2>1. q \in Seq(OpenedIn(f, "location", o + 1, m))
    BY InOrderIsSeq
  <2> QED
    BY <2>1, LenProperties
<1>4. DOMAIN L = DOMAIN q
  BY <1>1, <1>2, <1>3, LenProperties
<1> QED
  BY <1>2, <1>3, <1>4 DEF LocationsAre

LEMMA ToldCloseServer ==
  ASSUME NEW f, NEW n, NEW lv, Nested(f, lv, n), NEW m \in Nat, m + 1 \in 1..n,
         Closes(f[m + 1]), lv[m + 1] = 1, NEW S, NEW b, InOne(f, lv, m, S, b)
  PROVE  Told(f, lv, m + 1, <<>>, Append(S, b))
<1>1. /\ f \in Seq(Seq(Word)) /\ n = Len(f) /\ n \in Nat /\ lv[m + 2] = 0
      /\ f[m + 1] \in Seq(Word) /\ (m + 1) + 1 = m + 2
  BY LineStands
<1>2. PICK o \in 1..m :
        /\ InServer(lv, o, m) /\ Opens(f[o], "server") /\ SameServers(f, lv, S, o - 1)
        /\ Own(b) = Meaning(f, OwnTo(lv, o, m)) /\ SameLocations(f, lv, o, b.locations, m)
  BY Zenon DEF InOne
<1>3. /\ o \in Nat /\ o <= m /\ o \in 0..m /\ o \in 1..n /\ m + 1 \in o..n
      /\ o + 1 \in Nat \ {0} /\ m + 1 \in Nat /\ m + 1 <= n
  BY <1>1
<1>10. ServerEnds(f, lv, o, m)
  BY <1>1, <1>2, ServerCloses
<1>4. /\ OwnLines(lv, o) = OwnTo(lv, o, m + 1)
      /\ {k \in Body(lv, o) : Opens(f[k], "location")} = OpenedIn(f, "location", o + 1, m + 1)
  BY <1>10, Zenon DEF ServerEnds
<1>5. Own(b) = Meaning(f, OwnLines(lv, o))
  <2>1. PICK ls : ls = OwnTo(lv, o, m)
    OBVIOUS
  <2>2. OwnTo(lv, o, m + 1) = ls \cup {m + 1}
    BY <1>3, <2>1, OwnOneMore
  <2>3. Below(ls, m + 1)
    BY <1>3, <2>1, AllBelow
  <2>4. Meaning(f, ls \cup {m + 1}) = Meaning(f, ls)
    <3>1. ~Setting(f[m + 1])
      BY <1>1, NotSetting
    <3> QED
      BY <1>1, <2>3, <3>1, MeaningLine
  <2> QED
    BY <1>2, <1>4, <2>1, <2>2, <2>4
<1>6. SameLocations(f, lv, o, b.locations, m + 1)
  <2>1. ~Opens(f[m + 1], "location")
    BY <1>1, KindIs
  <2> QED
    BY <1>2, <1>3, <2>1, SameNoMore
<1>7. Read(b) = ServerAt(f, lv, o)
  <2>1. PICK q : q = InOrder(f, {k \in Body(lv, o) : Opens(f[k], "location")})
    OBVIOUS
  <2>2. q = InOrder(f, OpenedIn(f, "location", o + 1, m + 1))
    BY <1>4, <2>1
  <2>3. Len(f) \in Nat
    BY <1>1
  <2>4. LocationsAre(f, lv, o, b.locations, q)
    BY <1>3, <1>6, <2>2, <2>3, SameMap
  <2>5. Read(b) = [own |-> Own(b), locations |-> [i \in DOMAIN b.locations |-> AsLocation(b.locations[i])]]
    BY DEF Read, AsLocation
  <2>6. ServerAt(f, lv, o) = [own |-> Meaning(f, OwnLines(lv, o)),
                              locations |-> [i \in DOMAIN q |-> LocationAt(f, lv, o, q[i])]]
    BY <2>1 DEF ServerAt
  <2> QED
    BY <1>5, <2>4, <2>5, <2>6 DEF LocationsAre
<1>8. NotOpened(f, "server", o + 1, m + 1)
  <2>1. AllOver(lv, o + 1, m + 1, 1)
    BY <1>2 DEF InServer, AllOver
  <2> QED
    BY <1>3, <2>1, NoneOpened
<1>9. SameServers(f, lv, Append(S, b), m + 1)
  <2>1. PICK x \in {m + 1} : x = m + 1
    OBVIOUS
  <2>2. x \in o..n /\ NotOpened(f, "server", o + 1, x)
    BY <1>3, <1>8, <2>1
  <2>3. SameServers(f, lv, Append(S, b), x)
    BY <1>2, <1>3, <1>7, <2>2, ServersOneMore
  <2> QED
    BY <2>1, <2>3
<1> QED
  BY <1>1, <1>9 DEF Told

----------------------------------------------------------------------------
(* The lines of a well-formed file among its tokens.                       *)

LEMMA LocationUri ==
  ASSUME NEW line \in Seq(Word), Opens(line, "location")
  PROVE  LineTokens(line)[2] = Plain(line)[2]
<1>1. PICK W \in {Words(line)}, n \in {Len(Words(line))}, u \in {LineTokens(line)} :
        W = Words(line) /\ n = Len(W) /\ u = LineTokens(line)
  OBVIOUS
<1>2. LineOf(line, W, n)
  BY <1>1, LineIs
<1>3. n = 3 /\ n \in Nat /\ 2 \in 1..n
  BY <1>1 DEF Opens
<1>4. \A k \in 1..n : ~W[k].semi
  BY <1>2, Zenon DEF LineOf, Opens
<1>5. \A k \in 1..n : Ended(W[k]) = 0
  BY <1>4, EndedIs, Zenon
<1>6. WordsInTokens(u, W, n)
  BY <1>1, <1>3, <1>5, WordsBecomeTokens DEF EndsOnce
<1>7. u[2] = W[2].w
  BY <1>3, <1>6 DEF WordsInTokens
<1>8. Plain(line)[2] = W[2].w
  BY <1>2, <1>3, Zenon DEF LineOf
<1> QED
  BY <1>1, <1>7, <1>8

\* What a line is, by its first token.
ByToken(line, x) ==
  /\ x = "server" => Opens(line, "server")
  /\ x = "location" => Opens(line, "location")
  /\ x = RightBrace => Closes(line)
  /\ x \in Directives \ {"location"} => IsComplete(line)
  /\ Passive(x) => SaysNothing(line)

LEMMA KindByToken ==
  ASSUME NEW line \in Seq(Word), LineWellFormed(line), NEW u, u = LineTokens(line), Len(u) # 0
  PROVE  ByToken(line, u[1])
<1>1. PICK step, W, n : step = Step(line) /\ W = Words(line) /\ n = Len(Words(line))
  OBVIOUS
<1>2. Shaped(u, step) /\ LineOf(line, W, n) /\ Len(u) \in Nat
  <2>1. LineTokens(line) \in Seq(Token)
    BY PiecesAre
  <2> QED
    BY <1>1, <2>1, LineIs, LineIsShaped, LenProperties
<1>3. /\ u[1] = "server" => step = 1
      /\ u[1] = "location" => step = 1
      /\ u[1] = RightBrace => step = -1
      /\ u[1] \in Directives \ {"location"} => step = 0
      /\ Passive(u[1]) => step = 0
  BY <1>2, FirstToken
<1>4. ASSUME NEW what \in {"server", "location"}, Opens(line, what) PROVE u[1] = what
  BY <1>2, <1>4, OpensIs
<1>5. SaysNothing(line) => Passive(u[1])
  <2> SUFFICES ASSUME SaysNothing(line) PROVE Passive(u[1])
    OBVIOUS
  <2>1. PassiveTokens(u) /\ 1 \in 1..Len(u)
    BY <1>2, SaysNothingIs
  <2> QED
    BY <2>1 DEF PassiveTokens
<1>6. IsComplete(line) => u[1] \in Directives \ {"location"}
  <2> SUFFICES ASSUME IsComplete(line) PROVE u[1] \in Directives \ {"location"}
    OBVIOUS
  <2>1. CompleteTokens(u)
    BY <1>2, CompleteIs
  <2> QED
    BY <2>1 DEF CompleteTokens
<1>7. /\ step = 1 => Opens(line, "server") \/ Opens(line, "location")
      /\ step = -1 => Closes(line)
      /\ step = 0 => ~Opens(line, "server") /\ ~Opens(line, "location") /\ ~Closes(line)
  BY <1>1, KindIs
<1>8. "server" # "location" /\ \A x : Passive(x) => x \notin Directives
  BY DEF Passive
<1>9. Opens(line, "server") => u[1] = "server"
  BY <1>4
<1>10. Opens(line, "location") => u[1] = "location"
  BY <1>4
<1> QED
  BY <1>3, <1>5, <1>6, <1>7, <1>8, <1>9, <1>10, Zenon DEF ByToken, LineWellFormed

----------------------------------------------------------------------------
(* Where the iterator is.                                                  *)

\* The tokens of line m + 1 stand where they belong.
LEMMA LineIsAt ==
  ASSUME NEW f, NEW n, NEW lv, Nested(f, lv, n), NEW t, NEW o, PlacesIn(AllTokens(f), t, o),
         NEW m \in Nat, m + 1 \in 1..n
  PROVE  IsLine(t, o[m + 1], o[m + 2], lv[m + 1], lv[m + 2], LineTokens(f[m + 1]), Step(f[m + 1]))
<1>1. /\ f \in Seq(Seq(Word)) /\ n = Len(f) /\ n \in Nat /\ f[m + 1] \in Seq(Word)
      /\ LineWellFormed(f[m + 1])
  BY LineStands
<1>2. PICK e : e = AllTokens(f)
  OBVIOUS
<1>3. Len(e) = n /\ e[m + 1] = LineTokens(f[m + 1])
  BY <1>1, <1>2, TokensAre
<1>4. o[(m + 1) + 1] = o[m + 1] + Len(e[m + 1]) /\ \A j \in 1..Len(e[m + 1]) : t[o[m + 1] + j] = e[m + 1][j]
  BY <1>2, <1>3 DEF PlacesIn
<1>5. (m + 1) + 1 = m + 2
  OBVIOUS
<1>6. lv[m + 2] = lv[m + 1] + Step(f[m + 1])
  BY <1>5 DEF Nested
<1>7. Len(LineTokens(f[m + 1])) \in Nat
  <2>1. LineTokens(f[m + 1]) \in Seq(Token)
    BY <1>1, PiecesAre
  <2> QED
    BY <2>1, LenProperties
<1>8. Shaped(LineTokens(f[m + 1]), Step(f[m + 1]))
  BY <1>1, LineIsShaped
<1> QED
  BY <1>3, <1>4, <1>5, <1>6, <1>7, <1>8 DEF IsLine

\* The lines up to m have been read, and what they say is in B and S.
ReadTo(f, lv, n, t, o, a, B, S, m) ==
  Reading(t, o, lv, n, a, Len(B), m) /\ Told(f, lv, m, B, S)

LEMMA ReadsOn ==
  ASSUME NEW f, NEW n, NEW lv, Nested(f, lv, n), NEW t, NEW o, Laid(t, o, lv, n),
         PlacesIn(AllTokens(f), t, o), NEW a \in Nat \ {0}, NEW B, Len(B) \in Nat, NEW S,
         NEW k, ReadTo(f, lv, n, t, o, a, B, S, k)
  PROVE  \E m \in 0..n :
           /\ ReadTo(f, lv, n, t, o, a, B, S, m)
           /\ \/ a <= o[m + 1] /\ a <= Len(t) /\ Passive(t[a])
              \/ m = n /\ a = Len(t) + 1
              \/ m # n /\ NextLine(t, o, lv, n, a, m, LineTokens(f[m + 1]), Step(f[m + 1]))
<1>1. n \in Nat /\ Len(t) \in Nat
  BY DEF Laid
<1> DEFINE M == {m \in 0..n : ReadTo(f, lv, n, t, o, a, B, S, m)}
<1>2. M \in SUBSET (0..n) /\ M # {}
  <2>1. k \in 0..n
    BY DEF ReadTo, Reading
  <2> QED
    BY <2>1
<1>3. PICK m \in M : m = n \/ m + 1 \notin M
  <2> HIDE DEF M
  <2> QED
    BY <1>1, <1>2, LastOf
<1>4. m \in 0..n /\ ReadTo(f, lv, n, t, o, a, B, S, m)
  BY <1>3
<1>5. Reading(t, o, lv, n, a, Len(B), m) /\ Told(f, lv, m, B, S)
  BY <1>4 DEF ReadTo
<1>6. m # n => o[m + 1] < o[m + 2]
  <2> SUFFICES ASSUME m # n, ~(o[m + 1] < o[m + 2]) PROVE FALSE
    OBVIOUS
  <2>1. m \in Nat /\ m + 1 \in 1..n /\ m + 1 \in 0..n
    BY <1>1, <1>4
  <2>2. Reading(t, o, lv, n, a, Len(B), m + 1) /\ o[m + 2] = o[m + 1]
    BY <1>4, <1>5, EmptyPassed
  <2>3. IsLine(t, o[m + 1], o[m + 2], lv[m + 1], lv[m + 2], LineTokens(f[m + 1]), Step(f[m + 1]))
    BY <2>1, LineIsAt
  <2>4. PICK u, line : u = LineTokens(line) /\ line = f[m + 1]
    OBVIOUS
  <2>5. Shaped(u, Step(line)) /\ Len(u) = 0
    <3>1. o[m + 1] \in Nat
      <4>1. m + 1 \in 1..(n + 1)
        BY <1>1, <2>1
      <4> QED
        BY <4>1 DEF Laid
    <3>2. Len(u) \in Nat /\ o[m + 2] = o[m + 1] + Len(u) /\ Shaped(u, Step(line))
      BY <2>3, <2>4 DEF IsLine
    <3> QED
      BY <2>2, <3>1, <3>2
  <2>6. line \in Seq(Word) /\ LineWellFormed(line)
    BY <2>1, <2>4, LineStands
  <2>7. SaysNothing(line)
    <3>1. ASSUME NEW what \in {"server", "location"}, Opens(line, what) PROVE FALSE
      <4>1. PICK W, c : LineOf(line, W, c)
        BY <2>6, LineIs
      <4>2. c = (IF what = "server" THEN 2 ELSE 3) /\ Len(u) = c
        BY <2>4, <2>6, <3>1, <4>1, OpensIs
      <4> QED
        BY <2>5, <4>2
    <3>2. ~Closes(line)
      <4> SUFFICES ASSUME Closes(line) PROVE FALSE
        OBVIOUS
      <4>1. PICK W, c : LineOf(line, W, c)
        BY <2>6, LineIs
      <4>2. CloseTokens(u)
        BY <2>4, <2>6, <4>1, ClosesIs
      <4> QED
        BY <2>5, <4>2 DEF CloseTokens
    <3>3. ~IsComplete(line)
      <4> SUFFICES ASSUME IsComplete(line) PROVE FALSE
        OBVIOUS
      <4>1. PICK c : c \in Nat \ {0} /\ Len(u) = c + 2
        BY <2>4, <2>6, CompleteHas DEF CompleteWith
      <4> QED
        BY <2>5, <4>1
    <3> QED
      BY <2>6, <3>1, <3>2, <3>3 DEF LineWellFormed
  <2>8. Step(line) = 0 /\ ~Setting(line)
    BY <2>6, <2>7, KindIs DEF Setting
  <2>9. Told(f, lv, m + 1, B, S)
    BY <1>5, <2>1, <2>4, <2>8, ToldQuiet
  <2>10. m + 1 \in M
    BY <2>1, <2>2, <2>9 DEF ReadTo
  <2> QED
    BY <1>3, <2>10
<1>7. o[m + 1] \in Nat /\ a <= o[m + 1] + 1 /\ o[m + 1] <= Len(t) /\ \A j \in a..o[m + 1] : Passive(t[j])
  <2>1. m + 1 \in 1..(n + 1)
    BY <1>1, <1>4
  <2> QED
    BY <1>5, <2>1 DEF Laid, Reading
<1>8. CASE a <= o[m + 1]
  <2>1. a \in a..o[m + 1] /\ a <= Len(t)
    BY <1>1, <1>7, <1>8
  <2> QED
    BY <1>4, <1>7, <1>8, <2>1
<1>9. CASE a = o[m + 1] + 1 /\ m = n
  <2>1. a = Len(t) + 1
    BY <1>9 DEF Laid
  <2> QED
    BY <1>4, <1>9, <2>1
<1>10. CASE a = o[m + 1] + 1 /\ m # n
  <2>1. m \in Nat /\ m + 1 \in 1..n
    BY <1>1, <1>4, <1>10
  <2>2. PICK u, step : u = LineTokens(f[m + 1]) /\ step = Step(f[m + 1])
    OBVIOUS
  <2>3. IsLine(t, o[m + 1], o[m + 2], lv[m + 1], lv[m + 2], u, step)
    BY <2>1, <2>2, LineIsAt
  <2>4. NextLine(t, o, lv, n, a, m, u, step)
    BY <1>4, <1>6, <1>10, <2>3, NextLineIs
  <2> QED
    BY <1>4, <1>10, <2>2, <2>4
<1> QED
  BY <1>7, <1>8, <1>9, <1>10

----------------------------------------------------------------------------
(* A complete directive is read as it is written.                          *)

\* The iterator is on the first token of line u.
OnLine(u) ==
  /\ at + Len(u) <= Len(tokens) + 1 /\ tokens[at] = u[1]
  /\ \A j \in 1..(Len(u) - 1) : tokens[at + j] = u[j + 1]

LEMMA AheadAt ==
  ASSUME TypeInv, Looking, NEW K \in SUBSET ((at + 1)..Len(tokens)), NEW c \in K,
         \A k \in K : c <= k
  PROVE  Ahead(K) = c
<1>1. Ahead(K) \in K /\ \A k \in K : Ahead(K) <= k
  BY AheadIs
<1>2. Ahead(K) <= c /\ c <= Ahead(K) /\ c \in Nat /\ Ahead(K) \in Nat
  <2>1. \A k \in (at + 1)..Len(tokens) : k \in Nat
    BY LookingIs
  <2> QED
    BY <1>1, <2>1
<1> QED
  BY <1>2

ReadsAt(d, m) ==
  /\ d \in Singles => LastRead(d) = at + 1
  /\ d = "return" => LastRead(d) = at + 2
  /\ d = "methods" => LastRead(d) = at + m
  /\ d \in Lists \ {"methods"} => LastRead(d) = (at + m) + 1

LEMMA DirectiveReads ==
  ASSUME TypeInv, Looking, NEW line, NEW u, OnLine(u), NEW d, NEW V, NEW m,
         CompleteWith(line, u, d, V, m)
  PROVE  /\ ReadsAt(d, m) /\ m \in Nat \ {0} /\ DOMAIN V = 1..m /\ at \in Nat
         /\ \A j \in 1..m : tokens[at + j] = V[j]
         /\ at + (m + 1) <= Len(tokens) /\ Len(tokens) \in Nat /\ tokens[at] = d
<1>1. /\ m \in Nat \ {0} /\ Len(u) = m + 2 /\ u[1] = d /\ u[m + 2] = Semicolon
      /\ DOMAIN V = 1..m /\ \A k \in 1..m : u[k + 1] = V[k] /\ V[k] \notin Special
  BY DEF CompleteWith
<1>2. Len(tokens) \in Nat /\ at \in Nat /\ at >= 1 /\ at + (m + 2) <= Len(tokens) + 1
  BY <1>1, LookingIs DEF OnLine
<1>3. \A j \in 1..m : tokens[at + j] = V[j]
  <2>1. \A j \in 1..m : j \in 1..((m + 2) - 1)
    BY <1>1
  <2> QED
    BY <1>1, <2>1 DEF OnLine
<1>4. tokens[(at + m) + 1] = Semicolon
  <2>1. m + 1 \in 1..((m + 2) - 1) /\ (m + 1) + 1 = m + 2 /\ at + (m + 1) = (at + m) + 1
    BY <1>1, <1>2
  <2> QED
    BY <1>1, <2>1 DEF OnLine
<1>5. ASSUME d \in Singles PROVE LastRead(d) = at + 1
  BY <1>5 DEF LastRead, Singles, Lists
<1>6. ASSUME d = "return" PROVE LastRead(d) = at + 2
  BY <1>6 DEF LastRead, Singles, Lists
<1>7. ASSUME d = "methods" PROVE LastRead(d) = at + m
  <2> DEFINE K == {k \in (at + 1)..Len(tokens) : tokens[k] \notin DOMAIN Comma}
  <2>1. LastRead(d) = Ahead(K)
    BY <1>7 DEF LastRead, Singles
  <2>2. \A k \in 1..m : V[k] \in DOMAIN Comma <=> k # m
    BY <1>7 DEF CompleteWith
  <2>3. at + m \in K
    <3>1. at + m \in (at + 1)..Len(tokens) /\ m \in 1..m
      BY <1>1, <1>2
    <3> QED
      BY <1>3, <2>2, <3>1
  <2>4. ASSUME NEW k \in K PROVE at + m <= k
    <3> SUFFICES ASSUME ~(at + m <= k) PROVE FALSE
      OBVIOUS
    <3>1. k - at \in 1..m /\ k - at # m /\ at + (k - at) = k
      BY <1>1, <1>2
    <3>2. tokens[k] \in DOMAIN Comma
      BY <1>3, <2>2, <3>1
    <3> QED
      BY <3>2
  <2>5. K \in SUBSET ((at + 1)..Len(tokens))
    OBVIOUS
  <2> HIDE DEF K
  <2>6. Ahead(K) = at + m
    BY <2>3, <2>4, <2>5, AheadAt
  <2> QED
    BY <2>1, <2>6
<1>8. ASSUME d \in Lists \ {"methods"} PROVE LastRead(d) = (at + m) + 1
  <2> DEFINE K == {k \in (at + 1)..Len(tokens) : tokens[k] = Semicolon}
  <2>1. LastRead(d) = Ahead(K)
    BY <1>8 DEF LastRead, Singles, Lists
  <2>3. (at + m) + 1 \in K
    <3>1. (at + m) + 1 \in (at + 1)..Len(tokens)
      BY <1>1, <1>2
    <3> QED
      BY <1>4, <3>1
  <2>4. ASSUME NEW k \in K PROVE (at + m) + 1 <= k
    <3> SUFFICES ASSUME ~((at + m) + 1 <= k) PROVE FALSE
      OBVIOUS
    <3>1. k - at \in 1..m /\ at + (k - at) = k
      BY <1>1, <1>2
    <3>2. tokens[k] \notin Special
      BY <1>1, <1>3, <3>1
    <3> QED
      BY <3>2 DEF Special
  <2>5. K \in SUBSET ((at + 1)..Len(tokens))
    OBVIOUS
  <2> HIDE DEF K
  <2>6. Ahead(K) = (at + m) + 1
    BY <2>3, <2>4, <2>5, AheadAt
  <2> QED
    BY <2>1, <2>6
<1>9. tokens[at] = d
  BY <1>1 DEF OnLine
<1>10. at + (m + 1) <= Len(tokens)
  BY <1>1, <1>2
<1> QED
  BY <1>1, <1>2, <1>3, <1>5, <1>6, <1>7, <1>8, <1>9, <1>10 DEF ReadsAt

LEMMA ListIsListed ==
  ASSUME TypeInv, Looking, NEW line, NEW u, OnLine(u), NEW d, NEW V, NEW m,
         CompleteWith(line, u, d, V, m), d \in Lists
  PROVE  Values(d) = Listed(line)
<1>1. /\ ReadsAt(d, m) /\ m \in Nat \ {0} /\ DOMAIN V = 1..m /\ at \in Nat
      /\ \A j \in 1..m : tokens[at + j] = V[j]
      /\ at + (m + 1) <= Len(tokens) /\ Len(tokens) \in Nat
  BY DirectiveReads
<1>2. Listed(line) = [k \in 1..m |-> IF V[k] \in DOMAIN Comma THEN Comma[V[k]] ELSE V[k]]
  BY <1>1 DEF Listed, CompleteWith
<1>3. CASE d = "methods"
  <2>1. LastRead(d) - at = m
    <3>1. LastRead(d) = at + m
      BY <1>1, <1>3 DEF ReadsAt
    <3> QED
      BY <1>1, <3>1
  <2>2. Values(d) = [k \in 1..m |-> IF tokens[at + k] \in DOMAIN Comma THEN Comma[tokens[at + k]] ELSE tokens[at + k]]
    BY <1>3, <2>1 DEF Values
  <2> QED
    BY <1>1, <1>2, <2>2
<1>4. CASE d # "methods"
  <2>1. LastRead(d) - 1 = at + m
    <3>1. LastRead(d) = (at + m) + 1
      BY <1>1, <1>4 DEF ReadsAt
    <3> QED
      BY <1>1, <3>1
  <2>2. Values(d) = SubSeq(tokens, at + 1, at + m)
    BY <1>4, <2>1 DEF Values
  <2>3. PICK a \in Nat, b \in Nat, s \in {Values(d)} : a = at + 1 /\ b = at + m /\ s = SubSeq(tokens, a, b)
    BY <1>1, <2>2
  <2>4. a <= b /\ b - a + 1 = m /\ (\A k \in 1..m : a + k - 1 = at + k) /\ a..b \subseteq 1..Len(tokens)
    BY <1>1, <2>3
  <2>5. \A k \in a..b : tokens[k] \in Token
    <3>1. tokens \in Seq(Token)
      BY DEF TypeInv
    <3> QED
      BY <2>4, <3>1, ElementOfSeq
  <2>6. s \in Seq(Token) /\ Len(s) = m /\ \A k \in 1..m : s[k] = tokens[at + k]
    <3>1. /\ SubSeq(tokens, a, b) \in Seq(Token)
          /\ Len(SubSeq(tokens, a, b)) = IF a <= b THEN b - a + 1 ELSE 0
          /\ \A k \in 1..(b - a + 1) : SubSeq(tokens, a, b)[k] = tokens[a + k - 1]
      <4>1. a \in Int /\ b \in Int
        BY <2>3
      <4> QED
        BY <2>5, <4>1, SubSeqProperties
    <3> QED
      BY <2>3, <2>4, <3>1
  <2>7. s = [k \in 1..m |-> V[k]]
    <3>1. s = [k \in 1..m |-> s[k]]
      BY <2>6, LenProperties
    <3> QED
      BY <1>1, <2>6, <3>1
  <2>8. \A k \in 1..m : V[k] \notin DOMAIN Comma
    BY <1>4 DEF CompleteWith
  <2> QED
    BY <1>2, <2>3, <2>7, <2>8
<1> QED
  BY <1>3, <1>4

----------------------------------------------------------------------------
(* What a directive makes of a block.                                      *)

\* The directives of a block are functions on their names.
IsOwn(b) == b.lists = [d \in Lists |-> b.lists[d]] /\ b.set = [s \in Settings |-> b.set[s]]

LEMMA MeaningIsOwn ==
  ASSUME NEW b, NEW f, NEW ls, Own(b) = Meaning(f, ls)
  PROVE  IsOwn(b)
<1>1. PICK g, h : b.lists = [d \in Lists |-> g[d]] /\ b.set = [s \in Settings |-> h[s]]
  <2>1. PICK g, h : g = [d \in Lists |-> Gather(f, Said(f, ls, d))]
                    /\ h = [s \in Settings |->
                              IF Said(f, ls, From(s)) = <<>> THEN NewBlock.set[s]
                              ELSE SetTo(f[Last(Said(f, ls, From(s)))], s)]
    OBVIOUS
  <2>2. Own(b) = [lists |-> g, set |-> h]
    BY <2>1, MeaningIs
  <2>3. b.lists = g /\ b.set = h
    BY <2>2 DEF Own
  <2>4. g = [d \in Lists |-> g[d]] /\ h = [s \in Settings |-> h[s]]
    BY <2>1
  <2> QED
    BY <2>3, <2>4
<1> QED
  BY <1>1 DEF IsOwn

\* Settings of one directive are of no other.
LEMMA SettingsAre ==
  /\ \A s \in Settings : From(s) \notin Lists
  /\ \A d \in Singles : d \in Settings /\ (\A s \in Settings : From(s) = d <=> s = d)
                        /\ d # "return" /\ d # "status" /\ d \notin Lists
  /\ \A s \in Settings : From(s) = "return" <=> s \in {"status", "return"}
  /\ "return" \notin Lists
  BY DEF Settings, From, Singles, Lists

LEMMA ListTells ==
  ASSUME NEW line, NEW b, IsBlock(b), IsOwn(b), NEW d, d = Name(line), d \in Lists
  PROVE  Tells(line, b, [b EXCEPT !.lists[d] = b.lists[d] \o Listed(line)])
<1>1. PICK v, t : v = b.lists[d] \o Listed(line) /\ t = [b EXCEPT !.lists[d] = v]
  OBVIOUS
<1>2. /\ t.uri = b.uri /\ t.locations = b.locations /\ t.set = b.set
      /\ t.lists = [b.lists EXCEPT ![d] = v]
  BY <1>1 DEF IsBlock
<1>3. [b.lists EXCEPT ![d] = v] = [x \in Lists |-> IF x = d THEN b.lists[x] \o Listed(line) ELSE b.lists[x]]
  BY <1>1 DEF IsBlock
<1>4. [s \in Settings |-> IF From(s) = d THEN SetTo(line, s) ELSE b.set[s]] = b.set
  BY SettingsAre DEF IsOwn
<1>5. Setting(line)
  BY DEF Setting, Directives, Lists
<1>6. Own(b).lists = b.lists /\ Own(b).set = b.set
  BY DEF Own
<1>7. Own(t) = Also(Own(b), line)
  BY <1>2, <1>3, <1>4, <1>6 DEF Own, Also
<1> QED
  BY <1>1, <1>2, <1>5, <1>7 DEF Tells

LEMMA SetTells ==
  ASSUME NEW line, NEW b, IsBlock(b), IsOwn(b), NEW d, d = Name(line), d \in Singles \cup {"return"},
         NEW h, h = [s \in Settings |-> IF From(s) = d THEN SetTo(line, s) ELSE b.set[s]]
  PROVE  Tells(line, b, [b EXCEPT !.set = h])
<1>1. PICK t : t = [b EXCEPT !.set = h]
  OBVIOUS
<1>2. /\ t.uri = b.uri /\ t.locations = b.locations /\ t.lists = b.lists /\ t.set = h
  BY <1>1 DEF IsBlock
<1>3. [x \in Lists |-> IF x = d THEN b.lists[x] \o Listed(line) ELSE b.lists[x]] = b.lists
  <2>1. d \notin Lists
    BY SettingsAre
  <2> QED
    BY <2>1 DEF IsOwn
<1>5. Setting(line)
  BY SettingsAre DEF Setting, Directives, Singles
<1>6. Own(b).lists = b.lists /\ Own(b).set = b.set
  BY DEF Own
<1>7. Own(t) = Also(Own(b), line)
  BY <1>2, <1>3, <1>6 DEF Own, Also
<1> QED
  BY <1>1, <1>2, <1>5, <1>7 DEF Tells

LEMMA AssignTells ==
  ASSUME TypeInv, Looking, NEW line, NEW u, OnLine(u), NEW d, NEW V, NEW m,
         CompleteWith(line, u, d, V, m), NEW b, IsBlock(b), IsOwn(b)
  PROVE  Tells(line, b, Assign(b, d)) /\ ~BadStatus(d)
<1>1. /\ m \in Nat \ {0} /\ \A j \in 1..m : tokens[at + j] = V[j]
  BY DirectiveReads
<1>2. /\ d = Name(line) /\ V = ValuesIn(line) /\ d \in Directives \ {"location"}
      /\ d \notin Lists => m = IF d = "return" THEN 2 ELSE 1
      /\ d = "return" => Number(V[1]) # "0"
      /\ d = "autoindex" => V[1] \in {"on", "off"}
  BY DEF CompleteWith
<1>3. tokens[at + 1] = V[1]
  <2>1. 1 \in 1..m
    BY <1>1
  <2> QED
    BY <1>1, <2>1
<1>4. ~BadStatus(d)
  BY <1>2, <1>3 DEF BadStatus
<1>5. CASE d \in Lists
  <2>1. Values(d) = Listed(line)
    BY <1>5, ListIsListed
  <2>2. Assign(b, d) = [b EXCEPT !.lists[d] = b.lists[d] \o Listed(line)]
    BY <1>5, <2>1 DEF Assign
  <2>3. PICK t : t = [b EXCEPT !.lists[d] = b.lists[d] \o Listed(line)]
    OBVIOUS
  <2>4. Tells(line, b, t)
    BY <1>2, <1>5, <2>3, ListTells
  <2> QED
    BY <1>4, <2>2, <2>3, <2>4
<1>6. CASE d = "return"
  <2>1. tokens[at + 2] = V[2]
    <3>1. 2 \in 1..m
      BY <1>2, <1>6, SettingsAre
    <3> QED
      BY <1>1, <3>1
  <2> DEFINE h == [b.set EXCEPT !["status"] = Number(tokens[at + 1]), !["return"] = tokens[at + 2]]
  <2>2. Assign(b, d) = [b EXCEPT !.set = h]
    BY <1>6, SettingsAre DEF Assign
  <2>3. h = [s \in Settings |-> IF From(s) = d THEN SetTo(line, s) ELSE b.set[s]]
    <3>1. DOMAIN b.set = Settings
      BY DEF IsBlock, Settings
    <3>2. SetTo(line, "status") = Number(V[1]) /\ SetTo(line, "return") = V[2]
      BY <1>2 DEF SetTo
    <3>3. h = [s \in Settings |-> IF s = "return" THEN V[2] ELSE IF s = "status" THEN Number(V[1])
                                  ELSE b.set[s]]
      BY <1>3, <2>1, <3>1
    <3> HIDE DEF h
    <3>4. \A s \in Settings : (IF s = "return" THEN V[2] ELSE IF s = "status" THEN Number(V[1])
                               ELSE b.set[s])
                              = IF From(s) = d THEN SetTo(line, s) ELSE b.set[s]
      BY <1>6, <3>2, SettingsAre
    <3> QED
      BY <3>3, <3>4
  <2> HIDE DEF h
  <2>4. d \in Singles \cup {"return"} /\ d = Name(line)
    BY <1>2, <1>6
  <2>5. Tells(line, b, [b EXCEPT !.set = h])
    BY <2>3, <2>4, SetTells
  <2> QED
    BY <1>4, <2>2, <2>5
<1>7. CASE d \in Singles
  <2>0. d \notin Lists /\ d # "return" /\ d # "status" /\ d \in Settings
        /\ \A s \in Settings : From(s) = d <=> s = d
    BY <1>7, SettingsAre
  <2>1. Value(b, d) = SetTo(line, d)
    <3>1. CASE d = "client_max_body_size"
      <4>1. Value(b, d) = Number(V[1])
        BY <1>3, <3>1 DEF Value
      <4> QED
        BY <1>2, <3>1, <4>1 DEF SetTo
    <3>2. CASE d = "autoindex"
      <4>1. Value(b, d) = V[1]
        BY <1>2, <1>3, <3>2 DEF Value
      <4> QED
        BY <1>2, <3>2, <4>1 DEF SetTo
    <3>3. CASE d # "client_max_body_size" /\ d # "autoindex"
      <4>1. Value(b, d) = V[1]
        BY <1>3, <3>3 DEF Value
      <4> QED
        BY <1>2, <2>0, <3>3, <4>1 DEF SetTo
    <3> QED
      BY <3>1, <3>2, <3>3
  <2>2. PICK v : v = SetTo(line, d)
    OBVIOUS
  <2> DEFINE h == [b.set EXCEPT ![d] = v]
  <2>3. Assign(b, d) = [b EXCEPT !.set = h]
    BY <2>0, <2>1, <2>2 DEF Assign
  <2>4. h = [s \in Settings |-> IF From(s) = d THEN SetTo(line, s) ELSE b.set[s]]
    <3>1. DOMAIN b.set = Settings
      BY DEF IsBlock, Settings
    <3>2. h = [s \in Settings |-> IF s = d THEN v ELSE b.set[s]]
      BY <3>1
    <3>3. \A s \in Settings : (IF s = d THEN v ELSE b.set[s])
                              = IF From(s) = d THEN SetTo(line, s) ELSE b.set[s]
      BY <2>0, <2>2
    <3> HIDE DEF h
    <3> QED
      BY <3>2, <3>3
  <2> HIDE DEF h
  <2> QED
    BY <1>2, <1>4, <1>7, <2>3, <2>4, SetTells
<1> QED
  BY <1>2, <1>5, <1>6, <1>7 DEF Directives

----------------------------------------------------------------------------
(* The iterator before a line of a well-formed file.                       *)

LEMMA ToldDepth ==
  ASSUME NEW f, NEW n, NEW lv, Nested(f, lv, n), NEW m \in Nat, m + 1 \in 1..(n + 1),
         NEW S, NEW B, Told(f, lv, m, B, S)
  PROVE  /\ lv[m + 1] \in 0..2 /\ Len(B) = lv[m + 1] /\ Len(B) \in Nat
         /\ lv[m + 1] = 0 <=> B = <<>>
         /\ B # <<>> => IsOwn(Last(B))
<1>1. lv[m + 1] \in 0..2
  BY DEF Nested
<1>2. \A b, c : <<b>> # <<>> /\ Len(<<b>>) = 1 /\ <<b, c>> # <<>> /\ Len(<<b, c>>) = 2
  BY ShortLens
<1>3. CASE lv[m + 1] = 0
  <2>1. B = <<>>
    BY <1>3 DEF Told
  <2>2. Len(B) = 0
    BY <2>1
  <2> QED
    BY <1>3, <2>1, <2>2
<1>4. CASE lv[m + 1] = 1
  <2>1. PICK b : B = <<b>> /\ InOne(f, lv, m, S, b)
    BY <1>4 DEF Told
  <2>2. \E ls : Own(b) = Meaning(f, ls)
    BY <2>1, Zenon DEF InOne
  <2>3. IsOwn(b) /\ Last(B) = b
    BY <2>1, <2>2, MeaningIsOwn, TopOfTwo
  <2> QED
    BY <1>2, <1>4, <2>1, <2>3
<1>5. CASE lv[m + 1] = 2
  <2>1. PICK b, c : B = <<b, c>> /\ InTwo(f, lv, m, S, b, c)
    BY <1>5 DEF Told
  <2>2. \E ls : Own(c) = Meaning(f, ls)
    BY <2>1, Zenon DEF InTwo
  <2>3. IsOwn(c) /\ Last(B) = c
    BY <2>1, <2>2, MeaningIsOwn, TopOfTwo
  <2> QED
    BY <1>2, <1>5, <2>1, <2>3
<1> QED
  BY <1>1, <1>3, <1>4, <1>5

\* The lines of the file end at the places o, its levels are lv; all that the
\* lines read so far say is in blocks and servers.
ReadFrom(o) ==
  /\ Laid(tokens, o, Lv(file), Len(file)) /\ PlacesIn(AllTokens(file), tokens, o)
  /\ \E k : ReadTo(file, Lv(file), Len(file), tokens, o, at, blocks, servers, k)

\* Line m + 1 is next.
ReadBefore(o, m) ==
  /\ Nested(file, Lv(file), Len(file)) /\ m \in Nat /\ m + 1 \in 1..Len(file)
  /\ Laid(tokens, o, Lv(file), Len(file)) /\ PlacesIn(AllTokens(file), tokens, o)
  /\ Told(file, Lv(file), m, blocks, servers)
  /\ NextLine(tokens, o, Lv(file), Len(file), at, m, LineTokens(file[m + 1]), Step(file[m + 1]))

LEMMA LineBefore ==
  ASSUME TypeInv, NEW o, NEW m, ReadBefore(o, m), NEW line, line = file[m + 1],
         NEW u, u = LineTokens(line)
  PROVE  /\ line \in Seq(Word) /\ LineWellFormed(line) /\ Len(u) \in Nat \ {0}
         /\ tokens[at] = u[1] /\ OnLine(u) /\ ByToken(line, u[1])
         /\ at \in Nat \ {0} /\ Len(tokens) \in Nat /\ at < End /\ End = Len(tokens) + 1
<1>1. PICK f \in {file}, lv \in {Lv(file)}, n \in {Len(file)} : f = file /\ lv = Lv(f) /\ n = Len(f)
  OBVIOUS
<1>2. Nested(f, lv, n) /\ m \in Nat /\ m + 1 \in 1..n
  BY <1>1 DEF ReadBefore
<1>3. line \in Seq(Word) /\ LineWellFormed(line)
  BY <1>1, <1>2, LineStands
<1>4. /\ Len(u) \in Nat /\ Len(u) # 0 /\ o[m + 2] = (at + Len(u)) - 1 /\ o[m + 2] <= Len(tokens)
      /\ tokens[at] = u[1] /\ \A j \in 1..(Len(u) - 1) : tokens[at + j] = u[j + 1]
  BY DEF ReadBefore, NextLine
<1>5. at \in Nat \ {0} /\ Len(tokens) \in Nat /\ End = Len(tokens) + 1
  BY BlocksAre
<1>6. at + Len(u) <= Len(tokens) + 1 /\ at < End
  BY <1>4, <1>5
<1>7. OnLine(u)
  BY <1>4, <1>6 DEF OnLine
<1>8. ByToken(line, u[1])
  BY <1>3, <1>4, KindByToken
<1> QED
  BY <1>3, <1>4, <1>5, <1>6, <1>7, <1>8

\* A step past the first token of the line, or the whole line, after which all
\* that the line says is in blocks and servers.
LEMMA TellsOn ==
  ASSUME TypeInv, NEW o, NEW m, ReadBefore(o, m), tokens' = tokens, file' = file,
         at' \in Nat, at' > at, at' <= at + Len(LineTokens(file[m + 1])),
         Told(file, Lv(file), m + 1, blocks', servers')
  PROVE  ReadFrom(o)'
<1>1. PICK t \in {tokens}, f \in {file}, lv \in {Lv(file)}, n \in {Len(file)}, a \in {at}, b \in {at'},
           B \in {blocks'}, S \in {servers'} :
        /\ t = tokens /\ f = file /\ lv = Lv(file) /\ n = Len(file) /\ a = at /\ b = at'
        /\ B = blocks' /\ S = servers'
  OBVIOUS
<1>2. PICK u, step : u = LineTokens(f[m + 1]) /\ step = Step(f[m + 1])
  OBVIOUS
<1>3. a \in Nat \ {0} /\ b \in Nat /\ b > a /\ b <= a + Len(u)
  BY <1>1, <1>2, BlocksAre
<1>4. NextLine(t, o, lv, n, a, m, u, step) /\ Laid(t, o, lv, n) /\ PlacesIn(AllTokens(f), t, o)
  BY <1>1, <1>2 DEF ReadBefore
<1>5. Nested(f, lv, n) /\ m \in Nat /\ m + 1 \in 1..n /\ n \in Nat
  BY <1>1 DEF ReadBefore, Nested
<1>6. Told(f, lv, m + 1, B, S)
  BY <1>1
<1>7. Len(B) <= lv[m + 2]
  <2>1. PICK k \in Nat : k = m + 1 /\ k + 1 = m + 2 /\ k + 1 \in 1..(n + 1)
    BY <1>5
  <2>2. Told(f, lv, k, B, S)
    BY <1>6, <2>1
  <2>3. lv[k + 1] \in 0..2 /\ Len(B) = lv[k + 1]
    BY <1>5, <2>1, <2>2, ToldDepth
  <2> QED
    BY <2>1, <2>3
<1>8. Reading(t, o, lv, n, b, Len(B), m + 1)
  BY <1>3, <1>4, <1>7, Onward
<1>9. ReadTo(f, lv, n, t, o, b, B, S, m + 1)
  BY <1>6, <1>8 DEF ReadTo
<1>10. /\ tokens' = t /\ file' = f /\ Lv(file') = lv /\ Len(file') = n /\ at' = b
       /\ blocks' = B /\ servers' = S
  BY <1>1
<1> QED
  BY <1>4, <1>9, <1>10 DEF ReadFrom

\* Whether a block is open, by the line.
LEMMA InsideIs ==
  ASSUME TypeInv, NEW o, NEW m, ReadBefore(o, m)
  PROVE  /\ Inside <=> Lv(file)[m + 1] # 0
         /\ Inside => Lv(file)[m + 1] >= 1 /\ IsOwn(Top)
         /\ Len(blocks) = Lv(file)[m + 1] /\ Lv(file)[m + 1] \in 0..2
<1>1. PICK f \in {file}, lv \in {Lv(file)}, n \in {Len(file)}, B \in {blocks}, S \in {servers} :
        f = file /\ lv = Lv(f) /\ n = Len(f) /\ B = blocks /\ S = servers
  OBVIOUS
<1>2. Nested(f, lv, n) /\ m \in Nat /\ m + 1 \in 1..n /\ n \in Nat /\ Told(f, lv, m, B, S)
  BY <1>1 DEF ReadBefore, Nested
<1>3. m + 1 \in 1..(n + 1)
  BY <1>2
<1>4. /\ lv[m + 1] \in 0..2 /\ Len(B) = lv[m + 1]
      /\ lv[m + 1] = 0 <=> B = <<>>
      /\ B # <<>> => IsOwn(Last(B))
  BY <1>2, <1>3, ToldDepth
<1> QED
  BY <1>1, <1>4 DEF Inside, Top

LEMMA SkipTells ==
  ASSUME TypeInv, NEW o, NEW m, ReadBefore(o, m), Skip
  PROVE  state' = "parse" /\ ReadFrom(o)'
<1>1. PICK line \in {file[m + 1]}, u \in {LineTokens(file[m + 1])} : line = file[m + 1] /\ u = LineTokens(line)
  OBVIOUS
<1>2. /\ line \in Seq(Word) /\ Len(u) \in Nat \ {0} /\ tokens[at] = u[1] /\ ByToken(line, u[1])
      /\ at \in Nat \ {0}
  BY <1>1, LineBefore
<1>3. /\ state' = "parse" /\ at' = at + 1 /\ file' = file /\ tokens' = tokens
      /\ blocks' = blocks /\ servers' = servers
      /\ u[1] \notin (IF Inside THEN Directives \cup {RightBrace} ELSE {"server"})
  BY <1>2 DEF Skip, Looking
<1>4. PICK f \in {file}, lv \in {Lv(file)}, n \in {Len(file)}, B \in {blocks}, S \in {servers} :
        f = file /\ lv = Lv(file) /\ n = Len(file) /\ B = blocks /\ S = servers
  OBVIOUS
<1>5. Nested(f, lv, n) /\ m \in Nat /\ m + 1 \in 1..n /\ Told(f, lv, m, B, S) /\ line = f[m + 1]
  BY <1>1, <1>4 DEF ReadBefore
<1>6. Inside <=> lv[m + 1] # 0
  BY <1>4, InsideIs
<1>7. /\ Opens(line, "server") => lv[m + 1] = 0
      /\ Opens(line, "location") => lv[m + 1] = 1
      /\ Closes(line) \/ IsComplete(line) => lv[m + 1] >= 1
      /\ lv[m + 1] \in 0..2
  BY <1>5, LineStands
<1>8. SaysNothing(line)
  <2>1. u[1] # "server"
    BY <1>2, <1>3, <1>6, <1>7 DEF ByToken
  <2>2. u[1] # "location"
    BY <1>2, <1>3, <1>6, <1>7 DEF ByToken, Directives
  <2>3. u[1] # RightBrace
    <3> SUFFICES ASSUME u[1] = RightBrace PROVE FALSE
      OBVIOUS
    <3>1. lv[m + 1] # 0
      BY <1>2, <1>7 DEF ByToken
    <3> QED
      BY <1>3, <1>6, <3>1
  <2>4. u[1] \notin Directives \ {"location"}
    <3> SUFFICES ASSUME u[1] \in Directives \ {"location"} PROVE FALSE
      OBVIOUS
    <3>1. lv[m + 1] # 0
      BY <1>2, <1>7 DEF ByToken
    <3> QED
      BY <1>3, <1>6, <3>1
  <2>5. Passive(u[1])
    BY <2>1, <2>2, <2>3, <2>4 DEF Passive
  <2> QED
    BY <1>2, <2>5 DEF ByToken
<1>9. Step(line) = 0 /\ ~Setting(line)
  BY <1>2, <1>8, KindIs DEF Setting
<1>10. Told(f, lv, m + 1, B, S)
  BY <1>5, <1>9, ToldQuiet
<1>11. at' \in Nat /\ at' > at /\ at' <= at + Len(u)
  BY <1>2, <1>3
<1>12. Told(file, Lv(file), m + 1, blocks', servers')
  BY <1>3, <1>4, <1>10
<1>13. ReadFrom(o)'
  BY <1>1, <1>3, <1>11, <1>12, TellsOn
<1> QED
  BY <1>3, <1>13

LEMMA OpenServerTells ==
  ASSUME TypeInv, NEW o, NEW m, ReadBefore(o, m), OpenServer
  PROVE  state' = "parse" /\ ReadFrom(o)'
<1>1. PICK line \in {file[m + 1]}, u \in {LineTokens(file[m + 1])} : line = file[m + 1] /\ u = LineTokens(line)
  OBVIOUS
<1>2. /\ line \in Seq(Word) /\ LineWellFormed(line) /\ Len(u) \in Nat \ {0} /\ tokens[at] = u[1]
      /\ OnLine(u) /\ ByToken(line, u[1]) /\ at \in Nat \ {0} /\ Len(tokens) \in Nat /\ End = Len(tokens) + 1
  BY <1>1, LineBefore
<1>3. Looking /\ tokens[at] = "server"
  BY DEF OpenServer
<1>4. Opens(line, "server")
  BY <1>2, <1>3 DEF ByToken
<1>5. Len(u) = 2 /\ u[2] = LeftBrace
  <2>1. Shaped(u, Step(line))
    BY <1>1, <1>2, LineIsShaped
  <2>2. ServerTokens(u)
    <3>1. PICK step : step = Step(line)
      OBVIOUS
    <3> QED
      BY <1>2, <1>3, <2>1, <3>1, FirstToken
  <2> QED
    BY <2>2 DEF ServerTokens
<1>6. at + 1 # End /\ tokens[at + 1] = LeftBrace
  <2>1. at + 2 <= Len(tokens) + 1 /\ 1 \in 1..(2 - 1)
    BY <1>2, <1>5 DEF OnLine
  <2>2. tokens[at + 1] = u[1 + 1]
    BY <1>2, <1>5, <2>1 DEF OnLine
  <2> QED
    BY <1>2, <1>5, <2>1, <2>2
<1>7. /\ blocks' = <<NewBlock>> /\ at' = at + 2 /\ state' = state
      /\ file' = file /\ tokens' = tokens /\ servers' = servers
  BY <1>6 DEF OpenServer
<1>8. PICK f \in {file}, lv \in {Lv(file)}, n \in {Len(file)}, B \in {blocks}, S \in {servers} :
        f = file /\ lv = Lv(file) /\ n = Len(file) /\ B = blocks /\ S = servers
  OBVIOUS
<1>9. Nested(f, lv, n) /\ m \in Nat /\ m + 1 \in 1..n /\ Told(f, lv, m, B, S) /\ line = f[m + 1]
  BY <1>1, <1>8 DEF ReadBefore
<1>10. Told(f, lv, m + 1, <<NewBlock>>, S)
  BY <1>4, <1>9, ToldOpenServer
<1>11. at' \in Nat /\ at' > at /\ at' <= at + Len(u)
  BY <1>2, <1>5, <1>7
<1>12. Told(file, Lv(file), m + 1, blocks', servers')
  BY <1>7, <1>8, <1>10
<1>13. ReadFrom(o)'
  BY <1>1, <1>7, <1>11, <1>12, TellsOn
<1> QED
  BY <1>3, <1>7, <1>13 DEF Looking

LEMMA OpenLocationTells ==
  ASSUME TypeInv, NEW o, NEW m, ReadBefore(o, m), OpenLocation
  PROVE  state' = "parse" /\ ReadFrom(o)'
<1>1. PICK line \in {file[m + 1]}, u \in {LineTokens(file[m + 1])} : line = file[m + 1] /\ u = LineTokens(line)
  OBVIOUS
<1>2. /\ line \in Seq(Word) /\ LineWellFormed(line) /\ Len(u) \in Nat \ {0} /\ tokens[at] = u[1]
      /\ OnLine(u) /\ ByToken(line, u[1]) /\ at \in Nat \ {0} /\ Len(tokens) \in Nat /\ End = Len(tokens) + 1
  BY <1>1, LineBefore
<1>3. Looking /\ tokens[at] = "location" /\ blocks # <<>>
  BY DEF OpenLocation, Inside
<1>4. Opens(line, "location")
  BY <1>2, <1>3 DEF ByToken
<1>5. Len(u) = 3 /\ u[3] = LeftBrace
  <2>1. Shaped(u, Step(line))
    BY <1>1, <1>2, LineIsShaped
  <2>2. LocationTokens(u)
    <3>1. PICK step : step = Step(line)
      OBVIOUS
    <3> QED
      BY <1>2, <1>3, <2>1, <3>1, FirstToken
  <2> QED
    BY <2>2 DEF LocationTokens
<1>6. at + 2 < End /\ tokens[at + 2] = LeftBrace /\ tokens[at + 1] = Plain(line)[2]
  <2>1. at + 3 <= Len(tokens) + 1 /\ 1 \in 1..(3 - 1) /\ 2 \in 1..(3 - 1)
    BY <1>2, <1>5 DEF OnLine
  <2>2. tokens[at + 1] = u[1 + 1] /\ tokens[at + 2] = u[2 + 1]
    BY <1>2, <1>5, <2>1 DEF OnLine
  <2>3. u[2] = Plain(line)[2]
    BY <1>1, <1>2, <1>4, LocationUri
  <2>4. at + 2 < Len(tokens) + 1
    BY <1>2, <2>1
  <2> QED
    BY <1>2, <1>5, <2>2, <2>3, <2>4
<1>7. /\ blocks' = Append(blocks, NewLocation(tokens[at + 1])) /\ at' = at + 3 /\ state' = state
      /\ file' = file /\ tokens' = tokens /\ servers' = servers
  BY <1>2, <1>6 DEF OpenLocation
<1>8. PICK f \in {file}, lv \in {Lv(file)}, n \in {Len(file)}, B \in {blocks}, S \in {servers},
           c \in {NewLocation(tokens[at + 1])} :
        /\ f = file /\ lv = Lv(file) /\ n = Len(file) /\ B = blocks /\ S = servers
        /\ c = NewLocation(tokens[at + 1])
  OBVIOUS
<1>9. Nested(f, lv, n) /\ m \in Nat /\ m + 1 \in 1..n /\ Told(f, lv, m, B, S) /\ line = f[m + 1]
  BY <1>1, <1>8 DEF ReadBefore
<1>10. Copies(line, Last(B), c)
  <2>1. PICK b : b = Last(B)
    OBVIOUS
  <2>2. IsBlock(b)
    <3>1. PICK X : blocks \in Seq(X) /\ \A x \in X : IsBlock(x)
      BY DEF TypeInv
    <3> QED
      BY <1>3, <1>8, <2>1, <3>1, LastExchanged
  <2>3. c = [b EXCEPT !.uri = Plain(line)[2]]
    BY <1>6, <1>8, <2>1 DEF NewLocation, Top
  <2>4. c.uri = Plain(line)[2] /\ c.lists = b.lists /\ c.set = b.set
    BY <2>2, <2>3 DEF IsBlock
  <2> QED
    BY <2>1, <2>4 DEF Copies, Own
<1>11. Told(f, lv, m + 1, Append(B, c), S)
  <2>1. Opens(f[m + 1], "location") /\ Copies(f[m + 1], Last(B), c)
    BY <1>4, <1>9, <1>10
  <2> QED
    BY <1>9, <2>1, ToldOpenLocation
<1>12. blocks' = Append(B, c)
  BY <1>7, <1>8
<1>13. at' \in Nat /\ at' > at /\ at' <= at + Len(u)
  BY <1>2, <1>5, <1>7
<1>14. Told(file, Lv(file), m + 1, blocks', servers')
  BY <1>7, <1>8, <1>11, <1>12
<1>15. ReadFrom(o)'
  BY <1>1, <1>7, <1>13, <1>14, TellsOn
<1> QED
  BY <1>3, <1>7, <1>15 DEF Looking

\* A location is put into its server.
LEMMA OneLess ==
  ASSUME NEW b, IsBlock(b), NEW c,
         NEW t, t = [b EXCEPT !.locations = Append(b.locations, c)]
  PROVE  [Front(<<b, c>>) EXCEPT ![1].locations = Append(@, c)] = <<t>> /\ Adds(t, b, c)
<1>1. Append(Front(<<b, c>>), c) = <<b, c>>
  BY TopOfTwo
<1>2. Front(<<b, c>>) = SubSeq(<<b, c>>, 1, 1)
  <2>1. Len(<<b, c>>) = 2
    BY ShortLens
  <2>2. Front(<<b, c>>) = SubSeq(<<b, c>>, 1, 2 - 1)
    BY <2>1 DEF Front
  <2> QED
    BY <2>2
<1>3. PICK r : r = Front(<<b, c>>)
  OBVIOUS
<1>4. r \in [1..1 -> {b}] /\ r[1] = b
  <2>1. PICK X : b \in X /\ c \in X
    <3>1. b \in {b, c} /\ c \in {b, c}
      OBVIOUS
    <3> QED
      BY <3>1
  <2>2. PICK s \in Seq(X) : s = <<b, c>>
    BY <2>1, ShortSeqs
  <2>3. s # <<>> /\ Len(s) = 2 /\ s[1] = b
    BY <2>2, ShortLens
  <2>4. /\ SubSeq(s, 1, 1) \in Seq(X) /\ Len(SubSeq(s, 1, 1)) = 1 /\ SubSeq(s, 1, 1)[1] = s[1]
    <3>1. \A k \in 1..1 : s[k] \in X
      BY <2>1, <2>3
    <3>2. 1 \in Int /\ (IF 1 <= 1 THEN 1 - 1 + 1 ELSE 0) = 1 /\ 1 \in 1..(1 - 1 + 1) /\ 1 + 1 - 1 = 1
      OBVIOUS
    <3>3. /\ SubSeq(s, 1, 1) \in Seq(X)
          /\ Len(SubSeq(s, 1, 1)) = IF 1 <= 1 THEN 1 - 1 + 1 ELSE 0
          /\ \A k \in 1..(1 - 1 + 1) : SubSeq(s, 1, 1)[k] = s[1 + k - 1]
      BY <3>1, <3>2, SubSeqProperties
    <3> QED
      BY <3>2, <3>3
  <2>5. r = SubSeq(s, 1, 1)
    BY <1>2, <1>3, <2>2
  <2>6. r \in Seq(X) /\ Len(r) = 1 /\ r[1] = b
    BY <2>3, <2>4, <2>5
  <2>7. r \in [1..1 -> X]
    BY <2>6, LenProperties
  <2>8. \A k \in 1..1 : k = 1
    OBVIOUS
  <2> QED
    BY <2>6, <2>7, <2>8
<1>5. PICK q : q = [r EXCEPT ![1] = t]
  OBVIOUS
<1>6. q = <<t>>
  <2>1. q = [k \in 1..1 |-> t]
    <3>1. \A k \in 1..1 : k = 1
      OBVIOUS
    <3> QED
      BY <1>4, <1>5, <3>1
  <2>2. q \in [1..1 -> {t}]
    BY <2>1
  <2>3. q \in Seq({t}) /\ Len(q) = 1 /\ q[1] = t
    BY <2>1, <2>2, FcnIsSeq
  <2> QED
    BY <2>3
<1>7. [r EXCEPT ![1].locations = Append(@, c)] = q
  <2>1. 1 \in DOMAIN r
    BY <1>4
  <2> QED
    BY <1>4, <1>5, <2>1
<1>8. Adds(t, b, c)
  <2>1. t.lists = b.lists /\ t.set = b.set /\ t.locations = Append(b.locations, c)
    BY DEF IsBlock
  <2> QED
    BY <2>1 DEF Adds, Own
<1> QED
  BY <1>3, <1>6, <1>7, <1>8

LEMMA CloseTells ==
  ASSUME TypeInv, NEW o, NEW m, ReadBefore(o, m), CloseBlock
  PROVE  state' = "parse" /\ ReadFrom(o)'
<1>1. PICK line \in {file[m + 1]}, u \in {LineTokens(file[m + 1])} : line = file[m + 1] /\ u = LineTokens(line)
  OBVIOUS
<1>2. /\ Len(u) \in Nat \ {0} /\ tokens[at] = u[1] /\ ByToken(line, u[1]) /\ at \in Nat \ {0}
  BY <1>1, LineBefore
<1>3. Looking /\ tokens[at] = RightBrace /\ Inside
  BY DEF CloseBlock
<1>4. Closes(line)
  BY <1>2, <1>3 DEF ByToken
<1>5. at' = at + 1 /\ file' = file /\ state' = state /\ tokens' = tokens
  BY DEF CloseBlock
<1>6. PICK f \in {file}, lv \in {Lv(file)}, n \in {Len(file)}, B \in {blocks}, S \in {servers} :
        f = file /\ lv = Lv(file) /\ n = Len(file) /\ B = blocks /\ S = servers
  OBVIOUS
<1>7. Nested(f, lv, n) /\ m \in Nat /\ m + 1 \in 1..n /\ Told(f, lv, m, B, S) /\ line = f[m + 1]
  BY <1>1, <1>6 DEF ReadBefore
<1>8. Len(B) = lv[m + 1] /\ lv[m + 1] \in 1..2
  BY <1>3, <1>6, InsideIs
<1>9. Told(f, lv, m + 1, blocks', servers')
  <2>1. CASE lv[m + 1] = 1
    <3>1. PICK b : B = <<b>> /\ InOne(f, lv, m, S, b)
      BY <1>7, <2>1 DEF Told
    <3>2. servers' = Append(S, b) /\ blocks' = <<>>
      <4>1. Len(blocks) = 1 /\ Top = b
        BY <1>6, <1>8, <2>1, <3>1, TopOfTwo DEF Top
      <4> QED
        BY <1>6, <4>1 DEF CloseBlock
    <3>3. Told(f, lv, m + 1, <<>>, Append(S, b))
      BY <1>4, <1>7, <2>1, <3>1, ToldCloseServer
    <3> QED
      BY <3>2, <3>3
  <2>2. CASE lv[m + 1] = 2
    <3>1. PICK b, c : B = <<b, c>> /\ InTwo(f, lv, m, S, b, c)
      BY <1>7, <2>2 DEF Told
    <3>2. IsBlock(b)
      <4>1. PICK X : blocks \in Seq(X) /\ \A x \in X : IsBlock(x)
        BY DEF TypeInv
      <4>2. B \in Seq(X) /\ Len(B) = 2 /\ B[1] = b
        BY <1>6, <1>8, <2>2, <3>1, <4>1
      <4>3. B[1] \in X
        <5>1. 1 \in 1..Len(B)
          BY <4>2
        <5> QED
          BY <4>2, <5>1, ElementOfSeq
      <4> QED
        BY <4>1, <4>2, <4>3
    <3>3. PICK t : t = [b EXCEPT !.locations = Append(b.locations, c)]
      OBVIOUS
    <3>4. [Front(<<b, c>>) EXCEPT ![1].locations = Append(@, c)] = <<t>> /\ Adds(t, b, c)
      BY <3>2, <3>3, OneLess
    <3>5. blocks' = <<t>> /\ servers' = S
      <4>1. Len(blocks) = 2 /\ Top = c /\ Front(blocks) = Front(<<b, c>>)
        BY <1>6, <1>8, <2>2, <3>1, TopOfTwo DEF Top
      <4>2. blocks' = [Front(blocks) EXCEPT ![2 - 1].locations = Append(@, Top)] /\ servers' = servers
        BY <4>1 DEF CloseBlock
      <4>3. 2 - 1 = 1
        OBVIOUS
      <4> QED
        BY <1>6, <3>4, <4>1, <4>2, <4>3
    <3>6. Told(f, lv, m + 1, <<t>>, S)
      BY <1>4, <1>7, <2>2, <3>1, <3>4, ToldCloseLocation
    <3> QED
      BY <3>5, <3>6
  <2> QED
    BY <1>8, <2>1, <2>2
<1>10. at' \in Nat /\ at' > at /\ at' <= at + Len(u)
  BY <1>2, <1>5
<1>11. Told(file, Lv(file), m + 1, blocks', servers')
  BY <1>6, <1>9
<1>12. ReadFrom(o)'
  BY <1>1, <1>5, <1>10, <1>11, TellsOn
<1> QED
  BY <1>3, <1>5, <1>12 DEF Looking

LEMMA DirectiveTells ==
  ASSUME TypeInv, NEW o, NEW m, ReadBefore(o, m), Directive
  PROVE  state' = "parse" /\ ReadFrom(o)'
<1>1. PICK line \in {file[m + 1]}, u \in {LineTokens(file[m + 1])} : line = file[m + 1] /\ u = LineTokens(line)
  OBVIOUS
<1>2. /\ line \in Seq(Word) /\ LineWellFormed(line) /\ Len(u) \in Nat \ {0} /\ tokens[at] = u[1]
      /\ OnLine(u) /\ ByToken(line, u[1]) /\ at \in Nat \ {0} /\ Len(tokens) \in Nat /\ End = Len(tokens) + 1
  BY <1>1, LineBefore
<1>3. Looking /\ Inside /\ blocks # <<>>
  BY DEF Directive, Inside
<1>4. PICK d \in Directives \ {"location"} :
        /\ tokens[at] = d
        /\ \/ BadStatus(d)
           \/ LastRead(d) >= End
           \/ /\ blocks' = Append(Front(blocks), Assign(Top, d)) /\ at' = NextLook(d)
              /\ file' = file /\ state' = state /\ tokens' = tokens /\ servers' = servers
  BY DEF Directive
<1>5. IsComplete(line)
  BY <1>2, <1>4 DEF ByToken
<1>6. PICK V \in {ValuesIn(line)} : \E k : CompleteWith(line, u, Name(line), V, k)
  BY <1>1, <1>2, <1>5, CompleteHas
<1>7. PICK k : CompleteWith(line, u, d, V, k)
  <2>1. PICK k : CompleteWith(line, u, Name(line), V, k)
    BY <1>6
  <2>2. Name(line) = d
    BY <1>2, <1>4, <2>1 DEF CompleteWith
  <2> QED
    BY <2>1, <2>2
<1>8. IsBlock(Top) /\ IsOwn(Top)
  <2>1. PICK X : blocks \in Seq(X) /\ \A x \in X : IsBlock(x)
    BY DEF TypeInv
  <2>2. Last(blocks) \in X
    BY <1>3, <2>1, LastExchanged
  <2> QED
    BY <1>3, <2>1, <2>2, InsideIs DEF Top
<1>9. PICK b \in {Top}, t \in {Assign(Top, d)} : b = Top /\ t = Assign(b, d)
  OBVIOUS
<1>10. Tells(line, b, t) /\ ~BadStatus(d)
  BY <1>2, <1>3, <1>7, <1>8, <1>9, AssignTells
<1>11. LastRead(d) < End /\ NextLook(d) <= at + Len(u)
  <2>1. CompleteTokens(u)
    <3>1. Shaped(u, Step(line))
      BY <1>1, <1>2, LineIsShaped
    <3>2. PICK step : step = Step(line)
      OBVIOUS
    <3> QED
      BY <1>2, <1>4, <3>1, <3>2, FirstToken
  <2>2. d = u[1] /\ at + Len(u) <= Len(tokens) + 1 /\ \A j \in 1..(Len(u) - 1) : tokens[at + j] = u[j + 1]
    BY <1>2, <1>4 DEF OnLine
  <2> QED
    BY <1>3, <2>1, <2>2, DirectiveEnds
<1>12. /\ blocks' = Append(Front(blocks), t) /\ at' = NextLook(d)
       /\ file' = file /\ state' = state /\ tokens' = tokens /\ servers' = servers
  <2>1. LastRead(d) \in Nat /\ End \in Nat
    BY <1>2, <1>3, LastReadIs
  <2>2. ~(LastRead(d) >= End)
    BY <1>11, <2>1
  <2> QED
    BY <1>4, <1>9, <1>10, <2>2
<1>13. PICK f \in {file}, lv \in {Lv(file)}, n \in {Len(file)}, B \in {blocks}, S \in {servers} :
         f = file /\ lv = Lv(file) /\ n = Len(file) /\ B = blocks /\ S = servers
  OBVIOUS
<1>14. Nested(f, lv, n) /\ m \in Nat /\ m + 1 \in 1..n /\ Told(f, lv, m, B, S) /\ line = f[m + 1]
  BY <1>1, <1>13 DEF ReadBefore
<1>15. Told(f, lv, m + 1, Append(Front(B), t), S)
  <2>1. Step(f[m + 1]) = 0
    BY <1>2, <1>5, <1>14, KindIs
  <2>2. B # <<>> /\ Tells(f[m + 1], Last(B), t)
    BY <1>3, <1>9, <1>10, <1>13, <1>14 DEF Top
  <2> QED
    BY <1>14, <2>1, <2>2, ToldLine
<1>16. at' \in Nat /\ at' > at /\ at' <= at + Len(u)
  <2>1. NextLook(d) \in 1..(Len(tokens) + 2) /\ NextLook(d) > at
    BY <1>3, <1>11, NextLookIs
  <2> QED
    BY <1>2, <1>11, <1>12, <2>1
<1>17. Told(file, Lv(file), m + 1, blocks', servers')
  BY <1>12, <1>13, <1>15
<1>18. ReadFrom(o)'
  BY <1>1, <1>12, <1>16, <1>17, TellsOn
<1> QED
  BY <1>3, <1>12, <1>18 DEF Looking

----------------------------------------------------------------------------
(* Every step through a well-formed file.                                  *)

\* What holds of blocks and servers, whatever is next.
ReadStays(o) ==
  \/ state' = "parse" /\ ReadFrom(o)'
  \/ state' = "done" /\ Told(file, Lv(file), Len(file), blocks', servers')

LEMMA ReadStep ==
  ASSUME TypeInv, state = "parse", Nested(file, Lv(file), Len(file)), NEW o, ReadFrom(o), Next
  PROVE  ReadStays(o)
<1>1. PICK t \in {tokens}, f \in {file}, lv \in {Lv(file)}, n \in {Len(file)}, a \in {at},
           B \in {blocks}, S \in {servers} :
        /\ t = tokens /\ f = file /\ lv = Lv(file) /\ n = Len(file) /\ a = at
        /\ B = blocks /\ S = servers
  OBVIOUS
<1>2. /\ Laid(t, o, lv, n) /\ PlacesIn(AllTokens(f), t, o) /\ Nested(f, lv, n)
      /\ a \in Nat \ {0} /\ Len(B) \in Nat /\ n \in Nat /\ Len(t) \in Nat
  BY <1>1, BlocksAre DEF ReadFrom, Laid
<1>3. PICK k : ReadTo(f, lv, n, t, o, a, B, S, k)
  BY <1>1 DEF ReadFrom
<1>4. PICK m \in 0..n :
        /\ ReadTo(f, lv, n, t, o, a, B, S, m)
        /\ \/ a <= o[m + 1] /\ a <= Len(t) /\ Passive(t[a])
           \/ m = n /\ a = Len(t) + 1
           \/ m # n /\ NextLine(t, o, lv, n, a, m, LineTokens(f[m + 1]), Step(f[m + 1]))
  BY <1>2, <1>3, ReadsOn
<1>5. Reading(t, o, lv, n, a, Len(B), m) /\ Told(f, lv, m, B, S)
  BY <1>4 DEF ReadTo
<1>6. End = Len(tokens) + 1
  BY BlocksAre
<1>7. CASE a <= o[m + 1] /\ a <= Len(t) /\ Passive(t[a])
  <2>1. Looking
    BY <1>1, <1>2, <1>6, <1>7 DEF Looking
  <2>2. Skip
    BY <1>1, <1>7, <2>1, PassiveStep
  <2>3. /\ at' = a + 1 /\ file' = f /\ state' = "parse" /\ tokens' = t
        /\ blocks' = B /\ servers' = S /\ Lv(file') = lv /\ Len(file') = n
    BY <1>1, <2>2 DEF Skip
  <2>4. o[m + 1] \in Nat
    <3>1. m + 1 \in 1..(n + 1)
      BY <1>2
    <3> QED
      BY <1>2, <3>1 DEF Laid
  <2>5. a + 1 <= o[m + 1] + 1 /\ \A j \in (a + 1)..o[m + 1] : j \in a..o[m + 1]
    BY <1>2, <1>7, <2>4
  <2>6. Reading(t, o, lv, n, a + 1, Len(B), m)
    BY <1>5, <2>5 DEF Reading
  <2>7. ReadTo(f, lv, n, t, o, a + 1, B, S, m)
    BY <1>5, <2>6 DEF ReadTo
  <2>8. ReadFrom(o)'
    BY <1>2, <2>3, <2>7 DEF ReadFrom
  <2> QED
    BY <2>3, <2>8 DEF ReadStays
<1>8. CASE m = n /\ a = Len(t) + 1
  <2>1. ~Looking /\ ~Tokenize
    BY <1>1, <1>2, <1>6, <1>8 DEF Looking, Tokenize
  <2>2. Done \/ Beyond
    BY <2>1 DEF Next, Skip, OpenServer, OpenLocation, CloseBlock, Directive
  <2>3. blocks = <<>>
    <3>1. lv[n + 1] = 0
      BY <1>2 DEF Nested
    <3> QED
      BY <1>1, <1>5, <1>8, <3>1 DEF Told
  <2>4. Done
    BY <2>2, <2>3 DEF Beyond, Inside
  <2>5. state' = "done" /\ blocks' = B /\ servers' = S
    BY <1>1, <2>4 DEF Done, Finish
  <2>6. Told(f, lv, n, B, S)
    BY <1>5, <1>8
  <2> QED
    BY <1>1, <2>5, <2>6 DEF ReadStays
<1>9. CASE m # n /\ NextLine(t, o, lv, n, a, m, LineTokens(f[m + 1]), Step(f[m + 1]))
  <2>1. m \in Nat /\ m + 1 \in 1..n
    BY <1>2, <1>9
  <2>2. ReadBefore(o, m)
    BY <1>1, <1>2, <1>5, <1>9, <2>1 DEF ReadBefore
  <2>3. at < End /\ ~(at >= End)
    <3>1. at < End /\ at \in Nat /\ End \in Nat
      BY <2>2, LineBefore
    <3> QED
      BY <3>1
  <2>4. ~Tokenize /\ ~Done /\ ~Beyond
    BY <2>3 DEF Tokenize, Done, Beyond
  <2>5. Skip \/ OpenServer \/ OpenLocation \/ CloseBlock \/ Directive
    BY <2>4 DEF Next
  <2>6. state' = "parse" /\ ReadFrom(o)'
    BY <2>2, <2>5, SkipTells, OpenServerTells, OpenLocationTells, CloseTells, DirectiveTells
  <2> QED
    BY <2>6 DEF ReadStays
<1> QED
  BY <1>4, <1>7, <1>8, <1>9

\* Before the first line nothing has been told.
LEMMA ToldNothing ==
  ASSUME NEW f, NEW n, NEW lv, Nested(f, lv, n)
  PROVE  Told(f, lv, 0, <<>>, <<>>)
<1>1. lv[1] = 0 /\ n = Len(f) /\ n \in Nat
  BY DEF Nested
<1>2. OpenedIn(f, "server", 1, 0) = {}
  <2>1. 1..0 = {}
    OBVIOUS
  <2> QED
    BY <2>1 DEF OpenedIn
<1>3. InOrder(f, {}) = <<>>
  BY <1>1, InOrderNone
<1>4. SameServers(f, lv, <<>>, 0)
  <2>1. PICK q : q = InOrder(f, OpenedIn(f, "server", 1, 0))
    OBVIOUS
  <2>2. q = <<>>
    BY <1>2, <1>3, <2>1
  <2>3. PICK S \in Seq({}) : S = <<>>
    BY EmptySeq
  <2>4. Len(S) = Len(q) /\ \A i \in 1..Len(q) : Read(S[i]) = ServerAt(f, lv, q[i])
    <3>1. Len(q) = 0 /\ 1..0 = {}
      BY <2>2
    <3> QED
      BY <2>2, <2>3, <3>1
  <2>5. SameServers(f, lv, S, 0)
    BY <2>1, <2>3, <2>4, Zenon DEF SameServers
  <2> QED
    BY <2>3, <2>5
<1>5. 0 + 1 = 1 /\ lv[0 + 1] # 1 /\ lv[0 + 1] # 2
  BY <1>1
<1> QED
  BY <1>1, <1>4, <1>5 DEF Told

\* A well-formed file is never refused or overrun, and while it is read blocks and
\* servers say what its lines have said so far.
WrittenInv ==
  WellFormed(file) =>
    /\ state \in {"tokenize", "parse", "done"}
    /\ state = "tokenize" => servers = <<>>
    /\ state = "parse" => \E o : ReadFrom(o)
    /\ state = "done" => Told(file, Lv(file), Len(file), blocks, servers)

LEMMA TokenizeWritten ==
  ASSUME TypeInv, WrittenInv, Tokenize, WellFormed(file)
  PROVE  state' = "parse" /\ \E o : ReadFrom(o)'
<1>1. PICK f \in {file}, lv \in {Lv(file)}, n \in {Len(file)}, t \in {FlattenSeq(AllTokens(file))} :
        f = file /\ lv = Lv(f) /\ n = Len(f) /\ t = FlattenSeq(AllTokens(f))
  OBVIOUS
<1>2. /\ state = "tokenize" /\ file' = file /\ at' = at /\ at = 1
      /\ blocks' = <<>> /\ servers' = <<>>
  BY DEF Tokenize, TypeInv, WrittenInv
<1>3. f \in Seq(Seq(Word)) /\ Nested(f, lv, n)
  <2>1. f \in Seq(Seq(Word)) /\ WellFormed(f)
    BY <1>1 DEF TypeInv
  <2> QED
    BY <1>1, <2>1, WellFormedIsNested
<1>4. n \in Nat /\ n = Len(f) /\ DOMAIN f = 1..n
      /\ \A k \in 1..n : f[k] \in Seq(Word) /\ LineWellFormed(f[k])
  BY <1>1, <1>3, LenProperties DEF Nested, Stands
<1>5. LevelsOf(f, n, lv)
  <2>1. \A k \in 1..n : Step(f[k]) \in {-1, 0, 1}
    BY <1>4, KindIs
  <2> QED
    BY <1>1, <1>4, <2>1, LvIs, SumsAre
<1>6. ~Unopened(AllWords(f))
  BY <1>3, <1>5, NeverUnopened
<1>7. \A k \in DOMAIN f : ~Unended(f[k])
  BY <1>4, NeverUnended
<1>8. state' = "parse" /\ tokens' = t
  BY <1>1, <1>6, <1>7 DEF Tokenize, AllTokens
<1>9. LinesFine(f)
  BY <1>4 DEF LinesFine
<1>10. PICK o : Laid(t, o, lv, n) /\ PlacesIn(AllTokens(f), t, o) /\ Reading(t, o, lv, n, 1, 0, 0)
  BY <1>1, <1>3, <1>6, <1>9, LinesAreLaid
<1>11. ReadTo(f, lv, n, t, o, 1, <<>>, <<>>, 0)
  <2>1. Len(<<>>) = 0
    OBVIOUS
  <2> QED
    BY <1>3, <1>10, <2>1, ToldNothing DEF ReadTo
<1>12. Lv(file') = lv /\ Len(file') = n /\ file' = f
  BY <1>1, <1>2
<1>13. ReadFrom(o)'
  BY <1>2, <1>8, <1>10, <1>11, <1>12 DEF ReadFrom
<1> QED
  BY <1>8, <1>13

LEMMA NextWritten ==
  ASSUME TypeInv, WrittenInv, [Next]_vars
  PROVE  WrittenInv'
<1>1. CASE UNCHANGED vars
  BY <1>1 DEF vars, WrittenInv, ReadFrom
<1>2. CASE Tokenize
  <2>1. file' = file
    BY <1>2 DEF Tokenize
  <2>2. ASSUME WellFormed(file) PROVE state' = "parse" /\ \E o : ReadFrom(o)'
    BY <1>2, <2>2, TokenizeWritten
  <2> QED
    BY <2>1, <2>2 DEF WrittenInv
<1>3. CASE Next /\ ~Tokenize
  <2>1. state = "parse" /\ file' = file
    BY <1>3 DEF Next, Done, Beyond, Finish, Looking, Skip, OpenServer, OpenLocation,
                CloseBlock, Directive
  <2>2. CASE ~WellFormed(file)
    BY <2>1, <2>2 DEF WrittenInv
  <2>3. CASE WellFormed(file)
    <3>1. PICK o : ReadFrom(o)
      BY <2>1, <2>3 DEF WrittenInv
    <3>2. Nested(file, Lv(file), Len(file))
      BY <2>3, WellFormedIsNested DEF TypeInv
    <3>3. ReadStays(o)
      BY <1>3, <2>1, <3>1, <3>2, ReadStep
    <3>4. state' = "parse" => \E p : ReadFrom(p)'
      <4>1. state' = "parse" => ReadFrom(o)'
        BY <3>3 DEF ReadStays
      <4> QED
        BY <4>1
    <3>5. state' = "done" => Told(file', Lv(file'), Len(file'), blocks', servers')
      BY <2>1, <3>3 DEF ReadStays
    <3>6. state' \in {"parse", "done"}
      BY <3>3 DEF ReadStays
    <3> QED
      BY <3>4, <3>5, <3>6 DEF WrittenInv
  <2> QED
    BY <2>2, <2>3
<1> QED
  BY <1>1, <1>2, <1>3

LEMMA WrittenHolds == Spec => []WrittenInv
<1>1. Init => WrittenInv
  BY DEF Init, WrittenInv
<1> QED
  BY <1>1, TypeInvHolds, NextWritten, PTL DEF Spec

LEMMA WrittenIsRead == TypeInv /\ WrittenInv => ReadAsWritten
<1> SUFFICES ASSUME TypeInv, WrittenInv, state \in {"done", "threw", "beyond"}, WellFormed(file)
             PROVE  state = "done" /\ [n \in DOMAIN servers |-> Read(servers[n])] = Written(file)
  BY DEF ReadAsWritten
<1>1. PICK f \in {file}, lv \in {Lv(file)}, n \in {Len(file)}, S \in {servers} :
        f = file /\ lv = Lv(f) /\ n = Len(f) /\ S = servers
  OBVIOUS
<1>2. state = "done" /\ Told(f, lv, n, blocks, S)
  BY <1>1 DEF WrittenInv
<1>3. Nested(f, lv, n) /\ f \in Seq(Seq(Word))
  <2>1. f \in Seq(Seq(Word)) /\ WellFormed(f)
    BY <1>1 DEF TypeInv
  <2> QED
    BY <1>1, <2>1, WellFormedIsNested
<1>4. SameServers(f, lv, S, n)
  <2>1. lv[n + 1] = 0
    BY <1>3 DEF Nested
  <2> QED
    BY <1>2, <2>1 DEF Told
<1>5. PICK q : q = InOrder(f, OpenedIn(f, "server", 1, n))
  OBVIOUS
<1>6. (\E X : S \in Seq(X)) /\ Len(S) = Len(q) /\ \A i \in 1..Len(q) : Read(S[i]) = ServerAt(f, lv, q[i])
  BY <1>4, <1>5, Zenon DEF SameServers
<1>7. q \in Seq(OpenedIn(f, "server", 1, n)) /\ n = Len(f) /\ n \in Nat
  <2>1. n = Len(f) /\ n \in Nat
    BY <1>3 DEF Nested
  <2> QED
    BY <1>5, <2>1, InOrderIsSeq
<1>8. DOMAIN q = 1..Len(q) /\ DOMAIN S = 1..Len(q) /\ DOMAIN f = 1..n
  BY <1>3, <1>6, <1>7, LenProperties
<1>9. {k \in DOMAIN f : Opens(f[k], "server")} = OpenedIn(f, "server", 1, n)
  BY <1>8 DEF OpenedIn
<1>10. Written(f) = [i \in DOMAIN q |-> ServerAt(f, Levels(f), q[i])]
  BY <1>5, <1>9 DEF Written
<1>11. Levels(f) = lv
  BY <1>1, LevelsAreLv
<1>12. [i \in DOMAIN S |-> Read(S[i])] = [i \in DOMAIN q |-> ServerAt(f, lv, q[i])]
  BY <1>6, <1>8
<1> QED
  BY <1>1, <1>2, <1>10, <1>11, <1>12

\* parseConfig() reads a file with one iterator, which every directive moves on in
\* its own way and past a token unseen; a location copies its server when it opens.
\* For files of any number of lines and servers, whatever their words: one that is
\* well formed is neither refused nor overrun, and g_servers then says what it says,
\* every server and location in its order and with the directives of its own lines.
THEOREM FilesAreReadAsWritten == Spec => []ReadAsWritten
  BY TypeInvHolds, WrittenHolds, WrittenIsRead, PTL
=============================================================================

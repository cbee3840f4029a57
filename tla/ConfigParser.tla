---------------------------- MODULE ConfigParser ----------------------------
(***************************************************************************)
(* Config::parseConfig() of src/src/Config.cpp and the directives of       *)
(* src/src/ServerConfig.cpp: how a configuration file becomes g_servers.   *)
(*                                                                         *)
(* tokenize() cuts the file into words, a ';' at the end of a word into a  *)
(* token of its own; one iterator then walks over the tokens of all        *)
(* blocks.  Nothing compares it with end().                                *)
(*                                                                         *)
(* A file is a sequence of lines, a line a sequence of words [w, semi]:    *)
(* semi says that a ';' ends the word, the word "#" stands for a comment.  *)
(***************************************************************************)
EXTENDS Integers, Sequences, SequencesExt, FiniteSetsExt

CONSTANTS
  Files,    \* the files
  Stoi,     \* the number, as a string, that ft::stoi() makes of some tokens; "0" of others
  Comma     \* the tokens that end in ',', each with what precedes it

Semicolon  == ";"
LeftBrace  == "{"
RightBrace == "}"

Word  == [w : STRING, semi : BOOLEAN]
Token == STRING \cup {Semicolon}   \* a word without its ';', or that ';'

ASSUME ConfigAssumption == Files \subseteq Seq(Seq(Word))

Lists      == {"methods", "index", "server_name"}
Singles    == {"listen", "root", "error", "CGI", "exec", "client_max_body_size", "autoindex"}
Directives == Lists \cup Singles \cup {"return", "location"}   \* ServerConfig::isValidDirective()

\* Config::isValidDirective(): only these are looked for by tokenize().
Checked == {"listen", "location", "root", "methods", "index", "server_name", "client_max_body_size"}

VARIABLES
  file,     \* the file
  state,    \* "tokenize", "parse", or how it ended: "done", "threw" or "beyond"
  tokens,
  at,       \* the iterator, at the next token to be looked at
  blocks,   \* the ServerConfigs being read, the innermost last
  servers   \* those that are complete

vars == <<file, state, tokens, at, blocks, servers>>

\* ServerConfig::ServerConfig(); status_code is set["status"], redir set["return"].
NewBlock ==
  [uri |-> "", locations |-> <<>>, lists |-> [d \in Lists |-> <<>>],
   set |-> [d \in Singles \cup {"status", "return"} |->
              IF d \in {"status", "client_max_body_size"} THEN "0"
              ELSE IF d = "autoindex" THEN "off" ELSE ""]]

Init ==
  /\ file \in Files
  /\ state = "tokenize" /\ tokens = <<>> /\ at = 1 /\ blocks = <<>> /\ servers = <<>>

----------------------------------------------------------------------------
(* tokenize().                                                             *)

Words(line) ==
  LET c == SelectInSeq(line, LAMBDA x : x.w = "#") IN IF c = 0 THEN line ELSE SubSeq(line, 1, c - 1)

Bare(word, w) == word = [w |-> w, semi |-> FALSE]

AllWords(f) == FlattenSeq([k \in DOMAIN f |-> Words(f[k])])

\* How many blocks are open after the first n words.
Depth(words, n) ==
  Cardinality({k \in 1..n : Bare(words[k], LeftBrace)}) - Cardinality({k \in 1..n : Bare(words[k], RightBrace)})

\* A block is closed that is not open.
Unopened(words) == \E n \in DOMAIN words : Depth(words, n) < 0

\* A directive on a line that does not end in ';', comment included.
Unended(line) ==
  /\ \E k \in DOMAIN Words(line) : \E d \in Checked \ {"location"} : Bare(Words(line)[k], d)
  /\ ~Last(line).semi

\* A ';' at the end of a word is a token of its own.
LineTokens(line) ==
  FlattenSeq([k \in DOMAIN Words(line) |->
                LET x == Words(line)[k] IN IF x.semi THEN <<x.w, Semicolon>> ELSE <<x.w>>])

Tokenize ==
  /\ state = "tokenize"
  /\ IF Unopened(AllWords(file)) \/ \E k \in DOMAIN file : Unended(file[k])
       THEN state' = "threw" /\ UNCHANGED tokens
       ELSE /\ state' = "parse"
            /\ tokens' = FlattenSeq([k \in DOMAIN file |-> LineTokens(file[k])])
  /\ UNCHANGED <<file, at, blocks, servers>>

----------------------------------------------------------------------------
(* parseConfig(), initServer(), loopLocation() and getDirective().         *)

End    == Len(tokens) + 1
Inside == blocks # <<>>
Top    == Last(blocks)

Finish(s) == state' = s /\ UNCHANGED <<file, tokens, at, blocks, servers>>

Looking == state = "parse" /\ at < End

\* Mutant: the end is noticed inside of a block.
DoneAnywhere == state = "parse" /\ at >= End /\ Finish("done")

Done == state = "parse" /\ ~Inside /\ at >= End /\ Finish("done")

\* *it at or after end().
Beyond == state = "parse" /\ Inside /\ at >= End /\ Finish("beyond")

\* Mutant: the iterator moves on only after a directive.
SkipNot ==
  /\ Looking /\ tokens[at] \notin (IF Inside THEN Directives \cup {RightBrace} ELSE {"server"})
  /\ at' = IF Inside THEN at ELSE at + 1
  /\ UNCHANGED <<file, state, tokens, blocks, servers>>

\* What is no directive is passed over, inside of a block and outside.
Skip ==
  /\ Looking /\ tokens[at] \notin (IF Inside THEN Directives \cup {RightBrace} ELSE {"server"})
  /\ at' = at + 1
  /\ UNCHANGED <<file, state, tokens, blocks, servers>>

OpenServer ==
  /\ Looking /\ ~Inside /\ tokens[at] = "server"
  /\ \/ at + 1 = End /\ Finish("beyond")
     \/ at + 1 # End /\ tokens[at + 1] # LeftBrace /\ Finish("threw")
     \/ /\ at + 1 # End /\ tokens[at + 1] = LeftBrace
        /\ blocks' = <<NewBlock>> /\ at' = at + 2
        /\ UNCHANGED <<file, state, tokens, servers>>

\* Mutant: a location starts from nothing.
EmptyLocation(uri) == [NewBlock EXCEPT !.uri = uri]

\* parseLocations(): a copy of what its server has so far.
NewLocation(uri) == [Top EXCEPT !.uri = uri]

OpenLocation ==
  /\ Looking /\ Inside /\ tokens[at] = "location"
  /\ \/ at + 2 >= End /\ Finish("beyond")
     \/ at + 2 < End /\ tokens[at + 2] # LeftBrace /\ Finish("threw")
     \/ /\ at + 2 < End /\ tokens[at + 2] = LeftBrace
        /\ blocks' = Append(blocks, NewLocation(tokens[at + 1])) /\ at' = at + 3
        /\ UNCHANGED <<file, state, tokens, servers>>

CloseBlock ==
  /\ Looking /\ Inside /\ tokens[at] = RightBrace
  /\ IF Len(blocks) = 1
       THEN servers' = Append(servers, Top) /\ blocks' = <<>>
       ELSE /\ blocks' = [Front(blocks) EXCEPT ![Len(blocks) - 1].locations = Append(@, Top)]
            /\ UNCHANGED servers
  /\ at' = at + 1
  /\ UNCHANGED <<file, state, tokens>>

\* The first of positions ks, or end().
Ahead(ks) == IF ks = {} THEN End ELSE Min(ks)

\* The last token a directive reads.
LastRead(d) ==
  CASE d \in Singles               -> at + 1
    [] d = "return"                -> at + 2
    [] d = "methods"               -> Ahead({k \in (at + 1)..Len(tokens) : tokens[k] \notin DOMAIN Comma})
    [] d \in Lists \ {"methods"}   -> Ahead({k \in (at + 1)..Len(tokens) : tokens[k] = Semicolon})

\* Mutant: the token after the last one read is always passed over.
NextLookFurther(d) == LastRead(d) + 2

\* Where the loop goes on: most directives leave the iterator on the token after
\* the last one they read, and the loop passes over it unseen.
NextLook(d) == LastRead(d) + (IF d \in {"index", "server_name", "autoindex"} THEN 1 ELSE 2)

Number(token) == IF token \in DOMAIN Stoi THEN Stoi[token] ELSE "0"

\* What a directive with one value makes of it, and one with a list.
Value(b, d) ==
  LET value == tokens[at + 1] IN
  CASE d = "client_max_body_size" -> Number(value)
    [] d = "autoindex" -> IF value \in {"on", "off"} THEN value ELSE b.set[d]
    [] OTHER -> value

Values(d) ==
  IF d = "methods"
    THEN [k \in 1..(LastRead(d) - at) |->
            IF tokens[at + k] \in DOMAIN Comma THEN Comma[tokens[at + k]] ELSE tokens[at + k]]
    ELSE SubSeq(tokens, at + 1, LastRead(d) - 1)

\* Block b after directive d.
Assign(b, d) ==
  IF d \in Lists THEN [b EXCEPT !.lists[d] = @ \o Values(d)]
  ELSE IF d = "return"
    THEN [b EXCEPT !.set = [@ EXCEPT !["status"] = Number(tokens[at + 1]), !["return"] = tokens[at + 2]]]
  ELSE [b EXCEPT !.set[d] = Value(b, d)]

\* parseRedir(): "return" needs a status that is a number.
BadStatus(d) == d = "return" /\ at + 1 < End /\ Number(tokens[at + 1]) = "0"

Directive ==
  /\ Looking /\ Inside
  /\ \E d \in Directives \ {"location"} :
       /\ tokens[at] = d
       /\ \/ BadStatus(d) /\ Finish("threw")
          \/ ~BadStatus(d) /\ LastRead(d) >= End /\ Finish("beyond")
          \/ /\ ~BadStatus(d) /\ LastRead(d) < End
             /\ blocks' = Append(Front(blocks), Assign(Top, d))
             /\ at' = NextLook(d)
             /\ UNCHANGED <<file, state, tokens, servers>>

Next == Tokenize \/ Done \/ Beyond \/ Skip \/ OpenServer \/ OpenLocation \/ CloseBlock \/ Directive

\* One thread reads the file before anything else starts.
Spec == Init /\ [][Next]_vars /\ WF_vars(Next)

----------------------------------------------------------------------------
(* Types.                                                                  *)

\* A block is being read only while the file is; the iterator is at most one
\* token past end(); what is complete has the server's uri "".
TypeOK ==
  /\ state \in {"tokenize", "parse", "done", "threw", "beyond"}
  /\ \A k \in DOMAIN tokens : tokens[k] \in Token
  /\ at \in 1..(End + 1)
  /\ Inside => state # "tokenize" /\ state # "done"
  /\ \A b \in Range(blocks) \cup Range(servers) :
       /\ DOMAIN b.set = Singles \cup {"status", "return"} /\ DOMAIN b.lists = Lists
  /\ \A s \in Range(servers) : s.uri = ""
=============================================================================

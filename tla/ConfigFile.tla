----------------------------- MODULE ConfigFile -----------------------------
(***************************************************************************)
(* What a configuration file says, read by its lines and blocks and not by *)
(* an iterator over tokens, and the properties that compare ConfigParser   *)
(* with it.                                                                *)
(***************************************************************************)
EXTENDS ConfigParser

----------------------------------------------------------------------------
(* Lines.                                                                  *)

Plain(line)  == [k \in DOMAIN Words(line) |-> Words(line)[k].w]
Name(line)   == IF line = <<>> THEN "" ELSE line[1].w
ValuesIn(line) == Tail(Plain(line))

Special == Directives \cup {LeftBrace, RightBrace, Semicolon, "server"}

Opens(line, what) ==
  /\ Name(line) = what
  /\ Len(Words(line)) = (IF what = "server" THEN 2 ELSE 3) /\ Bare(Last(Words(line)), LeftBrace)
  /\ what = "location" => Words(line)[2].w \notin Special
  /\ \A k \in DOMAIN Words(line) : ~Words(line)[k].semi

Closes(line) == Name(line) = RightBrace /\ Len(Words(line)) = 1 /\ ~line[1].semi

\* A directive with all it needs, and a ';' at the end and nowhere else.
IsComplete(line) ==
  /\ Name(line) \in Directives \ {"location"}
  /\ \A k \in DOMAIN Words(line) : Words(line)[k].semi <=> k = Len(Words(line))
  /\ Name(line) \in Checked => Last(line).semi
  /\ Range(ValuesIn(line)) \cap Special = {}
  /\ LET n == Len(ValuesIn(line))
     IN IF Name(line) \in Lists THEN n >= 1 ELSE n = (IF Name(line) = "return" THEN 2 ELSE 1)
  /\ Name(line) = "return" => Number(ValuesIn(line)[1]) # "0"
  /\ Name(line) = "autoindex" => ValuesIn(line)[1] \in {"on", "off"}
  /\ \A k \in DOMAIN ValuesIn(line) :
       ValuesIn(line)[k] \in DOMAIN Comma <=> Name(line) = "methods" /\ k < Len(ValuesIn(line))

\* A blank line, a comment, or a directive nobody knows.
SaysNothing(line) == Range(Plain(line)) \cap Special = {}

----------------------------------------------------------------------------
(* Blocks, in a file f.                                                    *)

Step(line) ==
  IF Opens(line, "server") \/ Opens(line, "location") THEN 1 ELSE IF Closes(line) THEN -1 ELSE 0

\* How many blocks are open before each line, and after the last.
Levels(f) ==
  LET level[k \in 1..(Len(f) + 1)] == IF k = 1 THEN 0 ELSE level[k - 1] + Step(f[k - 1])
  IN level

AllClosed(f) == Last(Levels(f)) = 0

\* Every line is one of these, wherever it stands.
LinesWellFormed(f) ==
  \A l \in Range(f) : \/ Opens(l, "server") \/ Opens(l, "location") \/ Closes(l)
                      \/ IsComplete(l) \/ SaysNothing(l)

\* And it stands where it belongs.
WellFormed(f) ==
  /\ LinesWellFormed(f) /\ AllClosed(f)
  /\ LET level == Levels(f) IN
     \A k \in DOMAIN f :
       /\ Opens(f[k], "server") => level[k] = 0
       /\ Opens(f[k], "location") => level[k] = 1
       /\ Closes(f[k]) \/ IsComplete(f[k]) => level[k] >= 1

\* The lines of the block that line o opens, and those that stand in no block of it.
Body(level, o) == {k \in DOMAIN level : k > o /\ \A j \in (o + 1)..k : level[j] > level[o]}
OwnLines(level, o) == {k \in Body(level, o) : level[k] = level[o] + 1}

\* A location says what is in it, after what its server has said before it.
LocationLines(level, o, p) == {k \in OwnLines(level, o) : k < p} \cup Body(level, p)

\* Lines ls in their order.
InOrder(f, ls) ==
  LET upTo[k \in 0..Len(f)] ==
        IF k = 0 THEN <<>> ELSE IF k \in ls THEN Append(upTo[k - 1], k) ELSE upTo[k - 1]
  IN upTo[Len(f)]

\* The directives d among lines ls.
Said(f, ls, d) == InOrder(f, {k \in ls : Name(f[k]) = d})

Listed(line) ==
  [k \in DOMAIN ValuesIn(line) |->
     IF ValuesIn(line)[k] \in DOMAIN Comma THEN Comma[ValuesIn(line)[k]] ELSE ValuesIn(line)[k]]

\* What the directive on a line gives for s.
SetTo(line, s) ==
  IF s = "return" THEN ValuesIn(line)[2]
  ELSE IF s \in {"status", "client_max_body_size"} THEN Number(ValuesIn(line)[1])
  ELSE ValuesIn(line)[1]

\* Of a directive with one value the last one counts, of a list all.
Meaning(f, ls) ==
  [lists |-> [d \in Lists |->
                LET said == Said(f, ls, d) IN FlattenSeq([n \in DOMAIN said |-> Listed(f[said[n]])])],
   set |-> [s \in DOMAIN NewBlock.set |->
              LET said == Said(f, ls, IF s = "status" THEN "return" ELSE s)
              IN IF said = <<>> THEN NewBlock.set[s] ELSE SetTo(f[Last(said)], s)]]

LocationAt(f, level, o, p) ==
  [uri |-> Plain(f[p])[2], own |-> Meaning(f, LocationLines(level, o, p))]

ServerAt(f, level, o) ==
  LET inside == InOrder(f, {k \in Body(level, o) : Opens(f[k], "location")})
  IN [own |-> Meaning(f, OwnLines(level, o)),
      locations |-> [m \in DOMAIN inside |-> LocationAt(f, level, o, inside[m])]]

Written(f) ==
  LET opened == InOrder(f, {k \in DOMAIN f : Opens(f[k], "server")})
  IN [n \in DOMAIN opened |-> ServerAt(f, Levels(f), opened[n])]

\* g_servers, but for the locations a location copied from its server.
Own(b)  == [lists |-> b.lists, set |-> b.set]
Read(s) == [own |-> Own(s),
            locations |-> [m \in DOMAIN s.locations |->
                             [uri |-> s.locations[m].uri, own |-> Own(s.locations[m])]]]

----------------------------------------------------------------------------
(* Properties.                                                             *)

\* A file of complete lines in well-nested blocks is accepted, and g_servers
\* says what it says: every server and location in its order, a location with
\* what its server has said before it (and nothing said after it).
ReadAsWritten ==
  state \in {"done", "threw", "beyond"} /\ WellFormed(file) =>
    state = "done" /\ [n \in DOMAIN servers |-> Read(servers[n])] = Written(file)

\* tokenize() lets the end of a file with open blocks through, and no parser
\* compares its iterator with end(); the tokens are overrun only then, or after
\* a line that is not complete.
BeyondOnlyIfOpen == state = "beyond" => ~AllClosed(file) \/ ~LinesWellFormed(file)

\* Whatever the file, every token is passed once: reading it ends.
ParserEnds == <>(state \in {"done", "threw", "beyond"})
=============================================================================

---------------------------- MODULE MCConfigFile ----------------------------
(***************************************************************************)
(* ConfigParser on small files: servers of a few lines and locations in    *)
(* every order, and servers of odd lines in every order, left open, closed *)
(* or followed by another one.                                             *)
(***************************************************************************)
EXTENDS ConfigFile, TLC

CONSTANTS MaxParts, MaxOdd   \* bounds: parts of a server, odd lines in it

\* A line that ends in ';', and one that does not.
L(ws) == [k \in DOMAIN ws |-> [w |-> ws[k], semi |-> k = Len(ws)]]
U(ws) == [k \in DOMAIN ws |-> [w |-> ws[k], semi |-> FALSE]]

Server == U(<<"server", "{">>)
Close  == U(<<"}">>)
At(u)  == U(<<"location", u, "{">>)
Hash   == U(<<"#">>)

Sayings == { L(<<"root", "x">>), L(<<"root", "y">>), L(<<"index", "i", "j">>), L(<<"autoindex", "on">>),
           L(<<"methods", "GET,", "POST">>), L(<<"return", "301", "u">>) }

Odd == { Close, Server, At("/"), L(<<"CGI", ".e">>), U(<<"CGI", ".e">>), L(<<"php", "root">>),
         L(<<"auth", "b">>), U(<<"root", "x">>), L(<<"root", "x">>) \o Hash, L(<<"CGI", ".e">>) \o Hash,
         L(<<"root">>), L(<<"}">>), U(<<"autoindex">>), L(<<"return", "u", "u">>),
         L(<<"client_max_body_size", "10M">>), L(<<"server_name", "a">>) }

UpTo(n, pool) == UNION {[1..k -> pool] : k \in 0..n}

\* What stands in a server: a line, or a location with at most one line.
Parts == {<<l>> : l \in Sayings} \cup
         {<<At("/")>> \o b \o <<Close>> : b \in UpTo(1, Sayings \ {L(<<"root", "x">>)})} \cup
         {<<At("/a"), Close>>}

Nested == {<<Server>> \o FlattenSeq(p) \o <<Close>> : p \in UpTo(MaxParts, Parts)}

Second == <<Server, L(<<"listen", "80">>), Close>>

Oddities == {<<Server>> \o b \o e : b \in UpTo(MaxOdd, Odd), e \in {<<>>, <<Close>>, <<Close>> \o Second}}

SomeFiles == Nested \cup Oddities \cup {<<Server>> \o FlattenSeq(p) \o <<Close>> \o Second : p \in UpTo(1, Parts)}

SomeStoi == "301" :> "301" @@ "10M" :> "10"
SomeComma == "GET," :> "GET"
=============================================================================

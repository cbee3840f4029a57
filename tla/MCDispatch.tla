----------------------------- MODULE MCDispatch -----------------------------
(***************************************************************************)
(* Dispatch with the shape of webserv.conf: a port with two named virtual  *)
(* hosts, one that shares a name and one without locations, and a port     *)
(* without names whose number another server spells differently.           *)
(***************************************************************************)
EXTENDS Dispatch, TLC

At(uri, methods, cgi, redirect) ==
  [uri |-> uri, methods |-> methods, cgi |-> cgi, redirect |-> redirect]

Server(listen, names, locations) ==
  [listen |-> listen, names |-> names, locations |-> locations]

SomeServers == <<
  Server("8005", {"def"}, <<At("", {"GET"}, ".bla", 0),
                            At("google", {"GET", "HEAD"}, "none", 302),
                            At("old", {"GET"}, "none", 307)>>),
  Server("8004", {},      <<At("", {"GET", ""}, ".bla", 0)>>),
  Server("8005", {"abc"}, <<At("test", {"GET"}, "none", 0), At("", {"POST"}, "none", 0)>>),
  Server("8005", {"abc", "www"}, <<At("", {"GET"}, "none", 0)>>),
  Server("8005", {"def", "empty"}, <<>>),
  Server("08004", {"x"},  <<At("", {"GET"}, "none", 0)>>) >>

Numbers == [l \in {"8004", "8005", "08004"} |-> IF l = "8005" THEN 8005 ELSE 8004]

Ask(port, method, host, url) == [port |-> port, method |-> method, host |-> host, url |-> url]

Asked == {
  Ask(8005, "GET", "def", <<"a.bla">>),       Ask(8005, "GET", "localhost", <<"a.bla">>),
  Ask(8005, "POST", "abc", <<"">>),           Ask(8005, "GET", "abc", <<"test", "a.bla">>),
  Ask(8005, "HEAD", "def", <<"google">>),     Ask(8005, "GET", "def", <<"google">>),
  Ask(8005, "GET", "def", <<"old", "">>),     Ask(8005, "GET", "www", <<"test">>),
  Ask(8005, "GET", "empty", <<"">>),          Ask(8005, "GET", "abc", <<"x.y", "z">>),
  Ask(8004, "", "x", <<"dir", "a.bla">>),     Ask(8004, "", "def", <<"a">>),
  Ask(8004, "GET", "def", <<"a">>),           Ask(8004, "GET", "", <<"a.bla">>) }

DottedSegments == {"a.bla", "x.y"}
AllSegments    == {"", "google", "old", "test", "dir", "z", "a"} \cup DottedSegments

Uris == {RequestUri(q.url) : q \in Asked} \cup {<<ConfigDir(q.url)>> \o RequestUri(q.url) : q \in Asked}

Exts == [u \in Uris |-> IF \E k \in DOMAIN u : u[k] = "a.bla" THEN {".bla"} ELSE {}]
=============================================================================

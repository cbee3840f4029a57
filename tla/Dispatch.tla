------------------------------ MODULE Dispatch ------------------------------
(***************************************************************************)
(* Which configuration answers a request: main() of src/src/main.cpp       *)
(* starts a Server for each port, and handleRequest() of                   *)
(* src/src/Server.cpp selects a virtual host by the Host header, a         *)
(* location by the first segment of the URL, and what to do there.         *)
(*                                                                         *)
(* A Server copies the configuration it selects into its member            *)
(* serv_config and sets its member isCgi; both outlive the request.  A URL *)
(* is the sequence of its segments.                                        *)
(***************************************************************************)
EXTENDS Integers, Sequences, FiniteSets, FiniteSetsExt

CONSTANTS
  Config,      \* g_servers: [listen, names, locations] for each server
  PortNumber,  \* the number ft::stoi() makes of a listen string
  Requests,    \* what clients send: [port, method, host, url]
  Segments,    \* the segments of URLs
  Dotted,      \* those with a '.'
  Containing,  \* Containing[uri]: the CGI extensions that are part of uri
  MaxRouted    \* bound: how many different routings of a thread are remembered

Servers  == DOMAIN Config
Methods  == {"HEAD", "GET", "POST", "PUT", "DELETE"}
NoMethod == ""   \* methodIntToStr() of a method the server does not know
Root     == ""   \* the segment that the config_dir "/" is

\* What dispatching reads of a ServerConfig; a location is one, too.  redirect is
\* the status of a "return" with a target, or 0.
LocationConfig == [uri : STRING, methods : SUBSET STRING, cgi : STRING, redirect : Nat]
ServerConfig   == [listen : STRING, names : SUBSET STRING, locations : Seq(LocationConfig)]

ASSUME DispatchAssumption ==
  /\ Config \in Seq(ServerConfig)
  /\ \A q \in Requests : q.method \in Methods \cup {NoMethod} /\ q.url \in Seq(Segments) \ {<<>>}
  /\ Root \in Segments \ Dotted

VARIABLES
  status,   \* each thread: "starting", "up" (it listens) or "down"
  chosen,   \* serv_config, as an index of Config
  isCgi,    \* the member isCgi
  running,  \* FALSE: the process died
  routed    \* history: the requests of each thread and what became of them

vars == <<status, chosen, isCgi, running, routed>>

----------------------------------------------------------------------------
(* main(): a thread is named by the server it is started with.             *)

\* Mutant: samePort is not asked.
ThreadsOfAll == Servers

\* One thread for each listen string, started with the first such server.
Threads == {s \in Servers : \A r \in Servers : r < s => Config[r].listen # Config[s].listen}

Init ==
  /\ status = [t \in Threads |-> "starting"]
  /\ chosen = [t \in Threads |-> t]
  /\ isCgi = [t \in Threads |-> FALSE]
  /\ running = TRUE
  /\ routed = [t \in Threads |-> {}]

Number(t) == PortNumber[Config[t].listen]

\* init_Server(): another thread, or another program, may have the port.
Start(t) ==
  /\ running /\ status[t] = "starting"
  /\ \E s \in {"up", "down"} :
       /\ s = "up" => \A u \in Threads : status[u] = "up" => Number(u) # Number(t)
       /\ status' = [status EXCEPT ![t] = s]
  /\ UNCHANGED <<chosen, isCgi, running, routed>>

----------------------------------------------------------------------------
(* checkUri(): the first segment is the config_dir, unless it is a file.   *)

\* Mutant: a '.' is allowed in every segment.
AcceptableDotted(url) == TRUE

IsFile(url)     == Len(url) = 1 /\ Head(url) \in Dotted
Acceptable(url) == Len(url) > 1 => Head(url) \notin Dotted
ConfigDir(url)  == IF IsFile(url) THEN Root ELSE Head(url)
RequestUri(url) == IF IsFile(url) THEN url ELSE Tail(url)

----------------------------------------------------------------------------
(* handleRequest().                                                        *)

Named(listen, host) == {s \in Servers : Config[s].listen = listen /\ host \in Config[s].names}

\* Mutant: no search when serv_config has the name already.
SelectedKeeping(s, q) ==
  LET named == Named(Config[s].listen, q.host)
  IN IF named = {} \/ s \in named THEN s ELSE Min(named)

\* The server that answers q when s is the one in serv_config.
Selected(s, q) ==
  LET named == Named(Config[s].listen, q.host) IN IF named = {} THEN s ELSE Min(named)

Locations(s) == Config[s].locations

Matching(s, q) == {k \in DOMAIN Locations(s) : Locations(s)[k].uri = ConfigDir(q.url)}

\* Server s's location for q: the first one when none has its directory, and
\* the directory is then part of the path again.
Place(s, q) == IF Matching(s, q) = {} THEN 1 ELSE Min(Matching(s, q))
Uri(s, q)   == IF Matching(s, q) = {} THEN <<ConfigDir(q.url)>> \o RequestUri(q.url)
               ELSE RequestUri(q.url)

Location(s, q) == Locations(s)[Place(s, q)]

Allowed(s, q) == q.method \in Location(s, q).methods
OwnCgi(s, q)  == Location(s, q).cgi \in Containing[Uri(s, q)]
Moved(s, q)   == Place(s, q) # 1 /\ Location(s, q).redirect # 0

\* What became of a request, under which configuration, and as a CGI or not.
Route(s, q, what, cgi) ==
  [what |-> what, server |-> s, place |-> Place(s, q), uri |-> Uri(s, q), cgi |-> cgi]

\* Mutant: isCgi is not reset.
ConcludeKeepingCgi(t, q, s, what, cgi) ==
  /\ chosen' = [chosen EXCEPT ![t] = s]
  /\ routed' = [routed EXCEPT ![t] = @ \cup {<<q, Route(s, q, what, cgi)>>}]
  /\ isCgi' = [isCgi EXCEPT ![t] = cgi]
  /\ UNCHANGED <<status, running>>

\* sendResponse() resets isCgi; a request that is not answered leaves it set.
Conclude(t, q, s, what, cgi) ==
  /\ chosen' = [chosen EXCEPT ![t] = s]
  /\ routed' = [routed EXCEPT ![t] = @ \cup {<<q, Route(s, q, what, cgi)>>}]
  /\ isCgi' = [isCgi EXCEPT ![t] = what = "ignored" /\ cgi]
  /\ UNCHANGED <<status, running>>

\* t has read q, whose URL has been accepted.
Serves(t, q) ==
  /\ running /\ status[t] = "up" /\ q.port = Number(t) /\ Acceptable(q.url)
  /\ Cardinality(routed[t]) < MaxRouted

RefuseMethod(t, q, s) ==
  /\ Serves(t, q) /\ Locations(s) # <<>> /\ ~Allowed(s, q)
  /\ Conclude(t, q, s, "405", FALSE)

Redirect(t, q, s) ==
  /\ Serves(t, q) /\ Locations(s) # <<>> /\ Allowed(s, q) /\ Moved(s, q)
  /\ Conclude(t, q, s, IF q.method # "GET" THEN "405"
                    ELSE IF Location(s, q).redirect \in {301, 302} THEN "moved" ELSE "400", FALSE)

\* The switch: a handler answers, or no case fits and q is never answered.
Handle(t, q, s) ==
  /\ Serves(t, q) /\ Locations(s) # <<>> /\ Allowed(s, q) /\ ~Moved(s, q)
  /\ Conclude(t, q, s, IF q.method \in Methods THEN "handled" ELSE "ignored",
              isCgi[t] \/ OwnCgi(s, q))

\* getLocations()[0] of no locations.
Crash(t, q, s) ==
  /\ Serves(t, q) /\ Locations(s) = <<>>
  /\ running' = FALSE
  /\ UNCHANGED <<status, chosen, isCgi, routed>>

HandleRequest(t, q) ==
  \E s \in {Selected(chosen[t], q)} :
    RefuseMethod(t, q, s) \/ Redirect(t, q, s) \/ Handle(t, q, s) \/ Crash(t, q, s)

Next == \E t \in Threads : Start(t) \/ \E q \in Requests : HandleRequest(t, q)

Spec == Init /\ [][Next]_vars

----------------------------------------------------------------------------
(* Properties.                                                             *)

Outcome == [what : {"405", "moved", "400", "handled", "ignored"}, server : Servers,
            place : Nat, uri : Seq(Segments), cgi : BOOLEAN]

\* Types; the config_dir of what is routed is no file, and its place is one that
\* getLocations() of its server has.
TypeOK ==
  /\ status \in [Threads -> {"starting", "up", "down"}]
  /\ chosen \in [Threads -> Servers]
  /\ isCgi \in [Threads -> BOOLEAN]
  /\ running \in BOOLEAN
  /\ routed \in [Threads -> SUBSET (Requests \X Outcome)]
  /\ \A t \in Threads : \A r \in routed[t] :
       ConfigDir(r[1].url) \notin Dotted /\ r[2].place \in DOMAIN Locations(r[2].server)

\* Is there a server of t's port with the name q asks for?
Known(t, q) == Named(Config[t].listen, q.host) # {}

\* The same thing done with the same path of the same server, as a CGI or not.
Alike(x, y) == \A f \in {"what", "server", "place", "uri"} : x[f] = y[f]

\* serv_config outlives the request, but a request that names a server is
\* served the same way whatever the thread has served before, on any
\* connection.  (Whether it runs as a CGI is what CgiOnlyIfOwn is about.)
NamedServedAlike ==
  \A t \in Threads : \A a, b \in routed[t] :
    a[1] = b[1] /\ Known(t, a[1]) => Alike(a[2], b[2])

FirstOnPort(t) == Min({s \in Servers : Config[s].listen = Config[t].listen})

\* A request that names no server of the port gets the first server of the port,
\* or one that an earlier request named: never another port's, and never one of
\* its own port that nobody asked for.
UnnamedServedByLast ==
  \A t \in Threads : \A a \in routed[t] :
    \/ a[2].server = FirstOnPort(t)
    \/ \E b \in routed[t] : Known(t, b[1]) /\ a[2].server = Min(Named(Config[t].listen, b[1].host))

\* isCgi is a member, but a handler runs a request as a CGI only if its path has
\* the extension of its location -- unless the thread has left a request of a
\* method it does not know without an answer.
CgiOnlyIfOwn ==
  \A t \in Threads : \A a \in routed[t] :
    a[2].what = "handled" /\ a[2].cgi =>
      \/ OwnCgi(a[2].server, a[1])
      \/ \E b \in routed[t] : b[2].what = "ignored" /\ OwnCgi(b[2].server, b[1])
=============================================================================

--------------------------- MODULE DispatchProofs ---------------------------
(***************************************************************************)
(* Proofs about Dispatch, for every configuration and every set of         *)
(* requests: which server answers and what runs as a CGI, although         *)
(* serv_config and isCgi outlive each request.                             *)
(***************************************************************************)
EXTENDS Dispatch, TLAPS, FiniteSetTheorems, SequenceTheorems, LibraryLemmas

----------------------------------------------------------------------------
(* The server and the location that are chosen.                            *)

\* The parts of the assumption, one by one.
LEMMA Assumed ==
  /\ Config \in Seq(ServerConfig)
  /\ \A q \in Requests : q.url \in Seq(Segments) \ {<<>>}
  /\ Root \in Segments /\ Root \notin Dotted
BY DispatchAssumption, Zenon

LEMMA ServersAreNumbers == Servers \in SUBSET Nat /\ IsFiniteSet(Servers)
<1>1. Len(Config) \in Nat /\ Servers = 1..Len(Config)
  BY Assumed DEF Servers
<1> QED
  BY <1>1, FS_Interval

\* The first server of some is one of them.
LEMMA FirstServer ==
  ASSUME NEW S \in SUBSET Servers, S # {}
  PROVE  Min(S) \in S /\ \A r \in S : Min(S) <= r
<1>1. S \in SUBSET Nat /\ IsFiniteSet(S)
  BY ServersAreNumbers, FS_Subset
<1> QED
  BY <1>1, LeastIsMember

\* A thread is started with the first server of its port.
LEMMA ThreadIsFirst ==
  ASSUME NEW t \in Threads
  PROVE  t \in Servers /\ t = FirstOnPort(t)
<1> DEFINE same == {s \in Servers : Config[s].listen = Config[t].listen}
<1>1. t \in Servers /\ t \in same /\ same \in SUBSET Servers
  BY DEF Threads
<1>2. \A r \in Servers : r < t => r \notin same
  BY DEF Threads
<1>3. Min(same) \in same /\ Min(same) <= t
  BY <1>1, FirstServer
<1>4. Min(same) \in Nat /\ t \in Nat
  BY <1>1, <1>3, ServersAreNumbers
<1> QED
  BY <1>1, <1>2, <1>3, <1>4 DEF FirstOnPort

\* What handleRequest() selects is a server of the same port: the first with the
\* name, or the one it has.
LEMMA SelectedIsOfPort ==
  ASSUME NEW s \in Servers, NEW q
  PROVE  /\ Selected(s, q) \in Servers
         /\ Config[Selected(s, q)].listen = Config[s].listen
         /\ Named(Config[s].listen, q.host) # {} =>
              Selected(s, q) = Min(Named(Config[s].listen, q.host))
         /\ Named(Config[s].listen, q.host) = {} => Selected(s, q) = s
<1> DEFINE named == Named(Config[s].listen, q.host)
<1>1. named \in SUBSET Servers /\ \A r \in named : Config[r].listen = Config[s].listen
  BY DEF Named
<1>2. named # {} => Min(named) \in named
  BY <1>1, FirstServer
<1> QED
  BY <1>1, <1>2 DEF Selected

\* The place of a location is one that getLocations() has.
LEMMA PlaceIsThere ==
  ASSUME NEW s \in Servers, NEW q, Locations(s) # <<>>
  PROVE  Place(s, q) \in DOMAIN Locations(s) /\ Place(s, q) \in Nat
<1>1. Locations(s) \in Seq(LocationConfig)
  <2>1. Config[s] \in ServerConfig
    BY Assumed DEF Servers
  <2> QED
    BY <2>1 DEF Locations, ServerConfig
<1>2. Len(Locations(s)) \in Nat /\ DOMAIN Locations(s) = 1..Len(Locations(s))
  BY <1>1
<1>3. 1 \in DOMAIN Locations(s)
  BY <1>1, <1>2
<1>4. Matching(s, q) \in SUBSET Nat /\ IsFiniteSet(Matching(s, q))
  <2>1. IsFiniteSet(DOMAIN Locations(s)) /\ DOMAIN Locations(s) \in SUBSET Nat
    BY <1>2, FS_Interval
  <2>2. Matching(s, q) \in SUBSET DOMAIN Locations(s)
    BY DEF Matching
  <2> QED
    BY <2>1, <2>2, FS_Subset
<1>5. Matching(s, q) # {} => Min(Matching(s, q)) \in Matching(s, q)
  BY <1>4, LeastIsMember
<1>6. Place(s, q) \in DOMAIN Locations(s)
  BY <1>3, <1>5 DEF Place, Matching
<1> QED
  BY <1>2, <1>6

----------------------------------------------------------------------------
(* One step of handleRequest().                                            *)

\* What becomes of q under server s; the redirections come after the methods.
What(s, q) ==
  IF ~Allowed(s, q) THEN "405"
  ELSE IF Moved(s, q)
    THEN IF q.method # "GET" THEN "405"
         ELSE IF Location(s, q).redirect \in {301, 302} THEN "moved" ELSE "400"
  ELSE IF q.method \in Methods THEN "handled" ELSE "ignored"

\* Thread t answers q under server s, as a CGI or not.
Answers(t, q, s, cgi) ==
  /\ status[t] = "up" /\ Acceptable(q.url) /\ Locations(s) # <<>>
  /\ What(s, q) \in {"handled", "ignored"} => (cgi <=> isCgi[t] \/ OwnCgi(s, q))
  /\ Conclude(t, q, s, What(s, q), cgi)

LEMMA HandleRequestAnswers ==
  ASSUME NEW t \in Threads, NEW q \in Requests, HandleRequest(t, q), isCgi[t] \in BOOLEAN
  PROVE  \/ \E cgi \in BOOLEAN : Answers(t, q, Selected(chosen[t], q), cgi)
         \/ UNCHANGED <<status, chosen, isCgi, routed>> /\ running' = FALSE
<1> DEFINE s == Selected(chosen[t], q)
<1> HIDE DEF s
<1>0. RefuseMethod(t, q, s) \/ Redirect(t, q, s) \/ Handle(t, q, s) \/ Crash(t, q, s)
  BY DEF HandleRequest, s
<1>1. CASE RefuseMethod(t, q, s)
  <2>1. What(s, q) = "405"
    BY <1>1 DEF RefuseMethod, What
  <2>2. Answers(t, q, s, FALSE)
    BY <1>1, <2>1 DEF RefuseMethod, Serves, Answers
  <2> QED
    BY <2>2 DEF s
<1>2. CASE Redirect(t, q, s)
  <2>1. /\ What(s, q) = IF q.method # "GET" THEN "405"
                        ELSE IF Location(s, q).redirect \in {301, 302} THEN "moved" ELSE "400"
        /\ What(s, q) \notin {"handled", "ignored"}
    BY <1>2 DEF Redirect, What
  <2>2. Answers(t, q, s, FALSE)
    BY <1>2, <2>1 DEF Redirect, Serves, Answers
  <2> QED
    BY <2>2 DEF s
<1>3. CASE Handle(t, q, s)
  <2>1. What(s, q) = IF q.method \in Methods THEN "handled" ELSE "ignored"
    BY <1>3 DEF Handle, What
  <2>2. (isCgi[t] \/ OwnCgi(s, q)) \in BOOLEAN
    BY DEF OwnCgi
  <2>3. Answers(t, q, s, isCgi[t] \/ OwnCgi(s, q))
    BY <1>3, <2>1 DEF Handle, Serves, Answers
  <2> QED
    BY <2>2, <2>3 DEF s
<1>4. CASE Crash(t, q, s)
  BY <1>4 DEF Crash
<1> QED
  BY <1>0, <1>1, <1>2, <1>3, <1>4

----------------------------------------------------------------------------
(* The invariant.                                                          *)

\* A thread keeps to its port, with its first server or one that was named.
NamedBefore(t, s) ==
  \E b \in routed[t] : Known(t, b[1]) /\ s = Min(Named(Config[t].listen, b[1].host))

ChosenForCause ==
  \A t \in Threads :
    /\ Config[chosen[t]].listen = Config[t].listen
    /\ chosen[t] = FirstOnPort(t) \/ NamedBefore(t, chosen[t])

\* What became of a request follows from it and from its server, which is the one
\* it names if it names one.
RoutedAsSaid ==
  \A t \in Threads : \A a \in routed[t] :
    LET s == a[2].server IN
    /\ a[2] = Route(s, a[1], What(s, a[1]), a[2].cgi)
    /\ Known(t, a[1]) => s = Min(Named(Config[t].listen, a[1].host))
    /\ s = FirstOnPort(t) \/ NamedBefore(t, s)

\* Has t left a request of a CGI location without an answer?
LeftCgi(t) == \E b \in routed[t] : b[2].what = "ignored" /\ OwnCgi(b[2].server, b[1])

CgiForCause ==
  \A t \in Threads :
    /\ isCgi[t] => LeftCgi(t)
    /\ \A a \in routed[t] : a[2].what = "handled" /\ a[2].cgi =>
                              OwnCgi(a[2].server, a[1]) \/ LeftCgi(t)

Inv == TypeOK /\ ChosenForCause /\ RoutedAsSaid /\ CgiForCause

LEMMA InvInit == Init => Inv
<1> SUFFICES ASSUME Init PROVE Inv
  OBVIOUS
<1>1. \A t \in Threads : t \in Servers /\ t = FirstOnPort(t)
  BY ThreadIsFirst
<1>2. TypeOK
  BY <1>1 DEF Init, TypeOK
<1>3. ChosenForCause
  BY <1>1 DEF Init, ChosenForCause
<1> QED
  BY <1>2, <1>3 DEF Init, Inv, RoutedAsSaid, CgiForCause

\* An accepted URL has a directory that is no file, and a path.
LEMMA UrlIsSplit ==
  ASSUME NEW q \in Requests, Acceptable(q.url), NEW s
  PROVE  ConfigDir(q.url) \notin Dotted /\ Uri(s, q) \in Seq(Segments)
<1>1. PICK url : url = q.url
  OBVIOUS
<1>2. url \in Seq(Segments) /\ url # <<>>
  BY <1>1, Assumed, Zenon
<1>3. Len(url) > 1 \/ Len(url) = 1
  <2>1. Len(url) \in Nat /\ Len(url) # 0
    BY <1>2, EmptySeq, LenProperties
  <2> QED
    BY <2>1
<1>4. ConfigDir(url) \notin Dotted
  BY <1>1, <1>3, Assumed, Zenon DEF Acceptable, ConfigDir, IsFile
<1>5. ConfigDir(url) \in Segments /\ RequestUri(url) \in Seq(Segments)
  BY <1>2, Assumed, HeadTailProperties DEF ConfigDir, RequestUri
<1> QED
  BY <1>1, <1>4, <1>5 DEF Uri

\* t's routings after one more.
LEMMA AnswerKeepsInv ==
  ASSUME Inv, NEW t \in Threads, NEW q \in Requests, NEW cgi \in BOOLEAN, NEW s,
         s = Selected(chosen[t], q), Answers(t, q, s, cgi)
  PROVE  Inv'
<1> DEFINE r == <<q, Route(s, q, What(s, q), cgi)>>
<1>0. chosen \in [Threads -> Servers] /\ chosen[t] \in Servers
  BY DEF Inv, TypeOK
<1>1. /\ s \in Servers /\ Config[s].listen = Config[t].listen
      /\ Known(t, q) => s = Min(Named(Config[t].listen, q.host))
      /\ ~Known(t, q) => s = chosen[t]
  BY <1>0, SelectedIsOfPort DEF Inv, ChosenForCause, Known
<1>2. /\ r[1] = q /\ r[2] = Route(s, q, What(s, q), cgi)
      /\ r[2].what = What(s, q) /\ r[2].server = s /\ r[2].place = Place(s, q) /\ r[2].cgi = cgi
  BY DEF Route
<1> HIDE DEF r
<1>3. /\ Acceptable(q.url) /\ Locations(s) # <<>>
      /\ What(s, q) \in {"handled", "ignored"} => (cgi <=> isCgi[t] \/ OwnCgi(s, q))
  BY DEF Answers
<1>4. /\ chosen' = [chosen EXCEPT ![t] = s]
      /\ routed' = [routed EXCEPT ![t] = @ \cup {r}]
      /\ isCgi' = [isCgi EXCEPT ![t] = What(s, q) = "ignored" /\ cgi]
      /\ UNCHANGED <<status, running>>
  BY DEF Answers, Conclude, r
<1>5. \A u \in Threads : \A a \in routed'[u] : a \in routed[u] \/ (u = t /\ a = r)
  BY <1>4 DEF Inv, TypeOK
<1>6. r \in routed'[t] /\ \A u \in Threads : routed[u] \subseteq routed'[u]
  BY <1>4 DEF Inv, TypeOK
<1>7. \A u \in Threads, v \in Servers : NamedBefore(u, v) => NamedBefore(u, v)'
  BY <1>6, Zenon DEF NamedBefore, Known
<1>8. TypeOK'
  <2>1. r \in Requests \X Outcome
    <3>1. Place(s, q) \in Nat /\ Uri(s, q) \in Seq(Segments)
      BY <1>1, <1>3, PlaceIsThere, UrlIsSplit
    <3>2. What(s, q) \in {"405", "moved", "400", "handled", "ignored"}
      BY DEF What
    <3>3. Route(s, q, What(s, q), cgi) \in Outcome
      BY <1>1, <3>1, <3>2 DEF Route, Outcome
    <3> QED
      BY <3>3 DEF r
  <2>2. routed' \in [Threads -> SUBSET (Requests \X Outcome)]
    BY <1>4, <2>1 DEF Inv, TypeOK
  <2>3. chosen' \in [Threads -> Servers] /\ isCgi' \in [Threads -> BOOLEAN]
    BY <1>1, <1>4 DEF Inv, TypeOK
  <2>4. ASSUME NEW u \in Threads, NEW a \in routed'[u]
        PROVE  ConfigDir(a[1].url) \notin Dotted /\ a[2].place \in DOMAIN Locations(a[2].server)
    <3>1. CASE a \in routed[u]
      BY <3>1 DEF Inv, TypeOK
    <3>2. CASE a = r
      BY <3>2, <1>1, <1>2, <1>3, UrlIsSplit, PlaceIsThere
    <3> QED
      BY <3>1, <3>2, <1>5
  <2> QED
    BY <1>4, <2>2, <2>3, <2>4 DEF Inv, TypeOK
<1>9. s = FirstOnPort(t) \/ NamedBefore(t, s)'
  <2>1. CASE Known(t, q)
    BY <2>1, <1>1, <1>2, <1>6 DEF NamedBefore, Known
  <2>2. CASE ~Known(t, q)
    BY <2>2, <1>1, <1>7 DEF Inv, ChosenForCause
  <2> QED
    BY <2>1, <2>2
<1>10. ChosenForCause'
  <2> SUFFICES ASSUME NEW u \in Threads
               PROVE  /\ Config[chosen'[u]].listen = Config[u].listen
                      /\ chosen'[u] = FirstOnPort(u) \/ NamedBefore(u, chosen[u])'
    BY DEF ChosenForCause, FirstOnPort
  <2>1. CASE u # t
    <3>1. PICK v \in Servers : v = chosen[u] /\ v = chosen'[u]
      BY <2>1, <1>0, <1>4
    <3> QED
      BY ZenonT(40), <3>1, <1>7 DEF Inv, ChosenForCause, NamedBefore
  <2>2. CASE u = t
    <3>1. chosen'[u] = s
      BY <2>2, <1>0, <1>4
    <3> QED
      BY <3>1, <2>2, <1>1, <1>9 DEF NamedBefore
  <2> QED
    BY <2>1, <2>2
<1>11. RoutedAsSaid'
  <2> SUFFICES ASSUME NEW u \in Threads, NEW a \in routed'[u]
               PROVE  LET v == a[2].server IN
                      /\ a[2] = Route(v, a[1], What(v, a[1]), a[2].cgi)
                      /\ Known(u, a[1]) => v = Min(Named(Config[u].listen, a[1].host))
                      /\ v = FirstOnPort(u) \/ NamedBefore(u, v)'
    BY DEF RoutedAsSaid, FirstOnPort, Known
  <2>1. CASE a \in routed[u]
    <3>1. a[2].server \in Servers
      BY <2>1 DEF Inv, TypeOK, Outcome
    <3> QED
      BY <2>1, <3>1, <1>7 DEF Inv, RoutedAsSaid
  <2>2. CASE u = t /\ a = r
    BY <2>2, <1>1, <1>2, <1>9
  <2> QED
    BY <2>1, <2>2, <1>5
<1>12. CgiForCause'
  <2>0. \A u \in Threads : LeftCgi(u) => LeftCgi(u)'
    BY <1>6, Zenon DEF LeftCgi
  <2>1. cgi => \/ What(s, q) \notin {"handled", "ignored"}
               \/ OwnCgi(s, q) \/ LeftCgi(t)
    BY <1>3 DEF Inv, CgiForCause
  <2>2. What(s, q) = "ignored" /\ cgi => LeftCgi(t)'
    <3> SUFFICES ASSUME What(s, q) = "ignored", cgi PROVE LeftCgi(t)'
      OBVIOUS
    <3>1. CASE OwnCgi(s, q)
      BY <3>1, <1>2, <1>6 DEF LeftCgi
    <3> QED
      BY <2>0, <2>1, <3>1
  <2>3. \A u \in Threads : isCgi'[u] => LeftCgi(u)'
    BY <1>4, <2>0, <2>2 DEF Inv, TypeOK, CgiForCause
  <2>4. ASSUME NEW u \in Threads, NEW a \in routed'[u], a[2].what = "handled", a[2].cgi
        PROVE  OwnCgi(a[2].server, a[1]) \/ LeftCgi(u)'
    <3>1. CASE a \in routed[u]
      BY <3>1, <2>4, <2>0 DEF Inv, CgiForCause
    <3>2. CASE u = t /\ a = r
      BY <3>2, <2>4, <2>0, <2>1, <1>2
    <3> QED
      BY <3>1, <3>2, <1>5
  <2> QED
    BY <2>3, <2>4 DEF CgiForCause
<1> QED
  BY <1>8, <1>10, <1>11, <1>12 DEF Inv

LEMMA InvStep == Inv /\ [Next]_vars => Inv'
<1> SUFFICES ASSUME Inv, [Next]_vars PROVE Inv'
  OBVIOUS
<1>1. ASSUME UNCHANGED <<chosen, isCgi, routed>>, TypeOK'
      PROVE  Inv'
  BY <1>1, Zenon DEF Inv, ChosenForCause, RoutedAsSaid, CgiForCause, NamedBefore, LeftCgi,
     FirstOnPort, Known
<1>2. CASE UNCHANGED vars
  BY <1>1, <1>2 DEF vars, Inv, TypeOK
<1>3. ASSUME NEW t \in Threads, Start(t)
      PROVE  Inv'
  BY <1>1, <1>3 DEF Start, Inv, TypeOK
<1>4. ASSUME NEW t \in Threads, NEW q \in Requests, HandleRequest(t, q)
      PROVE  Inv'
  <2>1. CASE UNCHANGED <<status, chosen, isCgi, routed>> /\ running' = FALSE
    BY <2>1, <1>1 DEF Inv, TypeOK
  <2>2. isCgi[t] \in BOOLEAN
    BY DEF Inv, TypeOK
  <2> QED
    BY <1>4, <2>1, <2>2, HandleRequestAnswers, AnswerKeepsInv
<1> QED
  BY <1>2, <1>3, <1>4 DEF Next

LEMMA InvHolds == Spec => []Inv
BY InvInit, InvStep, PTL DEF Spec

----------------------------------------------------------------------------
(* The properties.                                                         *)

\* Every variable of Dispatch keeps its type, for every configuration; no request
\* is routed to a location its server does not have.
THEOREM TypeCorrect == Spec => []TypeOK
BY InvHolds, PTL DEF Inv

\* A request that names a server of the port is served the same way whatever the
\* thread has served before.
THEOREM NamedAlike == Spec => []NamedServedAlike
<1>1. Inv => NamedServedAlike
  <2> SUFFICES ASSUME Inv, NEW t \in Threads, NEW a \in routed[t], NEW b \in routed[t],
                      a[1] = b[1], Known(t, a[1])
               PROVE  Alike(a[2], b[2])
    BY DEF NamedServedAlike
  <2>1. a[2].server = b[2].server
    BY DEF Inv, RoutedAsSaid
  <2> DEFINE w == What(a[2].server, a[1])
  <2>2. /\ a[2] = Route(a[2].server, a[1], w, a[2].cgi)
        /\ b[2] = Route(a[2].server, a[1], w, b[2].cgi)
    BY <2>1 DEF Inv, RoutedAsSaid
  <2> HIDE DEF w
  <2> QED
    BY <2>2 DEF Route, Alike
<1> QED
  BY <1>1, InvHolds, PTL

\* A request that names no server of the port gets the first one of the port or one
\* that an earlier request of the thread has named.
THEOREM UnnamedByLast == Spec => []UnnamedServedByLast
<1>1. Inv => UnnamedServedByLast
  BY DEF Inv, RoutedAsSaid, UnnamedServedByLast, NamedBefore
<1> QED
  BY <1>1, InvHolds, PTL

\* A handler runs a request as a CGI only if its path has the extension of its
\* location, or after the thread has left one that has without an answer.
THEOREM CgiIsOwn == Spec => []CgiOnlyIfOwn
<1>1. Inv => CgiOnlyIfOwn
  BY DEF Inv, CgiForCause, CgiOnlyIfOwn, LeftCgi
<1> QED
  BY <1>1, InvHolds, PTL
=============================================================================

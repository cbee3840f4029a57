----------------------------- MODULE EventLoop -----------------------------
(***************************************************************************)
(* One Server thread (Server::run in src/src/Server.cpp): the kqueue loop  *)
(* that accepts clients, reads their requests, queues the responses and    *)
(* sends them, together with the peers and the part of the kernel the loop *)
(* talks to.                                                               *)
(*                                                                         *)
(* A descriptor number is reused as soon as it is closed, and the events   *)
(* kevent() returned together are handled one after the other, so an event *)
(* may be handled when the connection it was reported for is gone and its  *)
(* number belongs to another client.  Every event therefore carries the    *)
(* connection it was reported for (conn), which the program cannot see.    *)
(*                                                                         *)
(* Abstractions.  A request is two pieces of bytes, "first" and "last"; or *)
(* one piece "junk" that parse() rejects; or a piece "bad" that parse()    *)
(* rejects before the "last" piece has come; or one that begins with       *)
(* "trailer", whose end parse() never sees; or with "endless", a negative  *)
(* chunk size, on which parse() never returns.  RequestParser models the   *)
(* bytes themselves, and Dispatch, Handlers and Cgi what a complete        *)
(* request comes to: an answer, none, a thread that hangs or blocks for    *)
(* ever, the end of the process.  Here it may come to each of them.        *)
(* What a response says is left out: it has a size, in units of which one  *)
(* send() is asked to take at most MaxSend (the 1300 bytes of              *)
(* writeClient), and its bytes are named by their position in the stream   *)
(* of all response bytes queued for the connection.                        *)
(***************************************************************************)
EXTENDS Integers, Sequences, FiniteSets

CONSTANTS
  Conns,      \* the connections peers may open, each of them once
  Fds,        \* the descriptor numbers the process has left for its clients
  ServSock,   \* the listening socket
  NoConn,     \* stands for no connection
  QSIZE,      \* capacity of event_list
  MaxReq,     \* bound: requests one peer sends on a connection
  Sizes,      \* the sizes a response may have
  MaxSend,    \* the most one send() is asked to take
  Parts,      \* the pieces peers send
  Pipelined   \* may a peer send a request before the last one is answered?

ASSUME EventLoopAssumption ==
  /\ NoConn \notin Conns
  /\ ServSock \notin Fds
  /\ QSIZE \in Nat \ {0}
  /\ MaxReq \in Nat
  /\ Sizes \subseteq Nat \ {0}
  /\ MaxSend \in Nat \ {0}
  /\ Parts \subseteq {"first", "bad", "trailer", "endless", "junk", "last"}
  /\ Pipelined \in BOOLEAN

VARIABLES
  \* The peers and the kernel.
  peer,       \* what the kernel knows of the peer of a connection
  progress,   \* pieces of requests the peer has sent (two per request)
  backlog,    \* connections waiting in the queue of the listening socket
  inbox,      \* pieces received by the kernel and not yet by recv()
  full,       \* connections whose send buffer is full: the peer does not read
  sock,       \* the connection each descriptor is open on
  watched,    \* the (descriptor, filter) pairs registered with the kqueue
  \* The Server object and its Clients, a Client being indexed by its socket.
  running,    \* FALSE once the process is dead
  hung,       \* is the thread in a handler that never returns?
  event_list, \* the events returned by kevent() and not yet handled
  clientMap,  \* the connection the Client stored under a descriptor is for
  phantom,    \* does clientMap hold a Client under the key -1?
  req,        \* Client::req: the pieces of the request being received
  sendQueue,  \* Client::sendQueue
  \* History.
  answers,    \* the requests answered on a connection, 0 for none it made
  ignored,    \* the complete requests nobody has answered, by connection
  total,      \* bytes of response queued for a connection
  wire        \* bytes of response sent on a connection

kernel  == <<peer, progress, backlog, inbox, full, sock, watched>>
client  == <<clientMap, req, sendQueue>>
history == <<answers, ignored, total, wire>>
vars    == <<kernel, running, hung, event_list, phantom, client, history>>

Filters == {"READ", "WRITE"}
Piece   == [req : 1..MaxReq, part : Parts]
Event   == [fd : Fds \cup {ServSock}, filter : Filters, eof : BOOLEAN,
            conn : Conns \cup {NoConn}]

\* A SendQueueItem; first is the position of its first byte in the stream.
Item == [first : Nat \ {0}, size : Nat \ {0}, offset : Nat, disconnect : BOOLEAN]

Lesser(a, b) == IF a < b THEN a ELSE b

Init ==
  /\ peer = [c \in Conns |-> "idle"]
  /\ progress = [c \in Conns |-> 0]
  /\ backlog = {}
  /\ inbox = [c \in Conns |-> <<>>]
  /\ full = {}
  /\ sock = [f \in Fds |-> NoConn]
  /\ watched = {}
  /\ running = TRUE
  /\ hung = FALSE
  /\ event_list = {}
  /\ clientMap = [f \in Fds |-> NoConn]
  /\ phantom = FALSE
  /\ req = [f \in Fds |-> <<>>]
  /\ sendQueue = [f \in Fds |-> <<>>]
  /\ answers = [c \in Conns |-> <<>>]
  /\ ignored = {}
  /\ total = [c \in Conns |-> 0]
  /\ wire = [c \in Conns |-> <<>>]

Accepted(c) == \E f \in Fds : sock[f] = c
Gone(c)     == peer[c] # "idle" /\ c \notin backlog /\ ~Accepted(c)

----------------------------------------------------------------------------
(* The peers.  Once the server has closed its end, or the process is dead, *)
(* nothing a peer does reaches the program any more.  The kernel serves    *)
(* them also while the thread hangs.                                       *)

Reachable(c) == running /\ (c \in backlog \/ Accepted(c))

Connect(c) ==
  /\ running
  /\ peer[c] = "idle"
  /\ peer' = [peer EXCEPT ![c] = "open"]
  /\ backlog' = backlog \cup {c}
  /\ UNCHANGED <<progress, inbox, full, sock, watched, running, hung,
                 event_list, phantom, client, history>>

\* Every response to the requests sent so far has reached the peer.
Answered(c) == /\ Len(answers[c]) >= progress[c] \div 2
               /\ Len(wire[c]) = total[c]

Send(c, part) ==
  /\ Reachable(c)
  /\ peer[c] = "open"
  /\ progress[c] < 2 * MaxReq
  /\ IF part = "last" THEN progress[c] % 2 = 1
                      ELSE progress[c] % 2 = 0 /\ (Pipelined \/ Answered(c))
  /\ inbox' = [inbox EXCEPT
                 ![c] = Append(@, [req |-> progress[c] \div 2 + 1, part |-> part])]
  /\ progress' = [progress EXCEPT ![c] = @ + (IF part = "junk" THEN 2 ELSE 1)]
  /\ UNCHANGED <<peer, backlog, full, sock, watched, running, hung,
                 event_list, phantom, client, history>>

\* The peer ends its sending direction (FIN) or the connection (RST).
Leave(c, how) ==
  /\ Reachable(c)
  /\ peer[c] = "open" \/ (peer[c] = "shut" /\ how = "reset")
  /\ peer' = [peer EXCEPT ![c] = how]
  /\ UNCHANGED <<progress, backlog, inbox, full, sock, watched, running, hung,
                 event_list, phantom, client, history>>

\* The peer reads what it was sent: there is room in the send buffer again.
Drain(c) ==
  /\ Reachable(c)
  /\ c \in full
  /\ peer[c] # "reset"
  /\ full' = full \ {c}
  /\ UNCHANGED <<peer, progress, backlog, inbox, sock, watched, running, hung,
                 event_list, phantom, client, history>>

Peers == \E c \in Conns : \/ Connect(c)
                          \/ Drain(c)
                          \/ \E part \in Parts : Send(c, part)
                          \/ \E how \in {"shut", "reset"} : Leave(c, how)

----------------------------------------------------------------------------
(* kevent(): both filters are level-triggered.  A READ event is due while  *)
(* there is data or the peer has ended its direction, a WRITE event while  *)
(* there is room to send or the peer has reset the connection.             *)

ListenEvent == [fd |-> ServSock, filter |-> "READ", eof |-> FALSE, conn |-> NoConn]

Due(f, filter) ==
  IF filter = "WRITE" THEN sock[f] \notin full \/ peer[sock[f]] = "reset"
                      ELSE inbox[sock[f]] # <<>> \/ peer[sock[f]] # "open"

EventOf(f, filter) ==
  [fd |-> f, filter |-> filter, conn |-> sock[f],
   eof |-> peer[sock[f]] = "reset" \/ (filter = "READ" /\ peer[sock[f]] = "shut")]

\* Mutant: the listening socket is not registered with the kqueue.
ActiveClients ==
  {EventOf(w[1], w[2]) : w \in {w \in watched : Due(w[1], w[2])}}

Active ==
  {EventOf(w[1], w[2]) : w \in {w \in watched : Due(w[1], w[2])}}
     \cup (IF backlog = {} THEN {} ELSE {ListenEvent})

Poll ==
  /\ running /\ ~hung
  /\ event_list = {}
  /\ \E S \in SUBSET Active :
       /\ S # {}
       /\ Cardinality(S) = Lesser(QSIZE, Cardinality(Active))
       /\ event_list' = S
  /\ UNCHANGED <<kernel, running, hung, phantom, client, history>>

----------------------------------------------------------------------------
(* The operations of the Server.  They leave event_list to Handle.         *)

\* Mutant: the Client is not erased from clientMap (mapErase is false).
DisconnectedKeepingClient(f) ==
  /\ watched' = watched \ ({f} \X Filters)
  /\ inbox' = IF sock[f] = NoConn THEN inbox ELSE [inbox EXCEPT ![sock[f]] = <<>>]
  /\ full' = full \ {sock[f]}
  /\ sock' = [sock EXCEPT ![f] = NoConn]
  /\ UNCHANGED client

DisconnectedClient(f) ==
  /\ watched' = watched \ ({f} \X Filters)
  /\ inbox' = IF sock[f] = NoConn THEN inbox ELSE [inbox EXCEPT ![sock[f]] = <<>>]
  /\ full' = full \ {sock[f]}
  /\ sock' = [sock EXCEPT ![f] = NoConn]
  /\ req' = [req EXCEPT ![f] = <<>>]
  /\ clientMap' = [clientMap EXCEPT ![f] = NoConn]
  /\ sendQueue' = [sendQueue EXCEPT ![f] = <<>>]

\* Mutant: only the READ filter of a new client is registered.
AddReadOnlyClient(f, c) ==
  /\ sock' = [sock EXCEPT ![f] = c]
  /\ watched' = watched \cup {<<f, "READ">>}
  /\ clientMap' = [clientMap EXCEPT ![f] = c]
  /\ UNCHANGED <<req, sendQueue>>

\* clientMap.insert() keeps the Client already stored under the key, if any.
AddClient(f, c) ==
  /\ sock' = [sock EXCEPT ![f] = c]
  /\ watched' = watched \cup ({f} \X Filters)
  /\ IF clientMap[f] = NoConn
       THEN /\ clientMap' = [clientMap EXCEPT ![f] = c]
            /\ req' = [req EXCEPT ![f] = <<>>]
            /\ sendQueue' = [sendQueue EXCEPT ![f] = <<>>]
       ELSE UNCHANGED client

\* accept() failed: the code goes on with the descriptor -1.
AcceptFailed ==
  /\ phantom' = TRUE
  /\ UNCHANGED <<sock, watched, client>>

\* accept() may give any free number: the other threads of the process take
\* and return descriptors too.  It fails when there is none left, and when
\* the peer has already reset the connection.
AcceptNewClient ==
  /\ \/ \E c \in backlog, f \in {f \in Fds : sock[f] = NoConn} :
          /\ backlog' = backlog \ {c}
          /\ AddClient(f, c)
          /\ UNCHANGED phantom
     \/ \E c \in {c \in backlog : peer[c] = "reset"} :
          /\ backlog' = backlog \ {c}
          /\ AcceptFailed
     \/ /\ \A f \in Fds : sock[f] # NoConn
        /\ backlog' = backlog
        /\ AcceptFailed
  /\ UNCHANGED <<peer, progress, inbox, full, running, hung, history>>

\* Mutant: the response is put in front of those that wait already.
SendResponseFirst(f, r, size, disconnect) ==
  LET c == clientMap[f] IN
  /\ sendQueue' = [sendQueue EXCEPT ![f] =
       <<[first |-> total[c] + 1, size |-> size, offset |-> 0,
          disconnect |-> disconnect]>> \o @]
  /\ total' = [total EXCEPT ![c] = @ + size]
  /\ answers' = [answers EXCEPT ![c] = Append(@, r)]

\* The response to request r (0: to bytes that are no request of the peer).
SendResponse(f, r, size, disconnect) ==
  LET c == clientMap[f] IN
  /\ sendQueue' = [sendQueue EXCEPT ![f] =
       Append(@, [first |-> total[c] + 1, size |-> size, offset |-> 0,
                  disconnect |-> disconnect])]
  /\ total' = [total EXCEPT ![c] = @ + size]
  /\ answers' = [answers EXCEPT ![c] = Append(@, r)]

\* Mutant: the end of a request is seen one piece late.
ParseResultsLate(buf) ==
  CASE buf[1].part \in {"junk", "bad"} -> {"BAD_REQUEST"}
    [] buf[1].part = "first"   -> IF Len(buf) <= 2 THEN {"INCOMPLETE"} ELSE {"COMPLETE"}
    [] buf[1].part = "trailer" -> {"INCOMPLETE"}
    [] buf[1].part = "endless" -> {"INCOMPLETE", "ENDLESS"}
    [] buf[1].part = "last"    -> {"INCOMPLETE", "BAD_REQUEST", "COMPLETE", "ENDLESS"}

\* What parse() may come to on the pieces received so far, "ENDLESS" if it does
\* not return.  When the bytes do not begin at the beginning of a request they
\* may look like anything.
ParseResults(buf) ==
  CASE buf[1].part \in {"junk", "bad"} -> {"BAD_REQUEST"}
    [] buf[1].part = "first"   -> IF Len(buf) = 1 THEN {"INCOMPLETE"} ELSE {"COMPLETE"}
    [] buf[1].part = "trailer" -> {"INCOMPLETE"}
    [] buf[1].part = "endless" ->
         IF Len(buf) = 1 THEN {"INCOMPLETE", "ENDLESS"} ELSE {"ENDLESS"}
    [] buf[1].part = "last"    -> {"INCOMPLETE", "BAD_REQUEST", "COMPLETE", "ENDLESS"}

RequestOf(buf) == IF buf[1].part = "last" THEN 0 ELSE buf[1].req

\* The thread stays in parse() or in a handler for ever: in the chunk loop, in
\* the loop that reads an error page, in executeCgi()'s write() or waitpid().
Hang ==
  /\ hung' = TRUE
  /\ UNCHANGED <<running, sendQueue, answers, ignored, total>>

\* A handler ends the process: by an exception nobody catches, a pointer that is
\* NULL, or SIGPIPE of executeCgi()'s write().
Die ==
  /\ running' = FALSE
  /\ UNCHANGED <<hung, sendQueue, answers, ignored, total>>

\* handleRequest() returns.  It has queued one response, or has found no case
\* for the method.
HandleRequest(f, r) ==
  /\ \/ /\ \E size \in Sizes, close \in BOOLEAN : SendResponse(f, r, size, close)
        /\ UNCHANGED ignored
     \/ /\ ignored' = IF r = 0 THEN ignored ELSE ignored \cup {<<clientMap[f], r>>}
        /\ UNCHANGED <<sendQueue, answers, total>>
  /\ UNCHANGED <<running, hung>>

\* Mutant: a request that was handled is not deleted.
ParseKeeping(f, buf) ==
  \E status \in ParseResults(buf) :
    /\ req' = [req EXCEPT ![f] = buf]
    /\ \/ /\ status = "INCOMPLETE"
          /\ UNCHANGED <<running, hung, sendQueue, answers, ignored, total>>
       \/ status \in {"BAD_REQUEST", "COMPLETE"} /\ HandleRequest(f, RequestOf(buf))

\* The client's request with what was just received, and what comes of it.
\* A request that was handled is deleted with all the bytes that follow it.
Parse(f, buf) ==
  \E status \in ParseResults(buf) :
    \/ /\ status = "INCOMPLETE"
       /\ req' = [req EXCEPT ![f] = buf]
       /\ UNCHANGED <<running, hung, sendQueue, answers, ignored, total>>
    \/ /\ status = "BAD_REQUEST"
       /\ \E size \in Sizes : SendResponse(f, RequestOf(buf), size, FALSE)
       /\ req' = [req EXCEPT ![f] = <<>>]
       /\ UNCHANGED <<running, hung, ignored>>
    \/ /\ status = "COMPLETE"
       /\ HandleRequest(f, RequestOf(buf))
       /\ req' = [req EXCEPT ![f] = <<>>]
    \/ /\ status = "COMPLETE"
       /\ Hang \/ Die
       /\ req' = [req EXCEPT ![f] = buf]
    \/ /\ status = "ENDLESS"
       /\ Hang
       /\ req' = [req EXCEPT ![f] = buf]

ReadClient(f) ==
  LET c == sock[f] IN
  /\ \/ \* recv() returns 0 or -1; parse() is called all the same, and returns
        /\ inbox[c] = <<>> \/ peer[c] = "reset"
        /\ DisconnectedClient(f)
        /\ UNCHANGED <<running, hung, history>>
     \/ \* or does not
        /\ inbox[c] = <<>> \/ peer[c] = "reset"
        /\ req[f] # <<>>
        /\ "ENDLESS" \in ParseResults(req[f])
        /\ Hang
        /\ UNCHANGED <<inbox, full, sock, watched, clientMap, req, wire>>
     \/ \E n \in 1..Len(inbox[c]) :
          /\ inbox' = [inbox EXCEPT ![c] = SubSeq(@, n + 1, Len(@))]
          /\ Parse(f, req[f] \o SubSeq(inbox[c], 1, n))
          /\ UNCHANGED <<full, sock, watched, clientMap, wire>>
  /\ UNCHANGED <<peer, progress, backlog, phantom>>

\* Mutant: the first byte is sent twice.
BytesFromBefore(item, n) == [j \in 1..n |-> item.first + item.offset + j - 2]

\* The bytes offset+1 .. offset+n of an item, as positions in the stream.
Bytes(item, n) == [j \in 1..n |-> item.first + item.offset + j - 1]

\* Mutants: the new offset forgets the old one; all that waits is dequeued with
\* an item that is done.
AdvanceForgetful(q, n) ==
  IF q[1].offset + n >= q[1].size THEN Tail(q) ELSE [q EXCEPT ![1].offset = n]
AdvanceClearing(q, n) ==
  IF q[1].offset + n >= q[1].size THEN <<>> ELSE [q EXCEPT ![1].offset = @ + n]

\* The queue when n more bytes of its first item have been sent.
Advance(q, n) ==
  IF q[1].offset + n >= q[1].size THEN Tail(q) ELSE [q EXCEPT ![1].offset = @ + n]

\* Mutant: the connection is closed when send() took less than the item.
CloseWhenPartial(item, n) == item.disconnect \/ item.offset + n < item.size

\* Is the connection closed once n > 0 more bytes of this item were sent?  The
\* code looks at the item's flag only, not at what is left to send.
CloseAfter(item, n) == item.disconnect

WriteClient(f) ==
  LET c == sock[f]
      q == sendQueue[f]
      item == Head(q)
  IN
  \/ /\ q = <<>>
     /\ UNCHANGED <<kernel, running, hung, phantom, client, history>>
  \/ \* send() takes n bytes, and the buffer may be full then
     /\ q # <<>>
     /\ peer[c] # "reset" /\ c \notin full
     /\ \E n \in 1..Lesser(item.size - item.offset, MaxSend) :
          /\ wire' = [wire EXCEPT ![c] = @ \o Bytes(item, n)]
          /\ IF CloseAfter(item, n)
               THEN DisconnectedClient(f)
               ELSE /\ sendQueue' = [sendQueue EXCEPT ![f] = Advance(@, n)]
                    /\ full' \in {full, full \cup {c}}
                    /\ UNCHANGED <<inbox, sock, watched, clientMap, req>>
     /\ UNCHANGED <<peer, progress, backlog, running, hung, phantom, answers,
                    ignored, total>>
  \/ \* send() returns -1
     /\ q # <<>>
     /\ peer[c] = "reset" \/ c \in full
     /\ DisconnectedClient(f)
     /\ UNCHANGED <<peer, progress, backlog, running, hung, phantom, history>>
  \/ \* send() raises SIGPIPE, which the program neither ignores nor handles
     /\ q # <<>>
     /\ peer[c] = "reset"
     /\ running' = FALSE
     /\ UNCHANGED <<kernel, hung, phantom, client, history>>

----------------------------------------------------------------------------
(* One iteration of the loop over event_list.                              *)

Dispatch(e) ==
  \/ /\ e.fd = ServSock
     /\ AcceptNewClient
  \/ /\ e.fd \in Fds
     /\ clientMap[e.fd] = NoConn
     /\ UNCHANGED <<kernel, running, hung, phantom, client, history>>
  \/ /\ e.fd \in Fds
     /\ clientMap[e.fd] # NoConn
     /\ e.eof
     /\ DisconnectedClient(e.fd)
     /\ UNCHANGED <<peer, progress, backlog, running, hung, phantom, history>>
  \/ /\ e.fd \in Fds
     /\ clientMap[e.fd] # NoConn
     /\ ~e.eof
     /\ \/ e.filter = "READ" /\ ReadClient(e.fd)
        \/ e.filter = "WRITE" /\ WriteClient(e.fd)

\* Mutant: the index into event_list does not always advance.
HandleAgain ==
  /\ running /\ ~hung
  /\ \E e \in event_list :
       /\ event_list' \in {event_list, event_list \ {e}}
       /\ Dispatch(e)

Handle ==
  /\ running /\ ~hung
  /\ \E e \in event_list :
       /\ event_list' = event_list \ {e}
       /\ Dispatch(e)

Next == Peers \/ Poll \/ Handle

Spec == Init /\ [][Next]_vars

\* The scheduler runs the thread, and kevent() returns when an event is due.
\* Nothing is assumed of a handler: it returns, or the thread is hung and takes
\* no step any more.  The peers owe nothing.
FairSpec == Spec /\ WF_vars(Poll \/ Handle)

----------------------------------------------------------------------------
(* Safety.                                                                 *)

\* Every variable has its type; in particular what is sent are bytes of the
\* stream and what is queued are whole items.
TypeOK ==
  /\ peer \in [Conns -> {"idle", "open", "shut", "reset"}]
  /\ progress \in [Conns -> 0..(2 * MaxReq)]
  /\ backlog \subseteq Conns
  /\ inbox \in [Conns -> Seq(Piece)]
  /\ full \subseteq Conns
  /\ sock \in [Fds -> Conns \cup {NoConn}]
  /\ watched \subseteq Fds \X Filters
  /\ running \in BOOLEAN
  /\ hung \in BOOLEAN
  /\ event_list \subseteq Event
  /\ clientMap \in [Fds -> Conns \cup {NoConn}]
  /\ phantom \in BOOLEAN
  /\ req \in [Fds -> Seq(Piece)]
  /\ sendQueue \in [Fds -> Seq(Item)]
  /\ answers \in [Conns -> Seq(0..MaxReq)]
  /\ ignored \subseteq Conns \X (1..MaxReq)
  /\ total \in [Conns -> Nat]
  /\ wire \in [Conns -> Seq(Nat \ {0})]

\* disconnected_client() and accept_new_client() keep three things in step: the
\* descriptors that are open, the filters registered for them and the Clients
\* in clientMap.  No Client survives its descriptor, no descriptor leaks, no
\* connection has two of them, and a closed descriptor has no request and no
\* response left over for the connection that gets its number next.  What waits
\* in the backlog is a connection some peer made.
DescriptorOwnership ==
  /\ clientMap = sock
  /\ watched = {f \in Fds : sock[f] # NoConn} \X Filters
  /\ \A f \in Fds :
       IF sock[f] = NoConn
         THEN req[f] = <<>> /\ sendQueue[f] = <<>>
         ELSE sock[f] \notin backlog /\ peer[sock[f]] # "idle"
  /\ \A c \in backlog : peer[c] # "idle"
  /\ \A f, g \in Fds : sock[f] = sock[g] /\ sock[f] # NoConn => f = g

\* What run() may conclude from an event it has not handled yet.  The events
\* kept under one number are of one connection, one for each filter.  When that
\* connection is still the one behind the number, what was reported is still
\* true: there is data (or an error) to receive, or the peer has indeed ended.
\* When it is not, the connection is gone for good and the event can only hit a
\* stranger.  In both cases a send() for the event finds room in the buffer: it
\* cannot fail just because the peer is slow, which writeClient() would take for
\* an error.
PendingEventsTrue ==
  \A e \in event_list : e.fd \in Fds =>
    /\ e.conn # NoConn
    /\ \A d \in event_list : d.fd = e.fd =>
         d.conn = e.conn /\ (d.filter = e.filter => d = e)
    /\ IF e.conn # sock[e.fd]
         THEN Gone(e.conn)
         ELSE /\ e.eof => peer[e.conn] # "open"
              /\ (e.filter = "READ" /\ ~e.eof) =>
                    inbox[e.conn] # <<>> \/ peer[e.conn] = "reset"
    /\ e.filter = "WRITE" /\ ~e.eof => sock[e.fd] \notin full

\* The peer receives the stream of the queued responses: no byte is skipped,
\* repeated or reordered by partial sends, whatever send() takes each time.
WireInOrder ==
  \A c \in Conns : /\ Len(wire[c]) <= total[c]
                   /\ \A i \in 1..Len(wire[c]) : wire[c][i] = i

\* A Client's queue holds exactly the bytes queued and not yet sent: its items
\* follow each other in the stream, only the first of them may have been sent
\* in part, and what was sent ends where the rest of the first item begins.
QueueCoversUnsent ==
  \A f \in Fds : sock[f] # NoConn =>
    LET q == sendQueue[f]
        End(i) == q[i].first + q[i].size
    IN  IF q = <<>>
          THEN Len(wire[sock[f]]) = total[sock[f]]
          ELSE /\ Len(wire[sock[f]]) + 1 = q[1].first + q[1].offset
               /\ End(Len(q)) = total[sock[f]] + 1
               /\ \A i \in 1..Len(q) : q[i].offset < q[i].size
               /\ \A i \in 2..Len(q) : q[i].offset = 0 /\ q[i].first = End(i - 1)

\* However the pieces of pipelined requests are grouped by recv(), and though
\* bytes are dropped with each answered request, no request is answered twice
\* and the answers keep the order of the requests.
AnswersInOrder ==
  \A c \in Conns : \A i, j \in 1..Len(answers[c]) :
    i < j /\ answers[c][i] # 0 /\ answers[c][j] # 0 => answers[c][i] < answers[c][j]

\* A peer that waits for each answer, and whose rejected requests come in one
\* piece, has its n-th request answered by the n-th response.
OneAnswerEach ==
  ~Pipelined /\ "bad" \notin Parts =>
    \A c \in Conns : \A i \in 1..Len(answers[c]) : answers[c][i] = i

\* The server closes a connection whose peer has not ended only for one of two
\* reasons: the response just sent asks for it, or the event being handled was
\* reported for the connection that had the descriptor before.
DroppedOnlyForCause ==
  [][\A f \in Fds : sock[f] # NoConn /\ sock'[f] # sock[f] /\ peer[sock[f]] = "open" =>
       \/ sendQueue[f] # <<>> /\ sendQueue[f][1].disconnect
       \/ \E e \in event_list \ event_list' : e.fd = f /\ e.conn # sock[f]]_vars

----------------------------------------------------------------------------
(* Liveness, under FairSpec.                                               *)

\* What excuses the server from serving a connection any longer.
Excused(c) == peer[c] # "open" \/ Gone(c) \/ ~running \/ hung

\* A response queued for a peer that stays and reads again and again is sent to
\* its last byte, whoever else is slow, unless the connection is closed
\* (DroppedOnlyForCause), the process dies or a handler never returns.
ResponsesDelivered ==
  \A c \in Conns :
    []<>(c \notin full) =>
      (total[c] > Len(wire[c]) ~> total[c] = Len(wire[c]) \/ Excused(c))

\* Does the server wait for the end of a request with a trailer?
WaitsForEver(c) ==
  \E f \in Fds : sock[f] = c /\ req[f] # <<>> /\ req[f][1].part = "trailer"

\* A request that was sent whole by a peer that waits for its answers and stays
\* is answered once the connection is accepted, whether or not that peer or
\* another one reads, unless no handler exists for its method, its end is not
\* seen because of a trailer, the process dies or a handler never returns.
RequestsAnswered ==
  \A c \in Conns : \A r \in 1..MaxReq :
    Accepted(c) /\ progress[c] = 2 * r ~>
      \/ Len(answers[c]) >= r
      \/ <<c, r>> \in ignored \/ WaitsForEver(c)
      \/ Excused(c)

\* A connection does not wait in the backlog for ever while there are
\* descriptors, and the accepted ones do not starve it: it is accepted, or all
\* descriptors are taken, the process dies or a handler never returns.
ConnectionsAccepted ==
  \A c \in Conns :
    c \in backlog ~>
      \/ c \notin backlog
      \/ ~running \/ hung \/ \A f \in Fds : sock[f] # NoConn

----------------------------------------------------------------------------
(* What a peer may rely on (ResponseStream).                               *)

Phase(c) == IF Accepted(c) THEN "served"
            ELSE IF Gone(c) THEN "gone" ELSE "none"

Abstract == INSTANCE ResponseStream
              WITH phase <- [c \in Conns |-> Phase(c)], queued <- total,
                   received <- wire, up <- running

\* The server implements the stream of responses, one step of the stream or
\* none for each event it handles.
ImplementsResponseStream == Abstract!Spec
=============================================================================

--------------------------- MODULE EventLoopProofs ---------------------------
(***************************************************************************)
(* Proofs about EventLoop, for any number of connections, descriptors and  *)
(* requests, any response sizes and any capacity of event_list: who owns a *)
(* descriptor, which events are stale and why connections are closed; that *)
(* whatever send() takes each time, a peer receives a gapless prefix of    *)
(* what was queued for it, and the loop implements ResponseStream; that    *)
(* answers keep the order of the requests, and a peer that waits for each  *)
(* answer has every request answered once.                                 *)
(***************************************************************************)
EXTENDS EventLoop, SequenceTheorems, TLAPS

Inv == TypeOK /\ DescriptorOwnership

----------------------------------------------------------------------------
(* What the helpers return.                                                *)

\* The bytes of an item that are sent are positions of the stream.
LEMMA BytesType ==
  ASSUME NEW item \in Item, NEW n \in Nat
  PROVE  /\ Bytes(item, n) \in Seq(Nat \ {0})
         /\ Len(Bytes(item, n)) = n
         /\ \A j \in 1..n : Bytes(item, n)[j] = item.first + item.offset + j - 1
<1>1. \A j \in 1..n : item.first + item.offset + j - 1 \in Nat \ {0}
  BY DEF Item
<1>2. Bytes(item, n) \in [1..n -> Nat \ {0}]
  BY <1>1 DEF Bytes
<1> QED
  BY <1>2, SeqDef DEF Bytes

\* Sending at least one byte of the first item leaves a queue of items.
LEMMA AdvanceType ==
  ASSUME NEW q \in Seq(Item), q # <<>>, NEW n \in Nat
  PROVE  Advance(q, n) \in Seq(Item)
<1>1. 1 \in 1..Len(q) /\ q[1] \in Item
  BY EmptySeq, ElementOfSeq
<1>2. CASE q[1].offset + n >= q[1].size
  BY <1>2, HeadTailProperties DEF Advance
<1>3. CASE ~(q[1].offset + n >= q[1].size)
  <2> DEFINE item == [q[1] EXCEPT !.offset = q[1].offset + n]
  <2>1. item \in Item
    <3>1. q[1].offset + n \in Nat
      BY <1>1 DEF Item
    <3> QED
      BY <1>1, <3>1, Zenon DEF Item
  <2>2. Advance(q, n) = [q EXCEPT ![1] = item]
    BY <1>3 DEF Advance
  <2> QED
    BY <1>1, <2>1, <2>2, ExceptSeq
<1> QED
  BY <1>2, <1>3

\* The request parse() found in some pieces is one of the peer's, or 0.
LEMMA RequestOfType ==
  ASSUME NEW buf \in Seq(Piece), buf # <<>>
  PROVE  RequestOf(buf) \in 0..MaxReq
<1>1. buf[1] \in Piece
  BY EmptySeq, ElementOfSeq
<1> QED
  BY <1>1, EventLoopAssumption DEF RequestOf, Piece

----------------------------------------------------------------------------
(* Each operation keeps the types and the ownership of descriptors.        *)

\* Closing a descriptor, with whatever was sent just before.
LEMMA DisconnectKeepsInv ==
  ASSUME Inv, NEW f \in Fds, sock[f] # NoConn, DisconnectedClient(f),
         UNCHANGED <<peer, progress, backlog, hung, phantom, answers, ignored, total>>,
         running' \in BOOLEAN, event_list' \subseteq Event,
         wire' \in [Conns -> Seq(Nat \ {0})]
  PROVE  Inv'
<1> USE DEF Inv
<1>1. inbox' \in [Conns -> Seq(Piece)]
  BY EmptySeq DEF TypeOK, DisconnectedClient
<1>2. req' \in [Fds -> Seq(Piece)] /\ sendQueue' \in [Fds -> Seq(Item)]
  BY EmptySeq DEF TypeOK, DisconnectedClient
<1>3. /\ sock' \in [Fds -> Conns \cup {NoConn}]
      /\ clientMap' \in [Fds -> Conns \cup {NoConn}]
      /\ watched' \subseteq Fds \X Filters
      /\ full' \subseteq Conns
  BY DEF TypeOK, DisconnectedClient
<1>4. TypeOK'
  BY <1>1, <1>2, <1>3 DEF TypeOK
<1>5. sock' = [sock EXCEPT ![f] = NoConn] /\ clientMap' = sock'
  BY DEF DisconnectedClient, DescriptorOwnership
<1>6. watched' = {g \in Fds : sock'[g] # NoConn} \X Filters
  <2>1. watched = {g \in Fds : sock[g] # NoConn} \X Filters
    BY DEF DescriptorOwnership
  <2>2. watched' = watched \ ({f} \X Filters)
    BY DEF DisconnectedClient
  <2>3. {g \in Fds : sock'[g] # NoConn} = {g \in Fds : sock[g] # NoConn} \ {f}
    BY <1>5 DEF TypeOK
  <2> QED
    BY <2>1, <2>2, <2>3
<1>7. \A g \in Fds :
        IF sock'[g] = NoConn
          THEN req'[g] = <<>> /\ sendQueue'[g] = <<>>
          ELSE sock'[g] \notin backlog' /\ peer'[sock'[g]] # "idle"
  BY <1>5 DEF DisconnectedClient, DescriptorOwnership, TypeOK
<1>8. \A g, h \in Fds : sock'[g] = sock'[h] /\ sock'[g] # NoConn => g = h
  BY <1>5 DEF DescriptorOwnership, TypeOK
<1>9. \A c \in backlog' : peer'[c] # "idle"
  BY DEF DescriptorOwnership
<1> QED
  BY <1>4, <1>5, <1>6, <1>7, <1>8, <1>9 DEF DescriptorOwnership

\* Storing a new Client under a free descriptor.
LEMMA AcceptKeepsInv ==
  ASSUME Inv, AcceptNewClient, event_list' \subseteq Event
  PROVE  Inv'
<1> USE DEF Inv
<1>1. ASSUME NEW c \in backlog, NEW f \in Fds, sock[f] = NoConn,
             backlog' = backlog \ {c}, AddClient(f, c), UNCHANGED phantom
      PROVE  Inv'
  <2>1. c \in Conns /\ c # NoConn
    BY EventLoopAssumption DEF TypeOK
  <2>2. sock' = [sock EXCEPT ![f] = c] /\ clientMap' = sock'
    BY <1>1 DEF AddClient, DescriptorOwnership
  <2>3. UNCHANGED <<req, sendQueue>>
    <3>1. req[f] = <<>> /\ sendQueue[f] = <<>> /\ clientMap[f] = NoConn
      BY <1>1 DEF DescriptorOwnership
    <3>2. /\ req' = [req EXCEPT ![f] = <<>>]
          /\ sendQueue' = [sendQueue EXCEPT ![f] = <<>>]
      BY <1>1, <3>1 DEF AddClient
    <3>3. req' = req
      BY <3>1, <3>2 DEF TypeOK
    <3>4. sendQueue' = sendQueue
      BY <3>1, <3>2 DEF TypeOK
    <3> QED
      BY <3>3, <3>4
  <2>4. UNCHANGED <<peer, progress, inbox, full, running, hung, history>>
    BY DEF AcceptNewClient
  <2>5. watched' = watched \cup ({f} \X Filters)
    BY <1>1 DEF AddClient
  <2>6. TypeOK'
    BY <1>1, <2>1, <2>2, <2>3, <2>4, <2>5 DEF TypeOK, history
  <2>7. watched' = {g \in Fds : sock'[g] # NoConn} \X Filters
    <3>1. watched = {g \in Fds : sock[g] # NoConn} \X Filters
      BY DEF DescriptorOwnership
    <3>2. {g \in Fds : sock'[g] # NoConn} = {g \in Fds : sock[g] # NoConn} \cup {f}
      BY <1>1, <2>1, <2>2 DEF TypeOK
    <3> QED
      BY <2>5, <3>1, <3>2
  <2>8. \A g \in Fds :
          IF sock'[g] = NoConn
            THEN req'[g] = <<>> /\ sendQueue'[g] = <<>>
            ELSE sock'[g] \notin backlog' /\ peer'[sock'[g]] # "idle"
    BY <1>1, <2>1, <2>2, <2>3, <2>4 DEF DescriptorOwnership, TypeOK
  <2>9. \A g, h \in Fds : sock'[g] = sock'[h] /\ sock'[g] # NoConn => g = h
    BY <1>1, <2>1, <2>2 DEF DescriptorOwnership, TypeOK
  <2>10. \A d \in backlog' : peer'[d] # "idle"
    BY <1>1, <2>4 DEF DescriptorOwnership
  <2> QED
    BY <2>2, <2>6, <2>7, <2>8, <2>9, <2>10 DEF DescriptorOwnership
<1>2. ASSUME backlog' \subseteq backlog, AcceptFailed
      PROVE  Inv'
  <2>1. UNCHANGED <<peer, progress, inbox, full, running, hung, history>>
    BY DEF AcceptNewClient
  <2>2. UNCHANGED <<sock, watched, client>> /\ phantom' \in BOOLEAN
    BY <1>2 DEF AcceptFailed
  <2>3. TypeOK'
    BY <1>2, <2>1, <2>2 DEF TypeOK, history, client
  <2>4. DescriptorOwnership'
    BY <1>2, <2>1, <2>2 DEF DescriptorOwnership, client
  <2> QED
    BY <2>3, <2>4
<1> QED
  BY <1>1, <1>2 DEF AcceptNewClient

\* Queueing a response for a descriptor that is open.
LEMMA SendResponseType ==
  ASSUME TypeOK, NEW f \in Fds, clientMap[f] # NoConn, NEW r \in 0..MaxReq,
         NEW size \in Sizes, NEW disconnect \in BOOLEAN,
         SendResponse(f, r, size, disconnect)
  PROVE  /\ sendQueue' \in [Fds -> Seq(Item)]
         /\ total' \in [Conns -> Nat]
         /\ answers' \in [Conns -> Seq(0..MaxReq)]
<1> DEFINE c == clientMap[f]
           item == [first |-> total[c] + 1, size |-> size, offset |-> 0,
                    disconnect |-> disconnect]
<1>1. c \in Conns /\ total[c] \in Nat /\ size \in Nat \ {0}
  BY EventLoopAssumption DEF TypeOK
<1>2. item \in Item
  BY <1>1 DEF Item
<1>3. Append(sendQueue[f], item) \in Seq(Item)
  BY <1>2, AppendProperties DEF TypeOK
<1>4. Append(answers[c], r) \in Seq(0..MaxReq)
  BY <1>1, AppendProperties DEF TypeOK
<1> QED
  BY SMTT(30), <1>1, <1>3, <1>4 DEF SendResponse, TypeOK

\* What parse() and the handler behind it do with the request: they keep it (and
\* may hang or end the process), answer it, or drop it without an answer.
Keeps(f, buf) ==
  /\ req' = [req EXCEPT ![f] = buf]
  /\ running' \in {running, FALSE} /\ hung' \in {hung, TRUE}
  /\ UNCHANGED <<sendQueue, answers, ignored, total>>

Answers(f, buf) ==
  /\ ParseResults(buf) \cap {"BAD_REQUEST", "COMPLETE"} # {}
  /\ req' = [req EXCEPT ![f] = <<>>]
  /\ \E size \in Sizes, close \in BOOLEAN : SendResponse(f, RequestOf(buf), size, close)
  /\ UNCHANGED <<running, hung, ignored>>

Drops(f, buf) ==
  /\ ParseResults(buf) \cap {"BAD_REQUEST", "COMPLETE"} # {}
  /\ req' = [req EXCEPT ![f] = <<>>]
  /\ ignored' = IF RequestOf(buf) = 0 THEN ignored
                                      ELSE ignored \cup {<<clientMap[f], RequestOf(buf)>>}
  /\ UNCHANGED <<running, hung, sendQueue, answers, total>>

LEMMA ParseCases ==
  ASSUME NEW f, NEW buf, Parse(f, buf)
  PROVE  Keeps(f, buf) \/ Answers(f, buf) \/ Drops(f, buf)
<1>1. PICK status \in ParseResults(buf) :
        \/ /\ status = "INCOMPLETE"
           /\ req' = [req EXCEPT ![f] = buf]
           /\ UNCHANGED <<running, hung, sendQueue, answers, ignored, total>>
        \/ /\ status = "BAD_REQUEST"
           /\ \E size \in Sizes : SendResponse(f, RequestOf(buf), size, FALSE)
           /\ req' = [req EXCEPT ![f] = <<>>]
           /\ UNCHANGED <<running, hung, ignored>>
        \/ /\ status = "COMPLETE"
           /\ HandleRequest(f, RequestOf(buf))
           /\ req' = [req EXCEPT ![f] = <<>>]
        \/ (Hang \/ Die) /\ req' = [req EXCEPT ![f] = buf]
  BY Zenon DEF Parse
<1>2. CASE UNCHANGED <<running, hung, sendQueue, answers, ignored, total>>
           /\ req' = [req EXCEPT ![f] = buf]
  BY <1>2 DEF Keeps
<1>3. CASE (Hang \/ Die) /\ req' = [req EXCEPT ![f] = buf]
  BY <1>3 DEF Keeps, Hang, Die
<1>4. ASSUME status \in {"BAD_REQUEST", "COMPLETE"}
      PROVE  ParseResults(buf) \cap {"BAD_REQUEST", "COMPLETE"} # {}
  BY <1>4
<1>5. CASE /\ status = "BAD_REQUEST"
           /\ \E size \in Sizes : SendResponse(f, RequestOf(buf), size, FALSE)
           /\ req' = [req EXCEPT ![f] = <<>>]
           /\ UNCHANGED <<running, hung, ignored>>
  BY <1>4, <1>5, Zenon DEF Answers
<1>6. CASE /\ status = "COMPLETE"
           /\ HandleRequest(f, RequestOf(buf))
           /\ req' = [req EXCEPT ![f] = <<>>]
  BY <1>4, <1>6, Zenon DEF Answers, Drops, HandleRequest
<1> QED
  BY <1>1, <1>2, <1>3, <1>5, <1>6

\* The variables parse() and what follows it may change.
LEMMA ParseType ==
  ASSUME TypeOK, NEW f \in Fds, clientMap[f] # NoConn, NEW buf \in Seq(Piece),
         buf # <<>>, Parse(f, buf)
  PROVE  /\ req' \in [Fds -> Seq(Piece)]
         /\ sendQueue' \in [Fds -> Seq(Item)]
         /\ total' \in [Conns -> Nat]
         /\ answers' \in [Conns -> Seq(0..MaxReq)]
         /\ ignored' \subseteq Conns \X (1..MaxReq)
         /\ running' \in BOOLEAN /\ hung' \in BOOLEAN
         /\ \A g \in Fds \ {f} : req'[g] = req[g] /\ sendQueue'[g] = sendQueue[g]
<1>1. RequestOf(buf) \in 0..MaxReq
  BY RequestOfType
<1>2. CASE Keeps(f, buf)
  BY <1>2 DEF Keeps, TypeOK
<1>3. CASE Answers(f, buf)
  <2>1. PICK size \in Sizes, close \in BOOLEAN : SendResponse(f, RequestOf(buf), size, close)
    BY <1>3 DEF Answers
  <2>2. req' \in [Fds -> Seq(Piece)] /\ \A g \in Fds \ {f} : req'[g] = req[g]
    BY <1>3, EmptySeq DEF Answers, TypeOK
  <2>3. \A g \in Fds \ {f} : sendQueue'[g] = sendQueue[g]
    BY <2>1 DEF SendResponse, TypeOK
  <2>4. /\ ignored' \subseteq Conns \X (1..MaxReq)
        /\ running' \in BOOLEAN /\ hung' \in BOOLEAN
    BY <1>3 DEF Answers, TypeOK
  <2> QED
    BY <1>1, <2>1, <2>2, <2>3, <2>4, SendResponseType
<1>4. CASE Drops(f, buf)
  <2>1. req' \in [Fds -> Seq(Piece)] /\ \A g \in Fds \ {f} : req'[g] = req[g]
    BY <1>4, EmptySeq DEF Drops, TypeOK
  <2>2. ignored' \subseteq Conns \X (1..MaxReq)
    <3>1. RequestOf(buf) # 0 => <<clientMap[f], RequestOf(buf)>> \in Conns \X (1..MaxReq)
      BY <1>1, EventLoopAssumption DEF TypeOK
    <3> QED
      BY <1>4, <3>1 DEF Drops, TypeOK
  <2> QED
    BY <1>4, <2>1, <2>2 DEF Drops, TypeOK
<1> QED
  BY <1>2, <1>3, <1>4, ParseCases

\* A READ event on an open descriptor.
LEMMA ReadKeepsInv ==
  ASSUME Inv, NEW f \in Fds, clientMap[f] # NoConn, ReadClient(f),
         event_list' \subseteq Event
  PROVE  Inv'
<1> USE DEF Inv
<1> DEFINE c == sock[f]
<1>1. c = clientMap[f] /\ c \in Conns /\ c # NoConn
  BY DEF TypeOK, DescriptorOwnership
<1>2. UNCHANGED <<peer, progress, backlog, phantom>>
  BY DEF ReadClient
<1>3. CASE DisconnectedClient(f) /\ UNCHANGED <<running, hung, history>>
  BY <1>1, <1>2, <1>3, DisconnectKeepsInv DEF history, TypeOK
<1>5. CASE Hang /\ UNCHANGED <<inbox, full, sock, watched, clientMap, req, wire>>
  BY <1>2, <1>5 DEF Hang, TypeOK, DescriptorOwnership
<1>4. ASSUME NEW n \in 1..Len(inbox[c]),
             inbox' = [inbox EXCEPT ![c] = SubSeq(@, n + 1, Len(@))],
             Parse(f, req[f] \o SubSeq(inbox[c], 1, n)),
             UNCHANGED <<full, sock, watched, clientMap, wire>>
      PROVE  Inv'
  <2>1. inbox[c] \in Seq(Piece) /\ req[f] \in Seq(Piece) /\ Len(inbox[c]) \in Nat
    BY <1>1, LenProperties DEF TypeOK
  <2>2. \A i \in 1..Len(inbox[c]) : inbox[c][i] \in Piece
    BY <2>1, ElementOfSeq
  <2>3. SubSeq(inbox[c], n + 1, Len(inbox[c])) \in Seq(Piece)
    BY <2>1, <2>2, SubSeqProperties
  <2>4. SubSeq(inbox[c], 1, n) \in Seq(Piece) /\ Len(SubSeq(inbox[c], 1, n)) = n
    BY <2>1, <2>2, SubSeqProperties
  <2> DEFINE buf == req[f] \o SubSeq(inbox[c], 1, n)
  <2>5. buf \in Seq(Piece) /\ Len(buf) = Len(req[f]) + n
    BY <2>1, <2>4, ConcatProperties
  <2>6. buf # <<>>
    BY <2>1, <2>5, EmptySeq, LenProperties
  <2>7. Parse(f, buf)
    BY <1>4
  <2> HIDE DEF buf
  <2>8. /\ req' \in [Fds -> Seq(Piece)]
        /\ sendQueue' \in [Fds -> Seq(Item)]
        /\ total' \in [Conns -> Nat]
        /\ answers' \in [Conns -> Seq(0..MaxReq)]
        /\ ignored' \subseteq Conns \X (1..MaxReq)
        /\ running' \in BOOLEAN /\ hung' \in BOOLEAN
        /\ \A g \in Fds \ {f} : req'[g] = req[g] /\ sendQueue'[g] = sendQueue[g]
    BY <1>1, <2>5, <2>6, <2>7, ParseType
  <2>9. inbox' \in [Conns -> Seq(Piece)]
    BY <1>4, <2>3 DEF TypeOK
  <2>10. TypeOK'
    BY <1>2, <1>4, <2>8, <2>9 DEF TypeOK
  <2>11. DescriptorOwnership'
    BY <1>1, <1>2, <1>4, <2>8 DEF DescriptorOwnership
  <2> QED
    BY <2>10, <2>11
<1> QED
  BY <1>3, <1>4, <1>5 DEF ReadClient

\* A WRITE event on an open descriptor.
LEMMA WriteKeepsInv ==
  ASSUME Inv, NEW f \in Fds, clientMap[f] # NoConn, WriteClient(f),
         event_list' \subseteq Event
  PROVE  Inv'
<1> USE DEF Inv
<1> DEFINE c == sock[f]
           q == sendQueue[f]
           item == Head(q)
<1>1. c \in Conns /\ c # NoConn /\ q \in Seq(Item)
  BY DEF TypeOK, DescriptorOwnership
<1>2. CASE UNCHANGED <<kernel, running, hung, phantom, client, history>>
  BY <1>2 DEF kernel, client, history, TypeOK, DescriptorOwnership
<1>3. ASSUME q # <<>>,
             NEW n \in 1..Lesser(item.size - item.offset, MaxSend),
             wire' = [wire EXCEPT ![c] = @ \o Bytes(item, n)],
             UNCHANGED <<peer, progress, backlog, running, hung, phantom, answers,
                         ignored, total>>,
             IF CloseAfter(item, n)
               THEN DisconnectedClient(f)
               ELSE /\ sendQueue' = [sendQueue EXCEPT ![f] = Advance(@, n)]
                    /\ full' \in {full, full \cup {c}}
                    /\ UNCHANGED <<inbox, sock, watched, clientMap, req>>
      PROVE  Inv'
  <2>1. item \in Item /\ n \in Nat
    BY <1>1, <1>3, HeadTailProperties
  <2>2. wire[c] \o Bytes(item, n) \in Seq(Nat \ {0})
    BY <1>1, <2>1, BytesType, ConcatProperties DEF TypeOK
  <2>3. wire' \in [Conns -> Seq(Nat \ {0})]
    BY <1>3, <2>2 DEF TypeOK
  <2>4. CASE DisconnectedClient(f)
    BY <1>1, <1>3, <2>3, <2>4, DisconnectKeepsInv DEF TypeOK
  <2>5. CASE /\ sendQueue' = [sendQueue EXCEPT ![f] = Advance(@, n)]
             /\ full' \in {full, full \cup {c}}
             /\ UNCHANGED <<inbox, sock, watched, clientMap, req>>
    <3>0. full' \subseteq Conns
      BY <1>1, <2>5 DEF TypeOK
    <3>1. Advance(q, n) \in Seq(Item)
      BY <1>1, <1>3, <2>1, AdvanceType
    <3>2. sendQueue' \in [Fds -> Seq(Item)]
      BY <2>5, <3>1 DEF TypeOK
    <3>3. TypeOK'
      BY <1>3, <2>3, <2>5, <3>0, <3>2 DEF TypeOK
    <3>4. DescriptorOwnership'
      BY <1>1, <1>3, <2>5 DEF DescriptorOwnership, TypeOK
    <3> QED
      BY <3>3, <3>4
  <2> QED
    BY <1>3, <2>4, <2>5
<1>4. CASE /\ DisconnectedClient(f)
           /\ UNCHANGED <<peer, progress, backlog, running, hung, phantom, history>>
  BY <1>1, <1>4, DisconnectKeepsInv DEF history, TypeOK
<1>5. CASE running' = FALSE /\ UNCHANGED <<kernel, hung, phantom, client, history>>
  BY <1>5 DEF kernel, client, history, TypeOK, DescriptorOwnership
<1> QED
  BY <1>2, <1>3, <1>4, <1>5 DEF WriteClient

\* Any event.
LEMMA HandleKeepsInv ==
  ASSUME Inv, Handle
  PROVE  Inv'
<1> USE DEF Inv
<1>1. PICK e \in event_list : event_list' = event_list \ {e} /\ Dispatch(e)
  BY DEF Handle
<1>2. event_list' \subseteq Event
  BY <1>1 DEF TypeOK
<1>3. CASE e.fd = ServSock /\ AcceptNewClient
  BY <1>2, <1>3, AcceptKeepsInv
<1>4. CASE UNCHANGED <<kernel, running, hung, phantom, client, history>>
  BY <1>2, <1>4 DEF kernel, client, history, TypeOK, DescriptorOwnership
<1>5. CASE /\ e.fd \in Fds /\ clientMap[e.fd] # NoConn
           /\ DisconnectedClient(e.fd)
           /\ UNCHANGED <<peer, progress, backlog, running, hung, phantom, history>>
  BY <1>2, <1>5, DisconnectKeepsInv DEF history, TypeOK, DescriptorOwnership
<1>6. CASE e.fd \in Fds /\ clientMap[e.fd] # NoConn /\ ReadClient(e.fd)
  BY <1>2, <1>6, ReadKeepsInv
<1>7. CASE e.fd \in Fds /\ clientMap[e.fd] # NoConn /\ WriteClient(e.fd)
  BY <1>2, <1>7, WriteKeepsInv
<1> QED
  BY <1>1, <1>3, <1>4, <1>5, <1>6, <1>7 DEF Dispatch

\* The events kevent() may return.
LEMMA ActiveType ==
  ASSUME TypeOK, NEW e \in Active
  PROVE  e \in Event
<1>1. CASE e = ListenEvent
  BY <1>1 DEF ListenEvent, Event, Filters
<1>2. ASSUME NEW w \in watched, e = EventOf(w[1], w[2])
      PROVE  e \in Event
  <2>1. w[1] \in Fds /\ w[2] \in Filters /\ sock[w[1]] \in Conns \cup {NoConn}
    BY DEF TypeOK
  <2> QED
    BY <1>2, <2>1 DEF EventOf, Event
<1> QED
  BY <1>1, <1>2 DEF Active

\* What the peers do.
LEMMA PeersKeepInv ==
  ASSUME Inv, Peers
  PROVE  Inv'
<1> USE DEF Inv
<1>1. ASSUME NEW c \in Conns, Connect(c)
      PROVE  Inv'
  <2>1. TypeOK'
    BY <1>1 DEF Connect, TypeOK, client, history
  <2>2. \A f \in Fds : sock[f] # c
    BY <1>1, EventLoopAssumption DEF Connect, DescriptorOwnership
  <2>3. DescriptorOwnership'
    BY <1>1, <2>2, EventLoopAssumption DEF Connect, TypeOK, DescriptorOwnership, client
  <2> QED
    BY <2>1, <2>3
<1>2. ASSUME NEW c \in Conns, NEW part \in Parts, Send(c, part)
      PROVE  Inv'
  <2>1. progress[c] \in 0..(2 * MaxReq) /\ progress[c] < 2 * MaxReq /\ MaxReq \in Nat
    BY <1>2, EventLoopAssumption DEF Send, TypeOK
  <2>2. progress[c] \div 2 + 1 \in 1..MaxReq
    <3>1. PICK p \in Nat : p = progress[c] /\ p < 2 * MaxReq
      BY <2>1
    <3>2. p \div 2 \in Nat /\ 2 * (p \div 2) <= p
      BY <3>1
    <3> QED
      BY <2>1, <3>1, <3>2
  <2>3. [req |-> progress[c] \div 2 + 1, part |-> part] \in Piece
    BY <2>2 DEF Piece
  <2>4. inbox' \in [Conns -> Seq(Piece)]
    BY <1>2, <2>3, AppendProperties DEF Send, TypeOK
  <2>5. progress' \in [Conns -> 0..(2 * MaxReq)]
    <3>1. part = "junk" => progress[c] % 2 = 0
      BY <1>2 DEF Send
    <3>2. progress[c] + (IF part = "junk" THEN 2 ELSE 1) \in 0..(2 * MaxReq)
      BY <2>1, <3>1
    <3> QED
      BY <1>2, <3>2 DEF Send, TypeOK
  <2>6. UNCHANGED <<peer, backlog, full, sock, watched, running, hung, event_list,
                    phantom, client, history>>
    BY <1>2 DEF Send
  <2>7. TypeOK'
    BY <2>4, <2>5, <2>6 DEF TypeOK, client, history
  <2>8. DescriptorOwnership'
    BY <2>6 DEF DescriptorOwnership, client
  <2> QED
    BY <2>7, <2>8
<1>3. ASSUME NEW c \in Conns, NEW how \in {"shut", "reset"}, Leave(c, how)
      PROVE  Inv'
  <2>1. TypeOK'
    BY <1>3 DEF Leave, TypeOK, client, history
  <2>2. DescriptorOwnership'
    BY <1>3 DEF Leave, TypeOK, DescriptorOwnership, client
  <2> QED
    BY <2>1, <2>2
<1>4. ASSUME NEW c \in Conns, Drain(c)
      PROVE  Inv'
  <2>1. TypeOK'
    BY <1>4 DEF Drain, TypeOK, client, history
  <2>2. DescriptorOwnership'
    BY <1>4 DEF Drain, DescriptorOwnership, client
  <2> QED
    BY <2>1, <2>2
<1> QED
  BY <1>1, <1>2, <1>3, <1>4 DEF Peers

LEMMA InitInv == Init => Inv
<1> SUFFICES ASSUME Init PROVE Inv
  OBVIOUS
<1>1. TypeOK
  <2>1. /\ <<>> \in Seq(Piece) /\ <<>> \in Seq(Item)
        /\ <<>> \in Seq(0..MaxReq) /\ <<>> \in Seq(Nat \ {0})
    BY EmptySeq
  <2>2. 0 \in 0..(2 * MaxReq)
    BY EventLoopAssumption
  <2>3. /\ inbox \in [Conns -> Seq(Piece)]
        /\ req \in [Fds -> Seq(Piece)]
        /\ sendQueue \in [Fds -> Seq(Item)]
        /\ answers \in [Conns -> Seq(0..MaxReq)]
        /\ wire \in [Conns -> Seq(Nat \ {0})]
        /\ progress \in [Conns -> 0..(2 * MaxReq)]
    BY <2>1, <2>2, Zenon DEF Init
  <2> QED
    BY <2>3 DEF Init, TypeOK
<1>2. DescriptorOwnership
  BY DEF Init, DescriptorOwnership
<1> QED
  BY <1>1, <1>2 DEF Inv

LEMMA NextInv == Inv /\ [Next]_vars => Inv'
<1> SUFFICES ASSUME Inv, [Next]_vars PROVE Inv'
  OBVIOUS
<1>1. CASE Peers
  BY <1>1, PeersKeepInv
<1>2. CASE Poll
  <2>1. event_list' \subseteq Event
    BY <1>2, ActiveType DEF Poll, Inv
  <2> QED
    BY <1>2, <2>1 DEF Poll, Inv, TypeOK, DescriptorOwnership, kernel, client, history
<1>3. CASE Handle
  BY <1>3, HandleKeepsInv
<1>4. CASE UNCHANGED vars
  BY <1>4 DEF Inv, TypeOK, DescriptorOwnership, vars, kernel, client, history
<1> QED
  BY <1>1, <1>2, <1>3, <1>4 DEF Next

\* In every behaviour every variable has its type, and the descriptors, the
\* registered filters and clientMap agree (run, accept_new_client,
\* disconnected_client).
THEOREM InvHolds == Spec => []Inv
  BY InitInv, NextInv, PTL DEF Spec

THEOREM TypeCorrect == Spec => []TypeOK
  BY InvHolds, PTL DEF Inv

THEOREM OwnershipHolds == Spec => []DescriptorOwnership
  BY InvHolds, PTL DEF Inv

----------------------------------------------------------------------------
(* Pending events: what one says is true of the connection it was reported *)
(* for, and a connection is dropped under its peer only for a stated       *)
(* reason.                                                                 *)

\* Only an accepted connection has a full send buffer.
FullAccepted == \A c \in full : Accepted(c)

EventInv == Inv /\ FullAccepted /\ PendingEventsTrue

\* The part of PendingEventsTrue that is about one event.
EventTrue(e) ==
  /\ e.conn # NoConn
  /\ IF e.conn # sock[e.fd]
       THEN Gone(e.conn)
       ELSE /\ e.eof => peer[e.conn] # "open"
            /\ (e.filter = "READ" /\ ~e.eof) =>
                  inbox[e.conn] # <<>> \/ peer[e.conn] = "reset"
  /\ e.filter = "WRITE" /\ ~e.eof => sock[e.fd] \notin full

----------------------------------------------------------------------------
(* What handling an event can do to the connections.                       *)

\* A handled event closes its own descriptor, or gives a free one to a
\* connection of the backlog, or takes data on a READ event, or fills its own send
\* buffer on a WRITE event; nothing else.
LEMMA HandleFootprint ==
  ASSUME Inv, NEW e \in event_list, Dispatch(e)
  PROVE  /\ peer' = peer
         /\ backlog' \subseteq backlog
         /\ \A f \in Fds : \/ sock'[f] = sock[f]
                           \/ sock'[f] = NoConn
                           \/ sock[f] = NoConn /\ sock'[f] \in backlog
         /\ \A f \in Fds : sock'[f] # sock[f] /\ sock[f] # NoConn => f = e.fd
         /\ \A f \in Fds :
              sock[f] # NoConn /\ sock'[f] = sock[f] /\ inbox'[sock[f]] # inbox[sock[f]]
                => f = e.fd /\ e.filter = "READ" /\ ~e.eof
         /\ \A c \in full' \ full : /\ e.fd \in Fds /\ e.filter = "WRITE"
                                 /\ sock[e.fd] = c /\ sock'[e.fd] = c /\ c # NoConn
         /\ \A f \in Fds : sock'[f] # sock[f] => sock[f] \notin full'
<1> DEFINE Result ==
         /\ peer' = peer
         /\ backlog' \subseteq backlog
         /\ \A f \in Fds : \/ sock'[f] = sock[f]
                           \/ sock'[f] = NoConn
                           \/ sock[f] = NoConn /\ sock'[f] \in backlog
         /\ \A f \in Fds : sock'[f] # sock[f] /\ sock[f] # NoConn => f = e.fd
         /\ \A f \in Fds :
              sock[f] # NoConn /\ sock'[f] = sock[f] /\ inbox'[sock[f]] # inbox[sock[f]]
                => f = e.fd /\ e.filter = "READ" /\ ~e.eof
         /\ \A c \in full' \ full : /\ e.fd \in Fds /\ e.filter = "WRITE"
                                 /\ sock[e.fd] = c /\ sock'[e.fd] = c /\ c # NoConn
         /\ \A f \in Fds : sock'[f] # sock[f] => sock[f] \notin full'
<1> SUFFICES Result
  OBVIOUS
<1> USE DEF Inv
<1>1. ASSUME e.fd \in Fds, clientMap[e.fd] # NoConn,
             DisconnectedClient(e.fd), UNCHANGED <<peer, backlog>>
      PROVE  Result
  <2>1. sock' = [sock EXCEPT ![e.fd] = NoConn]
    BY <1>1 DEF DisconnectedClient
  <2>2. inbox' = [inbox EXCEPT ![sock[e.fd]] = <<>>]
    BY <1>1 DEF DisconnectedClient, DescriptorOwnership
  <2>3. \A f \in Fds : f # e.fd /\ sock[f] # NoConn => sock[f] # sock[e.fd]
    BY <1>1 DEF DescriptorOwnership
  <2>4. full' = full \ {sock[e.fd]}
    BY <1>1 DEF DisconnectedClient
  <2>5. \A f \in Fds : sock'[f] # sock[f] => sock[f] \notin full'
    BY <2>1, <2>4 DEF TypeOK
  <2> QED
    BY <1>1, <2>1, <2>2, <2>3, <2>4, <2>5 DEF TypeOK, DescriptorOwnership
<1>2. CASE UNCHANGED <<kernel, running, hung, phantom, client, history>>
  BY <1>2 DEF kernel
<1>3. CASE AcceptNewClient
  <2>1. UNCHANGED <<peer, inbox, full>> /\ NoConn \notin full
    BY <1>3, EventLoopAssumption DEF AcceptNewClient, TypeOK
  <2>2. ASSUME NEW c \in backlog, NEW f \in Fds, sock[f] = NoConn,
               backlog' = backlog \ {c}, AddClient(f, c)
        PROVE  Result
    <3>1. sock' = [sock EXCEPT ![f] = c]
      BY <2>2 DEF AddClient
    <3> QED
      BY <2>1, <2>2, <3>1 DEF TypeOK
  <2>3. CASE backlog' \subseteq backlog /\ AcceptFailed
    BY <2>1, <2>3 DEF AcceptFailed
  <2> QED
    BY <1>3, <2>2, <2>3 DEF AcceptNewClient
<1>4. ASSUME e.fd \in Fds, clientMap[e.fd] # NoConn, ~e.eof, e.filter = "READ",
             ReadClient(e.fd)
      PROVE  Result
  <2>1. UNCHANGED <<peer, backlog>>
    BY <1>4 DEF ReadClient
  <2>2. CASE DisconnectedClient(e.fd)
    BY <1>1, <1>4, <2>1, <2>2
  <2>3. ASSUME NEW n, UNCHANGED <<full, sock>>,
               inbox' = [inbox EXCEPT ![sock[e.fd]] = SubSeq(@, n + 1, Len(@))]
        PROVE  Result
    <3>1. \A f \in Fds : f # e.fd /\ sock[f] # NoConn => sock[f] # sock[e.fd]
      BY <1>4 DEF DescriptorOwnership
    <3> QED
      BY <1>4, <2>1, <2>3, <3>1 DEF TypeOK, DescriptorOwnership
  <2>4. CASE UNCHANGED <<inbox, full, sock>>
    BY <2>1, <2>4
  <2> QED
    BY <1>4, <2>2, <2>3, <2>4 DEF ReadClient
<1>5. ASSUME e.fd \in Fds, clientMap[e.fd] # NoConn, e.filter = "WRITE",
             WriteClient(e.fd)
      PROVE  Result
  <2>1. UNCHANGED <<peer, backlog>>
    BY <1>5 DEF WriteClient, kernel
  <2>2. CASE DisconnectedClient(e.fd)
    BY <1>1, <1>5, <2>1, <2>2
  <2>3. CASE UNCHANGED <<inbox, sock>> /\ full' \in {full, full \cup {sock[e.fd]}}
    BY <1>5, <2>1, <2>3 DEF DescriptorOwnership
  <2>4. \/ DisconnectedClient(e.fd)
        \/ UNCHANGED <<inbox, sock>> /\ full' \in {full, full \cup {sock[e.fd]}}
    <3> DEFINE item == Head(sendQueue[e.fd])
    <3>1. CASE UNCHANGED kernel
      BY <3>1 DEF kernel
    <3>2. ASSUME NEW n,
                 IF CloseAfter(item, n)
                   THEN DisconnectedClient(e.fd)
                   ELSE /\ full' \in {full, full \cup {sock[e.fd]}}
                        /\ UNCHANGED <<inbox, sock>>
          PROVE  \/ DisconnectedClient(e.fd)
                 \/ UNCHANGED <<inbox, sock>> /\ full' \in {full, full \cup {sock[e.fd]}}
      BY <3>2
    <3> QED
      BY <1>5, <3>1, <3>2 DEF WriteClient, kernel
  <2> QED
    BY <2>2, <2>3, <2>4
<1>6. CASE /\ e.fd \in Fds /\ clientMap[e.fd] # NoConn /\ e.eof
           /\ DisconnectedClient(e.fd)
           /\ UNCHANGED <<peer, progress, backlog, running, hung, phantom, history>>
  BY <1>1, <1>6
<1>7. CASE /\ e.fd \in Fds /\ clientMap[e.fd] # NoConn /\ ~e.eof
           /\ \/ e.filter = "READ" /\ ReadClient(e.fd)
              \/ e.filter = "WRITE" /\ WriteClient(e.fd)
  BY <1>4, <1>5, <1>7
<1> HIDE DEF Result
<1> QED
  BY <1>2, <1>3, <1>6, <1>7 DEF Dispatch

----------------------------------------------------------------------------
(* Pending events stay true.                                               *)

\* A pending event that is not the one handled.
LEMMA HandleKeepsEvent ==
  ASSUME EventInv, NEW e \in event_list, Dispatch(e),
         NEW d \in event_list, d.fd \in Fds, d # e
  PROVE  EventTrue(d)'
<1> USE DEF EventInv, Inv
<1>1. EventTrue(d)
  BY DEF PendingEventsTrue, EventTrue
<1>2. d.conn \in Conns \cup {NoConn} /\ d.eof \in BOOLEAN /\ d.conn # NoConn
  BY <1>1 DEF TypeOK, Event, EventTrue
<1>3. d.fd = e.fd => d.filter # e.filter
  BY DEF PendingEventsTrue
<1>7. d.filter = "WRITE" /\ ~d.eof => sock'[d.fd] \notin full'
  <2> SUFFICES ASSUME d.filter = "WRITE", ~d.eof, sock'[d.fd] \in full' PROVE FALSE
    OBVIOUS
  <2>1. sock[d.fd] \notin full /\ NoConn \notin full
    BY <1>1, EventLoopAssumption DEF EventTrue, TypeOK
  <2>2. CASE sock'[d.fd] \in full
    <3>1. sock[d.fd] = NoConn /\ sock'[d.fd] \in backlog
      BY <2>1, <2>2, HandleFootprint
    <3>2. Accepted(sock'[d.fd])
      BY <2>2 DEF FullAccepted
    <3>3. sock'[d.fd] # NoConn
      BY <2>1, <2>2
    <3> QED
      BY <3>1, <3>2, <3>3 DEF Accepted, DescriptorOwnership
  <2>3. CASE sock'[d.fd] \notin full
    <3>1. /\ e.fd \in Fds /\ e.filter = "WRITE"
          /\ sock[e.fd] = sock'[d.fd] /\ sock'[e.fd] = sock'[d.fd]
      BY <2>3, HandleFootprint
    <3>2. e.fd # d.fd
      BY <1>3, <3>1
    <3>3. sock'[d.fd] # NoConn
      BY <2>3, HandleFootprint
    <3>4. sock[d.fd] # sock'[d.fd] /\ sock'[d.fd] \notin backlog
      BY <3>1, <3>2, <3>3 DEF DescriptorOwnership
    <3> QED
      BY <3>3, <3>4, HandleFootprint
  <2> QED
    BY <2>2, <2>3
<1>4. CASE d.conn # sock[d.fd]
  <2>1. Gone(d.conn)
    BY <1>1, <1>4 DEF EventTrue
  <2>2. \A f \in Fds : sock'[f] # d.conn
    BY <1>2, <2>1, HandleFootprint DEF Gone, Accepted
  <2>3. Gone(d.conn)'
    BY <2>1, <2>2, HandleFootprint DEF Gone, Accepted
  <2> QED
    BY <1>2, <1>7, <2>2, <2>3 DEF EventTrue
<1>5. CASE d.conn = sock[d.fd] /\ sock'[d.fd] = sock[d.fd]
  <2>1. d.filter = "READ" /\ ~d.eof => inbox'[d.conn] = inbox[d.conn]
    BY <1>2, <1>3, <1>5, HandleFootprint
  <2> QED
    BY <1>1, <1>2, <1>5, <1>7, <2>1, HandleFootprint DEF EventTrue
<1>6. CASE d.conn = sock[d.fd] /\ sock'[d.fd] # sock[d.fd]
  <2>1. d.conn \notin backlog /\ peer[d.conn] # "idle"
    BY <1>2, <1>6 DEF DescriptorOwnership
  <2>2. \A f \in Fds : sock'[f] # d.conn
    BY <1>2, <1>6, <2>1, HandleFootprint DEF DescriptorOwnership
  <2>3. Gone(d.conn)'
    BY <2>1, <2>2, HandleFootprint DEF Gone, Accepted
  <2> QED
    BY <1>2, <1>7, <2>2, <2>3 DEF EventTrue
<1> QED
  BY <1>4, <1>5, <1>6

\* What a peer does makes nothing untrue that an event says.
LEMMA PeersKeepEvent ==
  ASSUME EventInv, Peers, NEW d \in event_list, d.fd \in Fds
  PROVE  EventTrue(d)'
<1> USE DEF EventInv, Inv
<1>1. EventTrue(d)
  BY DEF PendingEventsTrue, EventTrue
<1>2. d.conn \in Conns /\ d.eof \in BOOLEAN /\ d.conn # NoConn
  BY <1>1 DEF TypeOK, Event, EventTrue
<1>3. peer[d.conn] # "idle"
  <2>1. CASE d.conn = sock[d.fd]
    BY <1>2, <2>1 DEF DescriptorOwnership
  <2>2. CASE d.conn # sock[d.fd]
    BY <1>1, <2>2 DEF EventTrue, Gone
  <2> QED
    BY <2>1, <2>2
<1>4. ASSUME NEW c \in Conns, Connect(c)
      PROVE  EventTrue(d)'
  <2>1. c # d.conn
    BY <1>3, <1>4 DEF Connect
  <2> QED
    BY <1>1, <1>2, <1>4, <2>1 DEF Connect, EventTrue, Gone, Accepted, TypeOK
<1>5. ASSUME NEW c \in Conns, NEW part \in Parts, Send(c, part)
      PROVE  EventTrue(d)'
  <2> DEFINE piece == [req |-> progress[c] \div 2 + 1, part |-> part]
  <2>1. inbox' = [inbox EXCEPT ![c] = Append(@, piece)]
    BY <1>5 DEF Send
  <2>2. inbox[d.conn] # <<>> => inbox'[d.conn] # <<>>
    <3>1. CASE d.conn = c
      <4>1. inbox'[c] = Append(inbox[c], piece) /\ inbox[c] \in Seq(Piece)
        BY <2>1 DEF TypeOK
      <4>2. Len(inbox'[c]) = Len(inbox[c]) + 1
        BY <4>1
      <4>3. Len(inbox[c]) \in Nat
        BY <4>1, LenProperties
      <4>4. inbox'[c] # <<>>
        BY <4>2, <4>3, EmptySeq
      <4> QED
        BY <3>1, <4>4
    <3>2. CASE d.conn # c
      BY <2>1, <3>2, <1>2 DEF TypeOK
    <3> QED
      BY <3>1, <3>2
  <2> QED
    BY <1>1, <1>5, <2>2 DEF Send, EventTrue, Gone, Accepted
<1>6. ASSUME NEW c \in Conns, NEW how \in {"shut", "reset"}, Leave(c, how)
      PROVE  EventTrue(d)'
  <2>1. UNCHANGED <<backlog, sock, inbox, full>> /\ peer' = [peer EXCEPT ![c] = how]
    BY <1>6 DEF Leave
  <2>2. peer[d.conn] # "open" => peer'[d.conn] # "open"
    BY <2>1, <1>2 DEF TypeOK
  <2>3. peer[d.conn] = "reset" => peer'[d.conn] = "reset"
    BY <1>6, <2>1, <1>2 DEF Leave, TypeOK
  <2>4. peer'[d.conn] # "idle"
    BY <2>1, <1>2, <1>3 DEF TypeOK
  <2> QED
    BY <1>1, <2>1, <2>2, <2>3, <2>4 DEF EventTrue, Gone, Accepted
<1>7. ASSUME NEW c \in Conns, Drain(c)
      PROVE  EventTrue(d)'
  BY <1>1, <1>7 DEF Drain, EventTrue, Gone, Accepted
<1> QED
  BY <1>4, <1>5, <1>6, <1>7 DEF Peers

\* The EV_EOF flag of an event of a descriptor.
LEMMA EventOfEof ==
  ASSUME NEW f, NEW filter
  PROVE  EventOf(f, filter).eof <=>
           peer[sock[f]] = "reset" \/ (filter = "READ" /\ peer[sock[f]] = "shut")
<1> DEFINE eof == peer[sock[f]] = "reset" \/ (filter = "READ" /\ peer[sock[f]] = "shut")
<1>1. EventOf(f, filter) = [fd |-> f, filter |-> filter, conn |-> sock[f], eof |-> eof]
  BY DEF EventOf
<1> HIDE DEF eof
<1>2. EventOf(f, filter).eof = eof
  BY <1>1
<1> QED
  BY <1>2 DEF eof

\* What kevent() has just returned is true.
LEMMA PollEventsTrue ==
  ASSUME EventInv, Poll
  PROVE  PendingEventsTrue'
<1> USE DEF EventInv, Inv
<1>1. event_list' \subseteq Active /\ UNCHANGED <<peer, backlog, inbox, full, sock>>
  BY DEF Poll, kernel
<1>2. ASSUME NEW e \in Active, e.fd \in Fds
      PROVE  /\ e.filter \in Filters
             /\ e = EventOf(e.fd, e.filter)
             /\ Due(e.fd, e.filter)
             /\ sock[e.fd] # NoConn
  <2>1. e # ListenEvent
    BY <1>2, EventLoopAssumption DEF ListenEvent
  <2>2. PICK w \in watched : e = EventOf(w[1], w[2]) /\ Due(w[1], w[2])
    BY <1>2, <2>1 DEF Active
  <2>3. e.fd = w[1] /\ e.filter = w[2]
    BY <2>2 DEF EventOf
  <2>4. w[1] \in Fds /\ w[2] \in Filters /\ sock[w[1]] # NoConn
    BY DEF DescriptorOwnership
  <2> QED
    BY <2>2, <2>3, <2>4
<1>3. ASSUME NEW e \in Active, e.fd \in Fds
      PROVE  EventTrue(e)
  <2>1. e.filter \in Filters /\ e.conn = sock[e.fd] /\ e.conn # NoConn
    BY <1>2, <1>3 DEF EventOf
  <2>2. e.eof <=> (peer[e.conn] = "reset" \/ (e.filter = "READ" /\ peer[e.conn] = "shut"))
    BY <1>2, <1>3, <2>1, EventOfEof
  <2>3. e.filter = "READ" /\ ~e.eof => inbox[e.conn] # <<>> \/ peer[e.conn] = "reset"
    <3> SUFFICES ASSUME e.filter = "READ", ~e.eof PROVE inbox[e.conn] # <<>>
      OBVIOUS
    <3>1. Due(e.fd, "READ") /\ e = EventOf(e.fd, "READ")
      BY <1>2, <1>3
    <3>2. e.conn \in Conns
      BY <1>3, <2>1 DEF TypeOK
    <3>3. peer[e.conn] \in {"idle", "open", "shut", "reset"}
      BY <3>2 DEF TypeOK
    <3>4. peer[e.conn] # "reset" /\ peer[e.conn] # "shut"
      BY <2>2
    <3>5. peer[e.conn] # "idle"
      BY <1>3, <2>1 DEF DescriptorOwnership
    <3> QED
      BY <2>1, <3>1, <3>3, <3>4, <3>5 DEF Due
  <2>4. e.filter = "WRITE" /\ ~e.eof => sock[e.fd] \notin full
    <3>1. Due(e.fd, e.filter)
      BY <1>2, <1>3
    <3> QED
      BY <2>1, <2>2, <3>1 DEF Due
  <2> QED
    BY <2>1, <2>2, <2>3, <2>4 DEF EventTrue
<1>4. \A d, e \in Active : e.fd \in Fds /\ d.fd = e.fd =>
        d.conn = e.conn /\ (d.filter = e.filter => d = e)
  BY <1>2 DEF EventOf
<1>5. \A e \in event_list' : e.fd \in Fds => EventTrue(e)'
  BY <1>1, <1>3 DEF EventTrue, Gone, Accepted
<1> QED
  BY <1>1, <1>4, <1>5 DEF PendingEventsTrue, EventTrue

LEMMA NextFullAccepted == Inv /\ FullAccepted /\ [Next]_vars => FullAccepted'
<1> SUFFICES ASSUME Inv, FullAccepted, [Next]_vars PROVE FullAccepted'
  OBVIOUS
<1>1. CASE Peers
  <2>1. full' \subseteq full /\ sock' = sock
    BY <1>1 DEF Peers, Connect, Send, Leave, Drain
  <2> QED
    BY <2>1 DEF FullAccepted, Accepted
<1>2. CASE Poll \/ UNCHANGED vars
  BY <1>2 DEF Poll, vars, kernel, FullAccepted, Accepted
<1>3. CASE Handle
  <2>1. PICK e \in event_list : Dispatch(e)
    BY <1>3 DEF Handle
  <2> SUFFICES ASSUME NEW c \in full' PROVE \E f \in Fds : sock'[f] = c
    BY DEF FullAccepted, Accepted
  <2>2. CASE c \in full
    <3>1. PICK f \in Fds : sock[f] = c
      BY <2>2 DEF FullAccepted, Accepted
    <3>2. sock'[f] = sock[f]
      BY <2>1, <3>1, HandleFootprint
    <3> QED
      BY <3>1, <3>2
  <2>3. CASE c \notin full
    BY <2>1, <2>3, HandleFootprint
  <2> QED
    BY <2>2, <2>3
<1> QED
  BY <1>1, <1>2, <1>3 DEF Next

LEMMA NextEventInv == EventInv /\ [Next]_vars => EventInv'
<1> SUFFICES ASSUME EventInv, [Next]_vars PROVE PendingEventsTrue'
  BY NextInv, NextFullAccepted DEF EventInv
<1> USE DEF EventInv
<1>1. ASSUME event_list' \subseteq event_list,
             \A e \in event_list' : e.fd \in Fds => EventTrue(e)'
      PROVE  PendingEventsTrue'
  BY <1>1 DEF PendingEventsTrue, EventTrue
<1>2. CASE Peers
  <2>1. event_list' = event_list
    BY <1>2 DEF Peers, Connect, Send, Leave, Drain
  <2> QED
    BY <1>1, <1>2, <2>1, PeersKeepEvent
<1>3. CASE Poll
  BY <1>3, PollEventsTrue
<1>4. CASE Handle
  <2>1. PICK e \in event_list : event_list' = event_list \ {e} /\ Dispatch(e)
    BY <1>4 DEF Handle
  <2> QED
    BY <1>1, <2>1, HandleKeepsEvent
<1>5. CASE UNCHANGED vars
  BY <1>5 DEF PendingEventsTrue, Gone, Accepted, vars, kernel
<1> QED
  BY <1>2, <1>3, <1>4, <1>5 DEF Next

\* In every behaviour, what a pending event of kevent() says is still true of
\* its connection, or that connection is gone (run).
THEOREM PendingEventsHold == Spec => []PendingEventsTrue
<1>1. Init => EventInv
  BY InitInv DEF EventInv, Init, PendingEventsTrue, FullAccepted
<1> QED
  BY <1>1, NextEventInv, PTL DEF Spec, EventInv

----------------------------------------------------------------------------
(* Why connections are dropped.                                            *)

\* The action of DroppedOnlyForCause.
DropHasCause ==
  \A f \in Fds : sock[f] # NoConn /\ sock'[f] # sock[f] /\ peer[sock[f]] = "open" =>
    \/ sendQueue[f] # <<>> /\ sendQueue[f][1].disconnect
    \/ \E e \in event_list \ event_list' : e.fd = f /\ e.conn # sock[f]

LEMMA NextDropHasCause == EventInv /\ [Next]_vars => DropHasCause
<1> SUFFICES ASSUME EventInv, [Next]_vars, NEW f \in Fds, sock[f] # NoConn,
                    sock'[f] # sock[f], peer[sock[f]] = "open"
             PROVE  \/ sendQueue[f] # <<>> /\ sendQueue[f][1].disconnect
                    \/ \E e \in event_list \ event_list' : e.fd = f /\ e.conn # sock[f]
  BY DEF DropHasCause
<1> USE DEF EventInv, Inv
<1>1. Handle
  <2>1. Peers => sock' = sock
    BY DEF Peers, Connect, Send, Leave, Drain
  <2>2. Poll \/ UNCHANGED vars => sock' = sock
    BY DEF Poll, kernel, vars
  <2> QED
    BY <2>1, <2>2 DEF Next
<1>2. PICK e \in event_list : event_list' = event_list \ {e} /\ Dispatch(e)
  BY <1>1 DEF Handle
<1>3. e.fd = f /\ e \in event_list \ event_list'
  BY <1>2, HandleFootprint
<1>4. CASE e.conn # sock[f]
  BY <1>3, <1>4
<1>5. CASE e.conn = sock[f]
  <2>1. EventTrue(e)
    BY <1>3 DEF PendingEventsTrue, EventTrue
  <2>2. ~e.eof
    BY <1>3, <1>5, <2>1 DEF EventTrue
  <2>3. clientMap[f] # NoConn /\ f # ServSock
    BY EventLoopAssumption DEF DescriptorOwnership
  <2>4. \/ e.filter = "READ" /\ ReadClient(f)
        \/ e.filter = "WRITE" /\ WriteClient(f)
    BY <1>2, <1>3, <2>2, <2>3 DEF Dispatch
  <2>5. CASE e.filter = "READ" /\ ReadClient(f)
    <3>1. inbox[sock[f]] # <<>> /\ peer[sock[f]] # "reset"
      BY <1>3, <1>5, <2>1, <2>2, <2>5 DEF EventTrue
    <3>2. sock' = sock
      BY <2>5, <3>1 DEF ReadClient
    <3> QED
      BY <3>2
  <2>6. CASE e.filter = "WRITE" /\ WriteClient(f)
    <3> DEFINE item == Head(sendQueue[f])
    <3>0. sock[f] \notin full /\ peer[sock[f]] # "reset"
      BY <1>3, <2>1, <2>2, <2>6 DEF EventTrue
    <3>1. sendQueue[f] # <<>> /\ \E n : /\ CloseAfter(item, n)
      BY <2>6, <3>0 DEF WriteClient, kernel
    <3>2. item = sendQueue[f][1]
      BY <3>1
    <3> QED
      BY <3>1, <3>2 DEF CloseAfter
  <2> QED
    BY <2>4, <2>5, <2>6
<1> QED
  BY <1>4, <1>5

\* A connection whose peer has not ended is closed only because a response
\* asked for it, or by an event of the descriptor's last owner (run, readClient,
\* writeClient).
THEOREM DropsHaveCause == Spec => DroppedOnlyForCause
<1>1. Init => EventInv
  BY InitInv DEF EventInv, Init, PendingEventsTrue, FullAccepted
<1>2. EventInv /\ [Next]_vars => DropHasCause
  BY NextDropHasCause
<1>3. Spec => [][DropHasCause]_vars
  BY <1>1, <1>2, NextEventInv, PTL DEF Spec
<1> QED
  BY <1>3, PTL DEF DroppedOnlyForCause, DropHasCause

----------------------------------------------------------------------------
(* The queue of one Client.                                                *)

\* The items of q are the bytes that follow the sent ones, up to the queued ones
\* (QueueCoversUnsent), and none ends behind those.
Covers(q, sent, queued) ==
  IF q = <<>>
    THEN sent = queued
    ELSE /\ sent + 1 = q[1].first + q[1].offset
         /\ q[Len(q)].first + q[Len(q)].size = queued + 1
         /\ \A i \in 1..Len(q) :
              q[i].offset < q[i].size /\ q[i].first + q[i].size <= queued + 1
         /\ \A i \in 2..Len(q) :
              q[i].offset = 0 /\ q[i].first = q[i - 1].first + q[i - 1].size

\* A response appended to the queue (sendResponse).
LEMMA CoversAppend ==
  ASSUME NEW q \in Seq(Item), NEW sent \in Nat, NEW queued \in Nat,
         Covers(q, sent, queued), NEW size \in Nat \ {0}, NEW item \in Item,
         item.first = queued + 1, item.size = size, item.offset = 0
  PROVE  Covers(Append(q, item), sent, queued + size)
<1> DEFINE p == Append(q, item)
<1>1. Len(q) \in Nat /\ Len(p) = Len(q) + 1 /\ p[Len(q) + 1] = item
  BY AppendProperties, LenProperties
<1>2. p # <<>>
  BY AppendProperties
<1>3. ASSUME NEW i \in 1..Len(q)
      PROVE  /\ p[i] = q[i] /\ q[i] \in Item
             /\ q[i].first \in Nat /\ q[i].size \in Nat /\ q[i].offset \in Nat
  <2>1. q[i] \in Item /\ p[i] = q[i]
    BY AppendProperties, ElementOfSeq
  <2> QED
    BY <2>1 DEF Item
<1> HIDE DEF p
<1>4. p[Len(p)].first + p[Len(p)].size = queued + size + 1
  BY <1>1
<1>5. CASE q = <<>>
  <2>1. Len(q) = 0 /\ sent = queued
    BY <1>5, EmptySeq DEF Covers
  <2>2. Len(p) = 1 /\ p[1] = item
    BY <1>1, <2>1
  <2> QED
    BY <1>2, <1>4, <2>1, <2>2 DEF Covers, p
<1>6. CASE q # <<>>
  <2>0. Len(q) > 0
    BY <1>1, <1>6, EmptySeq
  <2>1. /\ sent + 1 = q[1].first + q[1].offset
        /\ q[Len(q)].first + q[Len(q)].size = queued + 1
    BY <1>6 DEF Covers
  <2>2. sent + 1 = p[1].first + p[1].offset
    <3>1. 1 \in 1..Len(q)
      BY <1>1, <2>0
    <3> QED
      BY <1>3, <2>1, <3>1
  <2>3. ASSUME NEW i \in 1..Len(p)
        PROVE  p[i].offset < p[i].size /\ p[i].first + p[i].size <= queued + size + 1
    <3>1. CASE i = Len(q) + 1
      BY <1>1, <3>1
    <3>2. CASE i \in 1..Len(q)
      <4>1. q[i].offset < q[i].size /\ q[i].first + q[i].size <= queued + 1
        BY <1>6, <3>2 DEF Covers
      <4>2. /\ p[i].offset = q[i].offset /\ p[i].size = q[i].size /\ p[i].first = q[i].first
            /\ q[i].size \in Nat /\ q[i].first \in Nat
        BY <1>3, <3>2
      <4> QED
        BY <4>1, <4>2, SMTT(30)
    <3> QED
      BY <1>1, <3>1, <3>2
  <2>4. ASSUME NEW i \in 2..Len(p)
        PROVE  p[i].offset = 0 /\ p[i].first = p[i - 1].first + p[i - 1].size
    <3>0. i - 1 \in 1..Len(q) /\ p[i - 1] = q[i - 1]
      BY <1>1, <1>3
    <3>1. CASE i = Len(q) + 1
      BY <1>1, <2>1, <3>0, <3>1
    <3>2. CASE i \in 2..Len(q)
      <4>1. q[i].offset = 0 /\ q[i].first = q[i - 1].first + q[i - 1].size
        BY <1>6, <3>2 DEF Covers
      <4>2. p[i] = q[i]
        BY <1>3, <3>2
      <4> QED
        BY <3>0, <4>1, <4>2
    <3> QED
      BY <1>1, <3>1, <3>2
  <2> QED
    BY <1>2, <1>4, <2>2, <2>3, <2>4 DEF Covers, p
<1> QED
  BY <1>5, <1>6

\* What the first item has left was queued.
LEMMA CoversFirst ==
  ASSUME NEW q \in Seq(Item), q # <<>>, NEW sent \in Nat, NEW queued \in Nat,
         Covers(q, sent, queued), NEW n \in Nat, n <= q[1].size - q[1].offset
  PROVE  sent + n <= queued
<1>1. 1 \in 1..Len(q) /\ q[1] \in Item
  BY EmptySeq, LenProperties, ElementOfSeq
<1>2. sent + 1 = q[1].first + q[1].offset /\ q[1].first + q[1].size <= queued + 1
  BY <1>1 DEF Covers
<1> QED
  BY SMTT(30), <1>1, <1>2 DEF Item

\* The position behind n more bytes.
LEMMA SentMore ==
  ASSUME NEW first \in Nat, NEW offset \in Nat, NEW sent \in Nat, NEW n \in Nat \ {0},
         sent + 1 = first + offset
  PROVE  sent + n + 1 = first + (offset + n)
OBVIOUS

\* n bytes of the first item sent (writeClient).
LEMMA CoversAdvance ==
  ASSUME NEW q \in Seq(Item), q # <<>>, NEW sent \in Nat, NEW queued \in Nat,
         Covers(q, sent, queued), NEW n \in Nat \ {0}, n <= q[1].size - q[1].offset
  PROVE  Covers(Advance(q, n), sent + n, queued)
<1>1. Len(q) \in Nat /\ Len(q) >= 1
  BY EmptySeq, LenProperties
<1>2. ASSUME NEW i \in 1..Len(q)
      PROVE  /\ q[i].first \in Nat /\ q[i].size \in Nat /\ q[i].offset \in Nat
             /\ q[i].offset < q[i].size /\ q[i].first + q[i].size <= queued + 1
  <2>1. q[i] \in Item
    BY ElementOfSeq
  <2> QED
    BY <2>1 DEF Covers, Item
<1>3. ASSUME NEW i \in 2..Len(q)
      PROVE  q[i].offset = 0 /\ q[i].first = q[i - 1].first + q[i - 1].size
  BY DEF Covers
<1>4. sent + 1 = q[1].first + q[1].offset
  BY DEF Covers
<1>5. q[Len(q)].first + q[Len(q)].size = queued + 1
  BY DEF Covers
<1>6. q[1] \in Item /\ q[1].first \in Nat /\ q[1].size \in Nat /\ q[1].offset \in Nat
  <2>1. 1 \in 1..Len(q)
    BY <1>1
  <2> QED
    BY <1>2, <2>1, ElementOfSeq
<1>7. CASE q[1].offset + n >= q[1].size
  <2> DEFINE p == Tail(q)
  <2>1. Advance(q, n) = p /\ p \in Seq(Item) /\ Len(p) = Len(q) - 1
    BY <1>7, HeadTailProperties DEF Advance
  <2>2. ASSUME NEW i \in 1..Len(p)
        PROVE  p[i] = q[i + 1] /\ i + 1 \in 2..Len(q)
    BY <1>1, <2>1, HeadTailProperties
  <2>3. q[1].offset + n = q[1].size
    BY <1>6, <1>7
  <2> HIDE DEF p
  <2>4. CASE Len(q) = 1
    <3>1. p = <<>>
      BY <2>1, <2>4, EmptySeq
    <3>2. sent + n = queued
      BY <1>4, <1>5, <1>6, <2>3, <2>4
    <3> QED
      BY <2>1, <3>1, <3>2 DEF Covers
  <2>5. CASE Len(q) # 1
    <3>1. p # <<>>
      BY <2>1, <2>5, EmptySeq
    <3>2. sent + n + 1 = p[1].first + p[1].offset
      <4>1. 1 \in 1..Len(p) /\ 2 \in 2..Len(q)
        BY <1>1, <2>1, <2>5
      <4>2. p[1] = q[2] /\ q[2].offset = 0 /\ q[2].first = q[1].first + q[1].size
        BY <4>1, <2>2, <1>3
      <4> QED
        <5>1. p[1].first \in Nat /\ p[1].offset = 0 /\ p[1].first = q[1].first + q[1].size
          BY <1>6, <4>2, SMTT(30)
        <5>2. p[1].first + p[1].offset = q[1].first + (q[1].offset + n)
          BY <1>6, <2>3, <5>1
        <5> QED
          BY <1>4, <1>6, <5>2, SentMore
    <3>3. p[Len(p)].first + p[Len(p)].size = queued + 1
      <4>1. Len(p) \in 1..Len(p) /\ Len(p) + 1 = Len(q)
        BY <1>1, <2>1, <2>5
      <4> QED
        BY <1>5, <2>2, <4>1
    <3>4. ASSUME NEW i \in 1..Len(p)
          PROVE  p[i].offset < p[i].size /\ p[i].first + p[i].size <= queued + 1
      <4>1. p[i] = q[i + 1] /\ i + 1 \in 1..Len(q)
        BY <2>2
      <4> QED
        BY <1>2, <4>1
    <3>5. ASSUME NEW i \in 2..Len(p)
          PROVE  p[i].offset = 0 /\ p[i].first = p[i - 1].first + p[i - 1].size
      <4>1. i \in 1..Len(p) /\ i - 1 \in 1..Len(p) /\ (i - 1) + 1 = i /\ (i + 1) - 1 = i
        OBVIOUS
      <4>2. p[i] = q[i + 1] /\ p[i - 1] = q[i] /\ i + 1 \in 2..Len(q)
        <5>1. p[i - 1] = q[(i - 1) + 1]
          BY <2>2, <4>1
        <5> QED
          BY <2>2, <4>1, <5>1
      <4> QED
        BY <1>3, <4>1, <4>2
    <3> QED
      BY <2>1, <3>1, <3>2, <3>3, <3>4, <3>5 DEF Covers
  <2> QED
    BY <2>4, <2>5
<1>8. CASE ~(q[1].offset + n >= q[1].size)
  <2> DEFINE p == Advance(q, n)
             item == [q[1] EXCEPT !.offset = q[1].offset + n]
  <2>0. p = [q EXCEPT ![1] = item]
    BY <1>8 DEF Advance
  <2>1. p \in Seq(Item)
    BY AdvanceType
  <2>2. item.first = q[1].first /\ item.size = q[1].size /\ item.offset = q[1].offset + n
    BY <1>6 DEF Item
  <2> HIDE DEF item
  <2>3. Len(p) = Len(q) /\ p[1] = item /\ \A i \in 2..Len(q) : p[i] = q[i]
    BY <1>1, <2>0, <2>1, LenProperties
  <2> HIDE DEF p
  <2>4. p # <<>>
    BY <1>1, <2>1, <2>3, EmptySeq
  <2>5. ASSUME NEW i \in 1..Len(q)
        PROVE  /\ p[i].first = q[i].first /\ p[i].size = q[i].size
               /\ i >= 2 => p[i].offset = q[i].offset
    <3>1. i = 1 \/ i \in 2..Len(q)
      OBVIOUS
    <3> QED
      BY <2>2, <2>3, <3>1
  <2>6. sent + n + 1 = p[1].first + p[1].offset
    <3>1. p[1].first = q[1].first /\ p[1].offset = q[1].offset + n
      BY <2>2, <2>3
    <3>2. sent + n + 1 = q[1].first + (q[1].offset + n)
      <4> DEFINE first  == q[1].first
                 offset == q[1].offset
      <4>1. first \in Nat /\ offset \in Nat /\ sent + 1 = first + offset
        BY <1>4, <1>6
      <4> HIDE DEF first, offset
      <4>2. sent + n + 1 = first + (offset + n)
        BY <4>1, SentMore
      <4> QED
        BY <4>2 DEF first, offset
    <3> QED
      BY <3>1, <3>2, Zenon
  <2>7. p[Len(p)].first + p[Len(p)].size = queued + 1
    <3>1. Len(q) \in 1..Len(q)
      BY <1>1
    <3> QED
      BY <1>5, <2>3, <2>5, <3>1
  <2>8. ASSUME NEW i \in 1..Len(p)
        PROVE  p[i].offset < p[i].size /\ p[i].first + p[i].size <= queued + 1
    <3>1. i \in 1..Len(q)
      BY <2>3
    <3>2. CASE i = 1
      BY <1>2, <1>6, <1>8, <2>2, <2>3, <3>1, <3>2, SMTT(30)
    <3>3. CASE i >= 2
      BY <1>2, <2>5, <3>1, <3>3
    <3> QED
      BY <3>2, <3>3
  <2>9. ASSUME NEW i \in 2..Len(p)
        PROVE  p[i].offset = 0 /\ p[i].first = p[i - 1].first + p[i - 1].size
    <3>1. i \in 1..Len(q) /\ i - 1 \in 1..Len(q) /\ i \in 2..Len(q) /\ i >= 2
      BY <2>3
    <3> QED
      BY <1>3, <2>5, <3>1
  <2> QED
    BY <2>4, <2>6, <2>7, <2>8, <2>9 DEF Covers, p
<1> QED
  BY <1>7, <1>8

----------------------------------------------------------------------------
(* What a step does to the connections and their responses.                *)

\* The server has not accepted c.
Waiting(c) == peer[c] = "idle" \/ c \in backlog

SameWaiting == \A c \in Conns : Waiting(c)' <=> Waiting(c)

\* Nothing; c is given the descriptor f, or given up; the descriptor f is closed;
\* a response is queued on f; bytes are sent on f, and it may be closed behind them.
Quiet == SameWaiting /\ UNCHANGED <<sock, sendQueue, total, wire>>

Opens(c, f) ==
  /\ Waiting(c) /\ ~Waiting(c)' /\ \A d \in Conns \ {c} : Waiting(d)' <=> Waiting(d)
  /\ sock[f] = NoConn /\ sock' = [sock EXCEPT ![f] = c]
  /\ UNCHANGED <<sendQueue, total, wire>>

GivesUp(c) ==
  /\ Waiting(c) /\ ~Waiting(c)' /\ \A d \in Conns \ {c} : Waiting(d)' <=> Waiting(d)
  /\ UNCHANGED <<sock, sendQueue, total, wire>>

Closes(f) ==
  /\ sock' = [sock EXCEPT ![f] = NoConn]
  /\ sendQueue' = [sendQueue EXCEPT ![f] = <<>>]

Responds(f) ==
  /\ SameWaiting /\ UNCHANGED <<sock, wire>>
  /\ \E size \in Sizes, disconnect \in BOOLEAN :
       /\ sendQueue' = [sendQueue EXCEPT ![f] =
            Append(@, [first |-> total[sock[f]] + 1, size |-> size, offset |-> 0,
                       disconnect |-> disconnect])]
       /\ total' = [total EXCEPT ![sock[f]] = @ + size]

Transmits(f) ==
  /\ SameWaiting /\ UNCHANGED total /\ sendQueue[f] # <<>>
  /\ LET item == sendQueue[f][1] IN
     \E n \in 1..MaxSend :
       /\ n <= item.size - item.offset
       /\ wire' = [wire EXCEPT ![sock[f]] = @ \o Bytes(item, n)]
       /\ \/ Closes(f)
          \/ UNCHANGED sock /\ sendQueue' = [sendQueue EXCEPT ![f] = Advance(@, n)]

\* What a step may do on a descriptor that is open.
OnDescriptor(f) ==
  \/ SameWaiting /\ Closes(f) /\ UNCHANGED <<total, wire>>
  \/ Responds(f)
  \/ Transmits(f)

StreamStep ==
  \/ Quiet /\ (running' = running \/ running)
  \/ /\ running /\ running'
     /\ \/ \E c \in Conns, f \in Fds : Opens(c, f)
        \/ \E c \in Conns : GivesUp(c)
        \/ \E f \in Fds : sock[f] # NoConn /\ OnDescriptor(f)

LEMMA ReadIsStreamStep ==
  ASSUME Inv, NEW f \in Fds, clientMap[f] # NoConn, ReadClient(f)
  PROVE  Quiet \/ (running' = running /\ OnDescriptor(f))
<1> DEFINE c == sock[f]
<1>1. SameWaiting /\ clientMap[f] = c
  BY DEF ReadClient, SameWaiting, Waiting, Inv, DescriptorOwnership
<1>2. CASE DisconnectedClient(f) /\ UNCHANGED <<running, history>>
  BY <1>1, <1>2 DEF DisconnectedClient, history, Closes, OnDescriptor
<1>3. CASE Hang /\ UNCHANGED <<sock, wire>>
  BY <1>1, <1>3 DEF Hang, Quiet
<1>4. ASSUME NEW buf, Parse(f, buf), UNCHANGED <<sock, wire>>
      PROVE  Quiet \/ (running' = running /\ OnDescriptor(f))
  <2>1. CASE Keeps(f, buf) \/ Drops(f, buf)
    BY <1>1, <1>4, <2>1 DEF Quiet, Keeps, Drops
  <2>2. CASE Answers(f, buf)
    <3>1. PICK size \in Sizes, close \in BOOLEAN : SendResponse(f, RequestOf(buf), size, close)
      BY <2>2 DEF Answers
    <3>2. Responds(f)
      BY <1>1, <1>4, <3>1 DEF SendResponse, Responds
    <3> QED
      BY <2>2, <3>2 DEF Answers, OnDescriptor
  <2> QED
    BY <1>4, <2>1, <2>2, ParseCases
<1> QED
  BY <1>2, <1>3, <1>4 DEF ReadClient

LEMMA WriteIsStreamStep ==
  ASSUME Inv, NEW f \in Fds, clientMap[f] # NoConn, WriteClient(f)
  PROVE  Quiet \/ (running' = running /\ OnDescriptor(f))
<1>1. SameWaiting
  BY DEF WriteClient, kernel, SameWaiting, Waiting
<1>2. CASE UNCHANGED <<kernel, client, history>>
  BY <1>1, <1>2 DEF kernel, client, history, Quiet
<1>3. CASE DisconnectedClient(f) /\ UNCHANGED <<running, history>>
  BY <1>1, <1>3 DEF DisconnectedClient, history, Closes, OnDescriptor
<1>4. ASSUME sendQueue[f] # <<>>,
             NEW n \in 1..Lesser(Head(sendQueue[f]).size - Head(sendQueue[f]).offset, MaxSend),
             wire' = [wire EXCEPT ![sock[f]] = @ \o Bytes(Head(sendQueue[f]), n)],
             UNCHANGED <<running, total>>,
             IF CloseAfter(Head(sendQueue[f]), n)
               THEN DisconnectedClient(f)
               ELSE /\ sendQueue' = [sendQueue EXCEPT ![f] = Advance(@, n)]
                    /\ UNCHANGED sock
      PROVE  Transmits(f)
  <2> DEFINE item == sendQueue[f][1]
  <2>1. sendQueue[f] \in Seq(Item) /\ Head(sendQueue[f]) = item
    BY <1>4 DEF Inv, TypeOK
  <2>2. item.size \in Nat /\ item.offset \in Nat /\ MaxSend \in Nat
    <3>1. item \in Item
      BY <1>4, <2>1, HeadTailProperties
    <3> QED
      BY <3>1, EventLoopAssumption DEF Item
  <2>3. n \in 1..MaxSend /\ n <= item.size - item.offset
    BY <1>4, <2>1, <2>2 DEF Lesser
  <2>4. \/ Closes(f)
        \/ UNCHANGED sock /\ sendQueue' = [sendQueue EXCEPT ![f] = Advance(@, n)]
    <3>1. DisconnectedClient(f) => Closes(f)
      BY DEF DisconnectedClient, Closes
    <3> QED
      BY <1>4, <3>1
  <2> QED
    BY <1>1, <1>4, <2>1, <2>3, <2>4 DEF Transmits
<1> QED
  BY <1>2, <1>3, <1>4 DEF WriteClient, OnDescriptor

LEMMA AcceptIsStreamStep ==
  ASSUME Inv, AcceptNewClient
  PROVE  \/ Quiet
         \/ \E c \in Conns, f \in Fds : Opens(c, f)
         \/ \E c \in Conns : GivesUp(c)
<1>1. backlog \subseteq Conns /\ \A c \in backlog : peer[c] # "idle"
  BY DEF Inv, TypeOK, DescriptorOwnership
<1>2. UNCHANGED <<peer, total, wire>>
  BY DEF AcceptNewClient, history
<1>3. ASSUME NEW c \in backlog, NEW f \in Fds, sock[f] = NoConn,
             backlog' = backlog \ {c}, AddClient(f, c)
      PROVE  Opens(c, f)
  <2>1. clientMap[f] = NoConn /\ sendQueue[f] = <<>>
    BY <1>3 DEF Inv, DescriptorOwnership
  <2>2. sendQueue' = sendQueue
    BY ZenonT(40), <1>3, <2>1 DEF AddClient, Inv, TypeOK
  <2> QED
    BY <1>1, <1>2, <1>3, <2>2 DEF AddClient, Opens, Waiting
<1>4. ASSUME NEW c \in backlog, backlog' = backlog \ {c}, AcceptFailed
      PROVE  GivesUp(c)
  BY <1>1, <1>2, <1>4 DEF AcceptFailed, client, GivesUp, Waiting
<1>5. CASE backlog' = backlog /\ AcceptFailed
  BY <1>2, <1>5 DEF AcceptFailed, client, Quiet, SameWaiting, Waiting
<1> QED
  BY <1>1, <1>3, <1>4, <1>5 DEF AcceptNewClient

LEMMA NextIsStreamStep ==
  ASSUME Inv, [Next]_vars
  PROVE  StreamStep
<1>1. CASE Peers
  <2>1. UNCHANGED <<sock, running, sendQueue, total, wire>>
    BY <1>1 DEF Peers, Connect, Send, Leave, Drain, client, history
  <2>2. SameWaiting
    <3>1. ASSUME NEW c \in Conns, Connect(c)
          PROVE  SameWaiting
      BY <3>1 DEF Connect, SameWaiting, Waiting, Inv, TypeOK
    <3>2. ASSUME NEW c \in Conns, NEW part \in Parts, Send(c, part)
          PROVE  SameWaiting
      BY <3>2 DEF Send, SameWaiting, Waiting
    <3>3. ASSUME NEW c \in Conns, NEW how \in {"shut", "reset"}, Leave(c, how)
          PROVE  SameWaiting
      BY <3>3 DEF Leave, SameWaiting, Waiting, Inv, TypeOK
    <3>4. ASSUME NEW c \in Conns, Drain(c)
          PROVE  SameWaiting
      BY <3>4 DEF Drain, SameWaiting, Waiting
    <3> QED
      BY <1>1, <3>1, <3>2, <3>3, <3>4 DEF Peers
  <2> QED
    BY <2>1, <2>2 DEF StreamStep, Quiet
<1>2. CASE Poll \/ UNCHANGED vars
  BY <1>2 DEF Poll, vars, kernel, client, history, StreamStep, Quiet, SameWaiting, Waiting
<1>3. CASE Handle
  <2>1. running
    BY <1>3 DEF Handle
  <2>2. PICK e \in event_list : Dispatch(e)
    BY <1>3 DEF Handle
  <2>3. CASE AcceptNewClient
    <3>1. running' = running
      BY <2>3 DEF AcceptNewClient
    <3> QED
      BY <2>1, <2>3, <3>1, AcceptIsStreamStep DEF StreamStep
  <2>4. CASE UNCHANGED <<kernel, running, hung, phantom, client, history>>
    BY <2>1, <2>4 DEF kernel, client, history, StreamStep, Quiet, SameWaiting, Waiting
  <2>5. CASE /\ e.fd \in Fds /\ clientMap[e.fd] # NoConn /\ DisconnectedClient(e.fd)
             /\ UNCHANGED <<peer, progress, backlog, running, hung, phantom, history>>
    <3>1. SameWaiting /\ UNCHANGED <<total, wire, running>> /\ Closes(e.fd)
      BY <2>5 DEF history, SameWaiting, Waiting, DisconnectedClient, Closes
    <3>2. sock[e.fd] # NoConn
      BY <2>5 DEF Inv, DescriptorOwnership
    <3> QED
      BY <2>1, <2>5, <3>1, <3>2 DEF StreamStep, OnDescriptor
  <2>6. CASE e.fd \in Fds /\ clientMap[e.fd] # NoConn /\ ReadClient(e.fd)
    <3>1. sock[e.fd] # NoConn
      BY <2>6 DEF Inv, DescriptorOwnership
    <3> QED
      BY <2>1, <2>6, <3>1, ReadIsStreamStep DEF StreamStep
  <2>7. CASE e.fd \in Fds /\ clientMap[e.fd] # NoConn /\ WriteClient(e.fd)
    <3>1. sock[e.fd] # NoConn
      BY <2>7 DEF Inv, DescriptorOwnership
    <3> QED
      BY <2>1, <2>7, <3>1, WriteIsStreamStep DEF StreamStep
  <2> QED
    BY <2>2, <2>3, <2>4, <2>5, <2>6, <2>7 DEF Dispatch
<1> QED
  BY <1>1, <1>2, <1>3 DEF Next

----------------------------------------------------------------------------
(* The invariant.                                                          *)

QueuesCover == \A f \in Fds : sock[f] # NoConn =>
                 Covers(sendQueue[f], Len(wire[sock[f]]), total[sock[f]])

\* A connection that is not accepted has no response.
NewUnserved == \A c \in Conns : Waiting(c) => wire[c] = <<>> /\ total[c] = 0

StreamInv == QueuesCover /\ WireInOrder /\ NewUnserved

\* The stream so far has no gap.
Gapless(w) == \A i \in 1..Len(w) : w[i] = i

\* The bytes sent next are the ones that follow.
LEMMA WireGrows ==
  ASSUME NEW w \in Seq(Nat \ {0}), Gapless(w), NEW item \in Item,
         NEW n \in Nat, Len(w) + 1 = item.first + item.offset
  PROVE  /\ Bytes(item, n) = [j \in 1..n |-> Len(w) + j]
         /\ Len(w \o Bytes(item, n)) = Len(w) + n
         /\ Gapless(w \o Bytes(item, n))
<1>1. Len(w) \in Nat /\ item.first \in Nat /\ item.offset \in Nat
  BY LenProperties DEF Item
<1>2. Bytes(item, n) = [j \in 1..n |-> Len(w) + j]
  <2>1. \A j \in 1..n : item.first + item.offset + j - 1 = Len(w) + j
    BY <1>1
  <2> QED
    BY <2>1 DEF Bytes
<1>3. Bytes(item, n) \in Seq(Nat \ {0}) /\ Len(Bytes(item, n)) = n
  BY BytesType
<1>4. Len(w \o Bytes(item, n)) = Len(w) + n
  BY <1>3, ConcatProperties
<1>5. ASSUME NEW i \in 1..Len(w) + n
      PROVE  (w \o Bytes(item, n))[i] = i
  <2>1. (w \o Bytes(item, n))[i] = IF i <= Len(w) THEN w[i] ELSE Bytes(item, n)[i - Len(w)]
    BY <1>1, <1>3, ConcatProperties
  <2>2. CASE i <= Len(w)
    <3>1. w[i] = i
      BY <1>1, <2>2 DEF Gapless
    <3> QED
      BY <2>1, <2>2, <3>1
  <2>3. CASE ~(i <= Len(w))
    <3>1. i - Len(w) \in 1..n /\ Len(w) + (i - Len(w)) = i
      BY <1>1, <2>3
    <3> QED
      BY <1>2, <2>1, <2>3, <3>1
  <2> QED
    BY <2>2, <2>3
<1> QED
  BY <1>2, <1>4, <1>5 DEF Gapless

LEMMA InitStream == Init => StreamInv
<1> SUFFICES ASSUME Init PROVE StreamInv
  OBVIOUS
<1>1. Len(<<>>) = 0
  BY EmptySeq
<1> QED
  BY <1>1 DEF Init, StreamInv, QueuesCover, WireInOrder, NewUnserved

\* The connection behind a descriptor that is open is its own and was accepted.
LEMMA OpenDescriptor ==
  ASSUME Inv, NEW f \in Fds, sock[f] # NoConn
  PROVE  /\ sock[f] \in Conns /\ ~Waiting(sock[f])
         /\ \A g \in Fds \ {f} : sock[g] # sock[f]
         /\ sendQueue[f] \in Seq(Item) /\ total[sock[f]] \in Nat
         /\ wire[sock[f]] \in Seq(Nat \ {0}) /\ Len(wire[sock[f]]) \in Nat
<1>1. sock[f] \in Conns
  BY DEF Inv, TypeOK
<1> QED
  BY <1>1, LenProperties DEF Inv, TypeOK, DescriptorOwnership, Waiting

LEMMA ClosesKeepsStream ==
  ASSUME Inv, StreamInv, NEW f \in Fds, sock[f] # NoConn, SameWaiting, Closes(f),
         UNCHANGED <<total, wire>>
  PROVE  StreamInv'
<1>1. QueuesCover'
  BY DEF StreamInv, QueuesCover, Closes, Inv, TypeOK
<1> QED
  BY <1>1 DEF StreamInv, WireInOrder, NewUnserved, SameWaiting

LEMMA RespondsKeepsStream ==
  ASSUME Inv, StreamInv, NEW f \in Fds, sock[f] # NoConn, Responds(f)
  PROVE  StreamInv'
<1> DEFINE c == sock[f]
<1>1. PICK size \in Sizes, disconnect \in BOOLEAN :
        /\ sendQueue' = [sendQueue EXCEPT ![f] =
             Append(@, [first |-> total[c] + 1, size |-> size, offset |-> 0,
                        disconnect |-> disconnect])]
        /\ total' = [total EXCEPT ![c] = @ + size]
  BY DEF Responds
<1>2. SameWaiting /\ UNCHANGED <<sock, wire>>
  BY DEF Responds
<1> DEFINE item == [first |-> total[c] + 1, size |-> size, offset |-> 0,
                    disconnect |-> disconnect]
<1>3. size \in Nat \ {0} /\ total[c] \in Nat /\ item \in Item
  BY OpenDescriptor, EventLoopAssumption DEF Item
<1>4. total'[c] = total[c] + size /\ sendQueue'[f] = Append(sendQueue[f], item)
  BY <1>1, OpenDescriptor DEF Inv, TypeOK
<1>5. Covers(Append(sendQueue[f], item), Len(wire[c]), total[c] + size)
  <2>1. Covers(sendQueue[f], Len(wire[c]), total[c])
    BY DEF StreamInv, QueuesCover
  <2>2. item.first = total[c] + 1 /\ item.size = size /\ item.offset = 0
    OBVIOUS
  <2> HIDE DEF item
  <2> QED
    BY <1>3, <2>1, <2>2, OpenDescriptor, CoversAppend
<1>6. QueuesCover'
  <2> SUFFICES ASSUME NEW g \in Fds, sock'[g] # NoConn
               PROVE  Covers(sendQueue'[g], Len(wire'[sock'[g]]), total'[sock'[g]])
    BY DEF QueuesCover
  <2>1. CASE g = f
    BY <1>2, <1>4, <1>5, <2>1
  <2>2. CASE g # f
    <3>1. sock[g] # c /\ sock[g] \in Conns /\ sock'[g] = sock[g]
      BY <1>2, <2>2, OpenDescriptor
    <3>2. sendQueue'[g] = sendQueue[g] /\ total'[sock[g]] = total[sock[g]]
      BY <1>1, <2>2, <3>1 DEF Inv, TypeOK
    <3> QED
      BY <1>2, <3>1, <3>2 DEF StreamInv, QueuesCover
  <2> QED
    BY <2>1, <2>2
<1>7. WireInOrder'
  <2>1. \A d \in Conns : total[d] \in Nat /\ total'[d] \in Nat /\ total[d] <= total'[d]
    BY <1>1, <1>3, SMTT(30) DEF Inv, TypeOK
  <2>2. \A d \in Conns : Len(wire[d]) \in Nat
    BY LenProperties DEF Inv, TypeOK
  <2> QED
    BY <1>2, <2>1, <2>2 DEF StreamInv, WireInOrder
<1>8. NewUnserved'
  <2>1. \A d \in Conns : Waiting(d)' => total'[d] = total[d]
    BY <1>1, <1>2, OpenDescriptor DEF SameWaiting, Inv, TypeOK
  <2> QED
    BY <1>2, <2>1 DEF StreamInv, NewUnserved, SameWaiting
<1> QED
  BY <1>6, <1>7, <1>8 DEF StreamInv

LEMMA TransmitsKeepsStream ==
  ASSUME Inv, StreamInv, NEW f \in Fds, sock[f] # NoConn, Transmits(f)
  PROVE  StreamInv'
<1> DEFINE c == sock[f]
           q == sendQueue[f]
           item == q[1]
<1>1. PICK n \in 1..MaxSend :
        /\ n <= item.size - item.offset
        /\ wire' = [wire EXCEPT ![c] = @ \o Bytes(item, n)]
        /\ \/ Closes(f)
           \/ UNCHANGED sock /\ sendQueue' = [sendQueue EXCEPT ![f] = Advance(@, n)]
  BY DEF Transmits
<1>2. SameWaiting /\ total' = total /\ q # <<>> /\ n \in Nat \ {0}
  BY EventLoopAssumption DEF Transmits
<1>3. q \in Seq(Item) /\ item \in Item /\ wire[c] \in Seq(Nat \ {0}) /\ c \in Conns
  BY <1>2, OpenDescriptor, HeadTailProperties
<1>4. Covers(q, Len(wire[c]), total[c])
  BY DEF StreamInv, QueuesCover
<1>5. Len(wire[c]) + 1 = item.first + item.offset
  BY <1>2, <1>4 DEF Covers
<1>6. /\ wire'[c] = wire[c] \o Bytes(item, n)
      /\ \A d \in Conns \ {c} : wire'[d] = wire[d]
  BY <1>1, <1>3 DEF Inv, TypeOK
<1>7. Gapless(wire[c])
  BY <1>3 DEF StreamInv, WireInOrder, Gapless
<1>8. Len(wire'[c]) = Len(wire[c]) + n /\ Gapless(wire'[c])
  <2> DEFINE w == wire[c]
  <2>1. /\ w \in Seq(Nat \ {0}) /\ item \in Item /\ n \in Nat
        /\ Len(w) + 1 = item.first + item.offset /\ wire'[c] = w \o Bytes(item, n)
    BY <1>2, <1>3, <1>5, <1>6
  <2>2. Gapless(w)
    BY <1>7
  <2> HIDE DEF item, c, w
  <2>3. Len(w \o Bytes(item, n)) = Len(w) + n /\ Gapless(w \o Bytes(item, n))
    BY <2>1, <2>2, WireGrows
  <2> QED
    BY <2>1, <2>3 DEF w
<1>9. Len(wire[c]) \in Nat /\ total[c] \in Nat
  BY OpenDescriptor
<1> HIDE DEF c, q
<1>10. Len(wire[c]) + n <= total[c]
  BY <1>1, <1>2, <1>3, <1>4, <1>9, CoversFirst
<1>11. Covers(Advance(q, n), Len(wire[c]) + n, total[c])
  BY <1>1, <1>2, <1>3, <1>4, <1>9, CoversAdvance
<1> USE DEF c, q
<1>12. \A g \in Fds \ {f} : sock'[g] = sock[g] /\ sendQueue'[g] = sendQueue[g] /\ sock[g] # c
  BY <1>1, OpenDescriptor DEF Closes, Inv, TypeOK
<1>13. \/ sock'[f] = NoConn
       \/ sock'[f] = c /\ sendQueue'[f] = Advance(q, n)
  BY <1>1 DEF Closes, Inv, TypeOK
<1>14. QueuesCover'
  <2> SUFFICES ASSUME NEW g \in Fds, sock'[g] # NoConn
               PROVE  Covers(sendQueue'[g], Len(wire'[sock'[g]]), total'[sock'[g]])
    BY DEF QueuesCover
  <2>1. CASE g = f
    <3>1. sock'[g] = c /\ sendQueue'[g] = Advance(q, n)
      BY <1>13, <2>1
    <3> QED
      BY <1>2, <1>8, <1>11, <3>1
  <2>2. CASE g # f
    <3>1. sock'[g] = sock[g] /\ sendQueue'[g] = sendQueue[g] /\ sock[g] \in Conns \ {c}
      BY <1>12, <2>2, OpenDescriptor
    <3>2. wire'[sock[g]] = wire[sock[g]]
      BY <1>6, <3>1
    <3> QED
      BY <1>2, <3>1, <3>2 DEF StreamInv, QueuesCover
  <2> QED
    BY <2>1, <2>2
<1>15. WireInOrder'
  <2> SUFFICES ASSUME NEW d \in Conns
               PROVE  Len(wire'[d]) <= total'[d] /\ \A i \in 1..Len(wire'[d]) : wire'[d][i] = i
    BY DEF WireInOrder
  <2>1. CASE d = c
    BY <1>2, <1>8, <1>10, <2>1 DEF Gapless
  <2>2. CASE d # c
    BY <1>2, <1>6, <2>2 DEF StreamInv, WireInOrder
  <2> QED
    BY <2>1, <2>2
<1>16. NewUnserved'
  BY <1>2, <1>6, OpenDescriptor DEF StreamInv, NewUnserved, SameWaiting
<1> QED
  BY <1>14, <1>15, <1>16 DEF StreamInv

LEMMA StepKeepsStream ==
  ASSUME Inv, StreamInv, StreamStep
  PROVE  StreamInv'
<1>1. CASE Quiet
  BY <1>1 DEF Quiet, StreamInv, QueuesCover, WireInOrder, NewUnserved, SameWaiting
<1>2. ASSUME NEW c \in Conns, NEW f \in Fds, Opens(c, f)
      PROVE  StreamInv'
  <2>1. sendQueue[f] = <<>> /\ wire[c] = <<>> /\ total[c] = 0
    BY <1>2 DEF Opens, Inv, DescriptorOwnership, StreamInv, NewUnserved
  <2>2. sock'[f] = c /\ \A g \in Fds \ {f} : sock'[g] = sock[g]
    BY <1>2 DEF Opens, Inv, TypeOK
  <2>3. Covers(sendQueue[f], Len(wire[c]), total[c])
    BY <2>1, EmptySeq DEF Covers
  <2>4. QueuesCover'
    BY <1>2, <2>2, <2>3 DEF Opens, StreamInv, QueuesCover
  <2>5. WireInOrder' /\ NewUnserved'
    BY <1>2 DEF Opens, StreamInv, WireInOrder, NewUnserved
  <2> QED
    BY <2>4, <2>5 DEF StreamInv
<1>3. ASSUME NEW c \in Conns, GivesUp(c)
      PROVE  StreamInv'
  BY <1>3 DEF GivesUp, StreamInv, QueuesCover, WireInOrder, NewUnserved
<1>4. ASSUME NEW f \in Fds, sock[f] # NoConn, OnDescriptor(f)
      PROVE  StreamInv'
  BY <1>4, ClosesKeepsStream, RespondsKeepsStream, TransmitsKeepsStream DEF OnDescriptor
<1> QED
  BY <1>1, <1>2, <1>3, <1>4 DEF StreamStep

\* The invariant of the streams holds in every behaviour (sendResponse, writeClient).
THEOREM StreamHolds == Spec => [](Inv /\ StreamInv)
<1>1. Inv /\ StreamInv /\ [Next]_vars => (Inv /\ StreamInv)'
  BY NextInv, NextIsStreamStep, StepKeepsStream
<1> QED
  BY <1>1, InitInv, InitStream, PTL DEF Spec

\* A peer receives the stream of its responses: partial sends skip, repeat and
\* reorder no byte (writeClient).
THEOREM WireStaysInOrder == Spec => []WireInOrder
BY StreamHolds, PTL DEF StreamInv

\* A Client's queue holds exactly the bytes queued and not yet sent (sendResponse,
\* writeClient).
THEOREM QueuesCoverUnsent == Spec => []QueueCoversUnsent
<1>1. QueuesCover => QueueCoversUnsent
  BY DEF QueuesCover, QueueCoversUnsent, Covers
<1> QED
  BY <1>1, StreamHolds, PTL DEF StreamInv

----------------------------------------------------------------------------
(* EventLoop implements ResponseStream.                                    *)

\* Connections whose state, for the server, stays the same have the same phase.
LEMMA SamePhase ==
  ASSUME NEW c \in Conns, Waiting(c)' <=> Waiting(c), Accepted(c)' <=> Accepted(c)
  PROVE  Phase(c)' = Phase(c)
BY DEF Phase, Gone, Waiting

LEMMA WaitingNotAccepted ==
  ASSUME Inv, NEW c \in Conns, Waiting(c)
  PROVE  ~Accepted(c)
BY OpenDescriptor, EventLoopAssumption DEF Accepted

LEMMA QuietImplements ==
  ASSUME Inv', Quiet, running' = running \/ running
  PROVE  [Abstract!Next]_Abstract!vars
<1>1. \A c \in Conns : Accepted(c)' <=> Accepted(c)
  BY DEF Quiet, Accepted
<1>2. \A c \in Conns : Phase(c)' = Phase(c)
  BY <1>1, SamePhase DEF Quiet, SameWaiting
<1>3. [c \in Conns |-> Phase(c)]' = [c \in Conns |-> Phase(c)]
  BY <1>2
<1>4. running' = running \/ (running /\ running' = FALSE)
  BY DEF Inv, TypeOK
<1> QED
  BY <1>3, <1>4 DEF Quiet, Abstract!Next, Abstract!Crash, Abstract!vars

LEMMA OpensImplements ==
  ASSUME Inv, running, running', NEW c \in Conns, NEW f \in Fds, Opens(c, f)
  PROVE  Abstract!Next
<1>1. Phase(c) = "none" /\ Phase(c)' = "served"
  <2>1. ~Accepted(c) /\ Accepted(c)'
    BY WaitingNotAccepted DEF Opens, Accepted, Inv, TypeOK
  <2> QED
    BY <2>1 DEF Opens, Waiting, Phase, Gone
<1>2. \A d \in Conns \ {c} : Phase(d)' = Phase(d)
  <2> SUFFICES ASSUME NEW d \in Conns \ {c} PROVE Phase(d)' = Phase(d)
    OBVIOUS
  <2>1. Accepted(d)' <=> Accepted(d)
    BY EventLoopAssumption DEF Opens, Accepted, Inv, TypeOK
  <2> QED
    BY <2>1, SamePhase DEF Opens
<1>3. Abstract!Open(c)
  BY <1>1, <1>2 DEF Opens, Abstract!Open
<1> QED
  BY <1>3 DEF Abstract!Next

LEMMA GivesUpImplements ==
  ASSUME Inv, running, running', NEW c \in Conns, GivesUp(c)
  PROVE  Abstract!Next
<1>1. Phase(c) = "none" /\ Phase(c)' = "gone"
  <2>1. ~Accepted(c) /\ ~Accepted(c)'
    BY WaitingNotAccepted DEF GivesUp, Accepted
  <2> QED
    BY <2>1 DEF GivesUp, Waiting, Phase, Gone
<1>2. \A d \in Conns \ {c} : Phase(d)' = Phase(d)
  BY SamePhase DEF GivesUp, Accepted
<1>3. Abstract!Close(c)
  BY <1>1, <1>2 DEF GivesUp, Abstract!Close
<1> QED
  BY <1>3 DEF Abstract!Next

\* A step on a descriptor that is open ends its connection or leaves it served.
LEMMA ServedPhase ==
  ASSUME Inv, NEW f \in Fds, sock[f] # NoConn, SameWaiting,
         Closes(f) \/ UNCHANGED sock
  PROVE  /\ Phase(sock[f]) = "served"
         /\ Closes(f) => \A c \in Conns : Phase(c)' = IF c = sock[f] THEN "gone" ELSE Phase(c)
         /\ UNCHANGED sock => \A c \in Conns : Phase(c)' = Phase(c)
<1>1. Accepted(sock[f]) /\ sock[f] \in Conns
  BY OpenDescriptor DEF Accepted
<1>2. ASSUME Closes(f), NEW c \in Conns
      PROVE  Phase(c)' = IF c = sock[f] THEN "gone" ELSE Phase(c)
  <2>1. CASE c = sock[f]
    <3>1. ~Accepted(c)'
      BY <1>2, <2>1, OpenDescriptor, EventLoopAssumption DEF Closes, Accepted, Inv, TypeOK
    <3>2. ~Waiting(c)'
      BY <2>1, OpenDescriptor DEF SameWaiting
    <3> QED
      BY <2>1, <3>1, <3>2 DEF Phase, Gone, Waiting
  <2>2. CASE c # sock[f]
    <3>1. Accepted(c)' <=> Accepted(c)
      BY <1>2, <2>2, EventLoopAssumption DEF Closes, Accepted, Inv, TypeOK
    <3> QED
      BY <2>2, <3>1, SamePhase DEF SameWaiting
  <2> QED
    BY <2>1, <2>2
<1>3. ASSUME UNCHANGED sock, NEW c \in Conns
      PROVE  Phase(c)' = Phase(c)
  BY <1>3, SamePhase DEF SameWaiting, Accepted
<1> QED
  BY <1>1, <1>2, <1>3 DEF Phase

LEMMA OnDescriptorImplements ==
  ASSUME Inv, StreamInv, running, running', NEW f \in Fds, sock[f] # NoConn, OnDescriptor(f)
  PROVE  Abstract!Next
<1> DEFINE c == sock[f]
           phase == [d \in Conns |-> Phase(d)]
<1>1. c \in Conns
  BY OpenDescriptor
<1>2. Closes(f) /\ SameWaiting =>
        phase[c] = "served" /\ phase' = [phase EXCEPT ![c] = "gone"]
  BY <1>1, ServedPhase
<1>3. UNCHANGED sock /\ SameWaiting => phase[c] = "served" /\ phase' = phase
  BY <1>1, ServedPhase
<1>4. CASE SameWaiting /\ Closes(f) /\ UNCHANGED <<total, wire>>
  <2>1. phase[c] # "gone" /\ phase' = [phase EXCEPT ![c] = "gone"]
    BY <1>2, <1>4
  <2>2. Abstract!Close(c)
    BY <1>4, <2>1 DEF Abstract!Close
  <2> QED
    BY <1>1, <2>2 DEF Abstract!Next
<1>5. CASE Responds(f)
  <2>1. phase[c] = "served" /\ phase' = phase
    BY <1>3, <1>5 DEF Responds
  <2>2. Abstract!Respond(c)
    BY <1>5, <2>1 DEF Responds, Abstract!Respond
  <2> QED
    BY <1>1, <2>2 DEF Abstract!Next
<1>6. CASE Transmits(f)
  <2> DEFINE q == sendQueue[f]
             item == q[1]
  <2>1. SameWaiting /\ total' = total /\ q # <<>>
    BY <1>6 DEF Transmits
  <2>2. PICK n \in 1..MaxSend :
          /\ n <= item.size - item.offset
          /\ wire' = [wire EXCEPT ![c] = @ \o Bytes(item, n)]
          /\ \/ Closes(f)
             \/ UNCHANGED sock /\ sendQueue' = [sendQueue EXCEPT ![f] = Advance(@, n)]
    BY <1>6 DEF Transmits
  <2>3. /\ q \in Seq(Item) /\ item \in Item /\ n \in Nat /\ Covers(q, Len(wire[c]), total[c])
        /\ wire[c] \in Seq(Nat \ {0}) /\ Len(wire[c]) \in Nat /\ total[c] \in Nat
    BY <2>1, OpenDescriptor, HeadTailProperties, EventLoopAssumption
       DEF StreamInv, QueuesCover
  <2>4. Len(wire[c]) + 1 = item.first + item.offset /\ Gapless(wire[c])
    BY <1>1, <2>1, <2>3 DEF Covers, StreamInv, WireInOrder, Gapless
  <2> DEFINE w == wire[c]
  <2>5. Bytes(item, n) = [j \in 1..n |-> Len(w) + j]
    <3>1. w \in Seq(Nat \ {0}) /\ Gapless(w) /\ Len(w) + 1 = item.first + item.offset
      BY <2>3, <2>4
    <3> HIDE DEF item, c, w
    <3> QED
      BY <2>3, <3>1, WireGrows
  <2>6. Len(wire[c]) + n <= total[c]
    <3> HIDE DEF c, q
    <3> QED
      BY <2>1, <2>2, <2>3, CoversFirst
  <2>7. wire' = [wire EXCEPT ![c] = @ \o [j \in 1..n |-> Len(@) + j]]
    BY <2>2, <2>5
  <2>8. /\ phase[c] = "served"
        /\ phase' = phase \/ phase' = [phase EXCEPT ![c] = "gone"]
    BY <1>2, <1>3, <2>1, <2>2
  <2>9. Abstract!Transmit(c)
    BY <2>1, <2>2, <2>6, <2>7, <2>8 DEF Abstract!Transmit
  <2> QED
    BY <1>1, <2>9 DEF Abstract!Next
<1> QED
  BY <1>4, <1>5, <1>6 DEF OnDescriptor

\* A Server thread implements ResponseStream: with each event it handles, a peer
\* sees one step of the stream of its responses, or none (run and its handlers).
THEOREM Implements == Spec => ImplementsResponseStream
<1>1. Init => Abstract!Init
  <2> SUFFICES ASSUME Init PROVE Abstract!Init
    OBVIOUS
  <2>1. \A c \in Conns : Phase(c) = "none"
    BY EventLoopAssumption DEF Init, Phase, Accepted, Gone
  <2> QED
    BY <2>1 DEF Init, Abstract!Init
<1>2. ASSUME Inv, Inv', StreamInv, [Next]_vars
      PROVE  [Abstract!Next]_Abstract!vars
  BY <1>2, NextIsStreamStep, QuietImplements, OpensImplements, GivesUpImplements,
     OnDescriptorImplements DEF StreamStep
<1> QED
  BY <1>1, <1>2, StreamHolds, PTL DEF Spec, ImplementsResponseStream, Abstract!Spec

----------------------------------------------------------------------------
(* The pieces of a connection the server has not answered.                 *)

\* What recv() delivered to the Client of c and what it will deliver.
Pending(c) ==
  IF Accepted(c) THEN req[CHOOSE f \in Fds : sock[f] = c] \o inbox[c] ELSE inbox[c]

\* The server may still receive what the peer sends.
Live(c) == Waiting(c) \/ Accepted(c)

LEMMA JoinPieces ==
  ASSUME NEW r \in Seq(Piece), NEW a \in Seq(Piece), NEW b \in Seq(Piece)
  PROVE  (r \o a) \o b = r \o (a \o b)
BY ConcatAssociative

LEMMA PendingByClient ==
  ASSUME NEW c, NEW f \in Fds, sock[f] = c, \A g \in Fds : sock[g] = c => g = f
  PROVE  Pending(c) = req[f] \o inbox[c]
<1>1. (CHOOSE g \in Fds : sock[g] = c) = f
  OBVIOUS
<1> QED
  BY <1>1 DEF Pending, Accepted

LEMMA PendingByClientNext ==
  ASSUME NEW c, NEW f \in Fds, sock'[f] = c, \A g \in Fds : sock'[g] = c => g = f
  PROVE  Pending(c)' = req'[f] \o inbox'[c]
<1>1. (CHOOSE g \in Fds : sock'[g] = c) = f
  OBVIOUS
<1> QED
  BY <1>1 DEF Pending, Accepted

LEMMA PendingOfClient ==
  ASSUME Inv, NEW f \in Fds, sock[f] # NoConn
  PROVE  /\ Pending(sock[f]) = req[f] \o inbox[sock[f]]
         /\ req[f] \in Seq(Piece) /\ inbox[sock[f]] \in Seq(Piece)
<1>1. \A g \in Fds : sock[g] = sock[f] => g = f
  BY DEF Inv, DescriptorOwnership
<1>2. Pending(sock[f]) = req[f] \o inbox[sock[f]]
  BY <1>1, PendingByClient
<1> QED
  BY <1>2 DEF Inv, TypeOK

LEMMA PendingType ==
  ASSUME Inv, NEW c \in Conns
  PROVE  Pending(c) \in Seq(Piece)
<1>1. ASSUME NEW f \in Fds, sock[f] = c
      PROVE  Pending(c) \in Seq(Piece)
  <2>1. sock[f] # NoConn
    BY <1>1, EventLoopAssumption
  <2> QED
    BY <1>1, <2>1, PendingOfClient, ConcatProperties
<1>2. CASE \A f \in Fds : sock[f] # c
  BY <1>2 DEF Pending, Accepted, Inv, TypeOK
<1> QED
  BY <1>1, <1>2

----------------------------------------------------------------------------
(* What a step does to the conversation of one connection.                 *)

Stays(c) ==
  /\ Pending(c)' = Pending(c) /\ answers'[c] = answers[c] /\ progress'[c] = progress[c]
  /\ Live(c)' => Live(c)

NewPiece(sent, part) == [req |-> sent \div 2 + 1, part |-> part]

Sends(c) ==
  \E part \in Parts :
    /\ Live(c)
    /\ progress[c] < 2 * MaxReq
    /\ IF part = "last" THEN progress[c] % 2 = 1
                        ELSE progress[c] % 2 = 0 /\ (Pipelined \/ Answered(c))
    /\ Pending(c)' = Append(Pending(c), NewPiece(progress[c], part))
    /\ progress'[c] = progress[c] + (IF part = "junk" THEN 2 ELSE 1)
    /\ answers'[c] = answers[c]

\* A request is dropped with the pieces received behind it: it was answered, or
\* no handler was found for it.
Replies(c) ==
  \E buf, rest \in Seq(Piece) :
    /\ Live(c)
    /\ buf # <<>> /\ ParseResults(buf) \cap {"BAD_REQUEST", "COMPLETE"} # {}
    /\ Pending(c) = buf \o rest /\ Pending(c)' = rest
    /\ answers'[c] \in {answers[c], Append(answers[c], RequestOf(buf))}
    /\ progress'[c] = progress[c]

Ends(c) ==
  /\ Pending(c)' = <<>> /\ ~Live(c)'
  /\ answers'[c] = answers[c] /\ progress'[c] = progress[c]

ConversationStep(c) == Stays(c) \/ Sends(c) \/ Replies(c) \/ Ends(c)

\* Closing the descriptor of one connection ends its conversation only.
LEMMA DisconnectEnds ==
  ASSUME Inv, Inv', NEW f \in Fds, sock[f] # NoConn, DisconnectedClient(f),
         UNCHANGED <<peer, backlog, answers, progress>>, NEW c \in Conns
  PROVE  ConversationStep(c)
<1>1. sock' = [sock EXCEPT ![f] = NoConn] /\ inbox' = [inbox EXCEPT ![sock[f]] = <<>>]
  BY DEF DisconnectedClient
<1>2. \A g \in Fds \ {f} : sock'[g] = sock[g] /\ req'[g] = req[g]
  BY DEF DisconnectedClient, Inv, TypeOK
<1>3. sock'[f] = NoConn /\ c # NoConn
  BY <1>1, EventLoopAssumption DEF Inv, TypeOK
<1>4. Waiting(c)' <=> Waiting(c)
  BY DEF Waiting
<1>5. CASE c = sock[f]
  <2>1. \A g \in Fds : sock'[g] # c
    BY <1>2, <1>3, <1>5, OpenDescriptor
  <2>2. inbox'[c] = <<>>
    BY <1>1, <1>5 DEF Inv, TypeOK
  <2>3. Pending(c)' = <<>>
    BY <2>1, <2>2 DEF Pending, Accepted
  <2>4. ~Live(c)'
    BY <1>4, <1>5, <2>1, OpenDescriptor DEF Live, Accepted
  <2> QED
    BY <2>3, <2>4 DEF Ends, ConversationStep
<1>6. CASE c # sock[f]
  <2>1. inbox'[c] = inbox[c]
    BY <1>1, <1>6 DEF Inv, TypeOK
  <2>2. \A g \in Fds : sock'[g] = c <=> sock[g] = c
    BY <1>2, <1>3, <1>6
  <2>3. Pending(c)' = Pending(c)
    <3>1. CASE \A g \in Fds : sock[g] # c
      BY <2>1, <2>2, <3>1 DEF Pending, Accepted
    <3>2. ASSUME NEW g \in Fds, sock[g] = c
          PROVE  Pending(c)' = Pending(c)
      <4>1. req'[g] = req[g]
        BY <1>2, <1>6, <3>2
      <4>2. \A h \in Fds : sock[h] = c => h = g
        BY <1>3, <3>2 DEF Inv, DescriptorOwnership
      <4>3. Pending(c) = req[g] \o inbox[c]
        BY <3>2, <4>2, PendingByClient
      <4>4. Pending(c)' = req'[g] \o inbox'[c]
        BY <2>2, <3>2, <4>2, PendingByClientNext
      <4> QED
        BY <2>1, <4>1, <4>3, <4>4
    <3> QED
      BY <3>1, <3>2
  <2>4. Live(c)' <=> Live(c)
    BY <1>4, <2>2 DEF Live, Accepted
  <2> QED
    BY <2>3, <2>4 DEF Stays, ConversationStep
<1> QED
  BY <1>5, <1>6

\* Nothing is received or sent.
LEMMA IdleStays ==
  ASSUME UNCHANGED <<sock, req, inbox, answers, progress, peer, backlog>>, NEW c \in Conns
  PROVE  ConversationStep(c)
BY DEF Pending, Live, Waiting, Accepted, Stays, ConversationStep

LEMMA AcceptStays ==
  ASSUME Inv, Inv', AcceptNewClient, NEW c \in Conns
  PROVE  ConversationStep(c)
<1>1. UNCHANGED <<peer, progress, inbox, answers>>
  BY DEF AcceptNewClient, history
<1>2. ASSUME NEW d \in backlog, NEW f \in Fds, sock[f] = NoConn,
             backlog' = backlog \ {d}, AddClient(f, d)
      PROVE  ConversationStep(c)
  <2>1. req[f] = <<>> /\ clientMap[f] = NoConn /\ d \in Conns
    BY <1>2 DEF Inv, TypeOK, DescriptorOwnership
  <2>2. req' = req /\ sock' = [sock EXCEPT ![f] = d]
    BY <1>2, <2>1 DEF AddClient, Inv, TypeOK
  <2>3. sock'[f] = d /\ \A g \in Fds \ {f} : sock'[g] = sock[g]
    BY <2>2 DEF Inv, TypeOK
  <2>4. \A g \in Fds : sock[g] # d
    BY <1>2, <2>1, EventLoopAssumption DEF Inv, DescriptorOwnership
  <2>5. CASE c = d
    <3>1. Pending(c) = inbox[c]
      BY <2>4, <2>5 DEF Pending, Accepted
    <3>2. Pending(c)' = req'[f] \o inbox'[c]
      BY <2>3, <2>4, <2>5, PendingByClientNext
    <3>3. inbox[c] \in Seq(Piece)
      BY DEF Inv, TypeOK
    <3>4. <<>> \o inbox[c] = inbox[c]
      BY <3>3, ConcatEmptySeq
    <3>5. Pending(c)' = Pending(c)
      BY <1>1, <2>1, <2>2, <3>1, <3>2, <3>4
    <3>6. Live(c)
      BY <1>2, <2>5 DEF Live, Waiting
    <3> QED
      BY <1>1, <3>5, <3>6 DEF Stays, ConversationStep
  <2>6. CASE c # d
    <3>1. \A g \in Fds : sock'[g] = c <=> sock[g] = c
      BY <1>2, <2>3, <2>6, EventLoopAssumption
    <3>2. Live(c)' => Live(c)
      BY <1>1, <1>2, <3>1 DEF Live, Waiting, Accepted
    <3>3. (CHOOSE g \in Fds : sock'[g] = c) = (CHOOSE g \in Fds : sock[g] = c)
      BY <3>1
    <3>4. Pending(c)' = Pending(c)
      BY <1>1, <2>2, <3>1, <3>3 DEF Pending, Accepted
    <3> QED
      BY <1>1, <3>2, <3>4 DEF Stays, ConversationStep
  <2> QED
    BY <2>5, <2>6
<1>3. ASSUME backlog' \subseteq backlog, AcceptFailed
      PROVE  ConversationStep(c)
  <2>1. UNCHANGED <<sock, req>>
    BY <1>3 DEF AcceptFailed, client
  <2>2. Live(c)' => Live(c)
    BY <1>1, <1>3, <2>1 DEF Live, Waiting, Accepted
  <2>3. Pending(c)' = Pending(c)
    BY <1>1, <2>1 DEF Pending, Accepted
  <2> QED
    BY <1>1, <2>2, <2>3 DEF Stays, ConversationStep
<1> QED
  BY <1>2, <1>3 DEF AcceptNewClient

\* The bytes received are the bytes parse() sees and those left behind.
LEMMA ReceivedAndLeft ==
  ASSUME NEW r \in Seq(Piece), NEW i \in Seq(Piece), NEW n \in 1..Len(i)
  PROVE  /\ r \o SubSeq(i, 1, n) \in Seq(Piece) /\ r \o SubSeq(i, 1, n) # <<>>
         /\ SubSeq(i, n + 1, Len(i)) \in Seq(Piece)
         /\ (r \o SubSeq(i, 1, n)) \o SubSeq(i, n + 1, Len(i)) = r \o i
<1>1. Len(i) \in Nat /\ Len(r) \in Nat
  BY LenProperties
<1>2. \A j \in 1..Len(i) : i[j] \in Piece
  BY ElementOfSeq
<1>3. SubSeq(i, 1, n) \in Seq(Piece) /\ Len(SubSeq(i, 1, n)) = n
  BY <1>1, <1>2, SubSeqProperties
<1>4. SubSeq(i, n + 1, Len(i)) \in Seq(Piece)
  BY <1>1, <1>2, SubSeqProperties
<1>5. SubSeq(i, 1, n) \o SubSeq(i, n + 1, Len(i)) = i
  <2>1. SubSeq(i, 1, Len(i)) = i
    BY SubSeqFull
  <2>2. 1 \in 1..Len(i) + 1 /\ n \in 1 - 1..Len(i) /\ Len(i) \in n..Len(i)
    BY <1>1
  <2> QED
    BY <2>1, <2>2, ConcatAdjacentSubSeq
<1>6. r \o SubSeq(i, 1, n) \in Seq(Piece) /\ Len(r \o SubSeq(i, 1, n)) = Len(r) + n
  BY <1>3, ConcatProperties
<1>7. r \o SubSeq(i, 1, n) # <<>>
  BY <1>1, <1>6, EmptySeq
<1> DEFINE a == SubSeq(i, 1, n)
           b == SubSeq(i, n + 1, Len(i))
<1>8. (r \o a) \o b = r \o i
  <2>1. a \in Seq(Piece) /\ b \in Seq(Piece) /\ a \o b = i
    BY <1>3, <1>4, <1>5
  <2> HIDE DEF a, b
  <2> QED
    BY <2>1, JoinPieces
<1> QED
  BY <1>4, <1>6, <1>7, <1>8

LEMMA ReadIsConversationStep ==
  ASSUME Inv, Inv', NEW f \in Fds, clientMap[f] # NoConn, ReadClient(f), NEW c \in Conns
  PROVE  ConversationStep(c)
<1>0. sock[f] # NoConn /\ clientMap[f] = sock[f] /\ sock[f] \in Conns
  BY DEF Inv, TypeOK, DescriptorOwnership
<1>1. UNCHANGED <<peer, progress, backlog>>
  BY DEF ReadClient
<1>2. CASE DisconnectedClient(f) /\ UNCHANGED history
  BY <1>0, <1>1, <1>2, DisconnectEnds DEF history
<1>3. CASE Hang /\ UNCHANGED <<sock, req, inbox>>
  BY <1>1, <1>3, IdleStays DEF Hang
<1>4. ASSUME NEW n \in 1..Len(inbox[sock[f]]),
             inbox' = [inbox EXCEPT ![sock[f]] = SubSeq(@, n + 1, Len(@))],
             Parse(f, req[f] \o SubSeq(inbox[sock[f]], 1, n)),
             UNCHANGED <<sock, watched, clientMap, wire>>
      PROVE  ConversationStep(c)
  <2> DEFINE buf  == req[f] \o SubSeq(inbox[sock[f]], 1, n)
             rest == SubSeq(inbox[sock[f]], n + 1, Len(inbox[sock[f]]))
  <2>1. Live(c)' <=> Live(c)
    BY <1>1, <1>4 DEF Live, Waiting, Accepted
  <2>2. Live(sock[f])
    BY DEF Live, Accepted
  <2>3. /\ buf \in Seq(Piece) /\ buf # <<>> /\ rest \in Seq(Piece)
        /\ Pending(sock[f]) = buf \o rest
    BY <1>0, PendingOfClient, ReceivedAndLeft
  <2>4. inbox'[sock[f]] = rest /\ \A d \in Conns \ {sock[f]} : inbox'[d] = inbox[d]
    BY <1>0, <1>4 DEF Inv, TypeOK
  <2>5. Parse(f, buf)
    BY <1>4
  <2>6. \A g \in Fds : sock[g] = sock[f] => g = f
    BY <1>0 DEF Inv, DescriptorOwnership
  <2>7. c = sock[f] => Pending(c)' = req'[f] \o rest
    <3> SUFFICES ASSUME c = sock[f] PROVE Pending(c)' = req'[f] \o rest
      OBVIOUS
    <3>1. Pending(c)' = req'[f] \o inbox'[c]
      BY <1>4, <2>6, PendingByClientNext
    <3> QED
      BY <2>4, <3>1
  <2> HIDE DEF buf, rest
  <2>8. /\ \A g \in Fds \ {f} : req'[g] = req[g]
        /\ \A d \in Conns \ {sock[f]} : answers'[d] = answers[d]
        /\ \/ req'[f] = buf /\ answers'[sock[f]] = answers[sock[f]]
           \/ /\ ParseResults(buf) \cap {"BAD_REQUEST", "COMPLETE"} # {} /\ req'[f] = <<>>
              /\ answers'[sock[f]] \in
                   {answers[sock[f]], Append(answers[sock[f]], RequestOf(buf))}
    <3>1. CASE Keeps(f, buf)
      BY <3>1 DEF Keeps, Inv, TypeOK
    <3>2. CASE Answers(f, buf)
      <4>1. PICK size \in Sizes, close \in BOOLEAN :
              SendResponse(f, RequestOf(buf), size, close)
        BY <3>2 DEF Answers
      <4>2. answers' = [answers EXCEPT ![sock[f]] = Append(@, RequestOf(buf))]
        BY <1>0, <4>1 DEF SendResponse
      <4>3. req'[f] = <<>> /\ \A g \in Fds \ {f} : req'[g] = req[g]
        BY <3>2 DEF Answers, Inv, TypeOK
      <4>4. ParseResults(buf) \cap {"BAD_REQUEST", "COMPLETE"} # {}
        BY <3>2 DEF Answers
      <4> QED
        BY <1>0, <4>2, <4>3, <4>4 DEF Inv, TypeOK
    <3>3. CASE Drops(f, buf)
      BY <3>3 DEF Drops, Inv, TypeOK
    <3> QED
      BY <2>5, <3>1, <3>2, <3>3, ParseCases
  <2>9. CASE c = sock[f]
    <3>1. CASE req'[f] = buf /\ answers'[sock[f]] = answers[sock[f]]
      BY <1>1, <2>1, <2>3, <2>7, <2>9, <3>1 DEF Stays, ConversationStep
    <3>2. CASE /\ ParseResults(buf) \cap {"BAD_REQUEST", "COMPLETE"} # {}
               /\ req'[f] = <<>>
               /\ answers'[sock[f]] \in
                    {answers[sock[f]], Append(answers[sock[f]], RequestOf(buf))}
      <4>1. Pending(c)' = rest
        BY <2>3, <2>7, <2>9, <3>2, ConcatEmptySeq
      <4>2. Replies(c)
        BY <1>1, <2>2, <2>3, <2>9, <3>2, <4>1 DEF Replies
      <4> QED
        BY <4>2 DEF ConversationStep
    <3> QED
      BY <2>8, <3>1, <3>2
  <2>10. CASE c # sock[f]
    <3>1. inbox'[c] = inbox[c] /\ answers'[c] = answers[c]
      BY <2>4, <2>8, <2>10
    <3>2. Pending(c)' = Pending(c)
      <4>1. CASE \A g \in Fds : sock[g] # c
        BY <1>4, <3>1, <4>1 DEF Pending, Accepted
      <4>2. ASSUME NEW g \in Fds, sock[g] = c
            PROVE  Pending(c)' = Pending(c)
        <5>1. req'[g] = req[g]
          BY <2>8, <2>10, <4>2
        <5>2. \A h \in Fds : sock[h] = c => h = g
          BY <4>2, EventLoopAssumption DEF Inv, DescriptorOwnership
        <5>3. Pending(c) = req[g] \o inbox[c]
          BY <4>2, <5>2, PendingByClient
        <5>4. Pending(c)' = req'[g] \o inbox'[c]
          BY <1>4, <4>2, <5>2, PendingByClientNext
        <5> QED
          BY <3>1, <5>1, <5>3, <5>4
      <4> QED
        BY <4>1, <4>2
    <3> QED
      BY <1>1, <2>1, <3>1, <3>2 DEF Stays, ConversationStep
  <2> QED
    BY <2>9, <2>10
<1> QED
  BY <1>2, <1>3, <1>4 DEF ReadClient

LEMMA WriteIsConversationStep ==
  ASSUME Inv, Inv', NEW f \in Fds, clientMap[f] # NoConn, WriteClient(f), NEW c \in Conns
  PROVE  ConversationStep(c)
<1>0. sock[f] # NoConn
  BY DEF Inv, DescriptorOwnership
<1>1. CASE UNCHANGED <<kernel, client, history>>
  BY <1>1, IdleStays DEF kernel, client, history
<1>2. CASE DisconnectedClient(f) /\ UNCHANGED <<peer, progress, backlog, answers>>
  BY <1>0, <1>2, DisconnectEnds
<1>3. CASE UNCHANGED <<inbox, sock, req, peer, progress, backlog, answers>>
  BY <1>3, IdleStays
<1> QED
  BY <1>1, <1>2, <1>3 DEF WriteClient, history

LEMMA PeersAreConversationSteps ==
  ASSUME Inv, Peers, NEW c \in Conns
  PROVE  ConversationStep(c)
<1>1. ASSUME NEW d \in Conns, Connect(d)
      PROVE  ConversationStep(c)
  <2>1. UNCHANGED <<progress, inbox, sock, req, answers>>
    BY <1>1 DEF Connect, client, history
  <2>2. Live(c)' => Live(c)
    BY <1>1, <2>1 DEF Connect, Live, Waiting, Accepted, Inv, TypeOK
  <2>3. Pending(c)' = Pending(c)
    BY <2>1 DEF Pending, Accepted
  <2> QED
    BY <2>1, <2>2, <2>3 DEF Stays, ConversationStep
<1>2. ASSUME NEW d \in Conns, NEW how \in {"shut", "reset"}, Leave(d, how)
      PROVE  ConversationStep(c)
  <2>1. UNCHANGED <<progress, inbox, sock, req, answers, backlog>>
    BY <1>2 DEF Leave, client, history
  <2>2. Live(c)' => Live(c)
    BY <1>2, <2>1 DEF Leave, Live, Waiting, Accepted, Inv, TypeOK
  <2>3. Pending(c)' = Pending(c)
    BY <2>1 DEF Pending, Accepted
  <2> QED
    BY <2>1, <2>2, <2>3 DEF Stays, ConversationStep
<1>3. ASSUME NEW d \in Conns, NEW part \in Parts, Send(d, part)
      PROVE  ConversationStep(c)
  <2>1. UNCHANGED <<peer, backlog, sock, req, answers>>
    BY <1>3 DEF Send, client, history
  <2>2. Live(c)' <=> Live(c)
    BY <2>1 DEF Live, Waiting, Accepted
  <2>3. CASE c # d
    <3>1. inbox'[c] = inbox[c] /\ progress'[c] = progress[c]
      BY <1>3, <2>3 DEF Send, Inv, TypeOK
    <3>2. Pending(c)' = Pending(c)
      BY <2>1, <3>1 DEF Pending, Accepted
    <3> QED
      BY <2>1, <2>2, <3>1, <3>2 DEF Stays, ConversationStep
  <2>4. CASE c = d
    <3> DEFINE piece == NewPiece(progress[c], part)
    <3>1. /\ inbox'[c] = Append(inbox[c], piece)
          /\ progress'[c] = progress[c] + (IF part = "junk" THEN 2 ELSE 1)
      BY <1>3, <2>4 DEF Send, NewPiece, Inv, TypeOK
    <3>2. Live(c)
      BY <1>3, <2>4 DEF Send, Reachable, Live, Waiting
    <3>3. inbox[c] \in Seq(Piece) /\ piece \in Piece
      <4>1. progress[c] \in Nat /\ progress[c] < 2 * MaxReq /\ MaxReq \in Nat
        BY <1>3, <2>4, EventLoopAssumption DEF Send, Inv, TypeOK
      <4>2. progress[c] \div 2 + 1 \in 1..MaxReq
        <5>1. PICK p \in Nat : p = progress[c] /\ p < 2 * MaxReq
          BY <4>1
        <5>2. p \div 2 \in Nat /\ 2 * (p \div 2) <= p
          BY <5>1
        <5> QED
          BY <4>1, <5>1, <5>2
      <4> QED
        BY <4>2 DEF NewPiece, Piece, Inv, TypeOK
    <3> HIDE DEF piece
    <3>4. Pending(c)' = Append(Pending(c), piece)
      <4>1. CASE \A g \in Fds : sock[g] # c
        BY <2>1, <3>1, <4>1 DEF Pending, Accepted
      <4>2. ASSUME NEW g \in Fds, sock[g] = c
            PROVE  Pending(c)' = Append(Pending(c), piece)
        <5>1. \A h \in Fds : sock[h] = c => h = g
          BY <4>2, EventLoopAssumption DEF Inv, DescriptorOwnership
        <5>2. Pending(c) = req[g] \o inbox[c]
          BY <4>2, <5>1, PendingByClient
        <5>3. Pending(c)' = req[g] \o Append(inbox[c], piece)
          BY <2>1, <3>1, <4>2, <5>1, PendingByClientNext
        <5>4. req[g] \in Seq(Piece)
          BY DEF Inv, TypeOK
        <5>5. <<piece>> \in Seq(Piece)
          BY <3>3, EmptySeq, AppendProperties
        <5>6. Append(inbox[c], piece) = inbox[c] \o <<piece>>
          BY <3>3, AppendIsConcat
        <5>7. req[g] \o inbox[c] \in Seq(Piece)
          BY <3>3, <5>4, ConcatProperties
        <5>8. Append(req[g] \o inbox[c], piece) = (req[g] \o inbox[c]) \o <<piece>>
          BY <3>3, <5>7, AppendIsConcat
        <5>9. req[g] \o (inbox[c] \o <<piece>>) = (req[g] \o inbox[c]) \o <<piece>>
          BY <3>3, <5>4, <5>5, JoinPieces
        <5> QED
          BY <5>2, <5>3, <5>6, <5>8, <5>9, Zenon
      <4> QED
        BY <4>1, <4>2
    <3>5. /\ progress[c] < 2 * MaxReq
          /\ IF part = "last" THEN progress[c] % 2 = 1
                              ELSE progress[c] % 2 = 0 /\ (Pipelined \/ Answered(c))
      BY <1>3, <2>4 DEF Send
    <3> QED
      BY <2>1, <3>1, <3>2, <3>4, <3>5 DEF piece, Sends, ConversationStep
  <2> QED
    BY <2>3, <2>4
<1>4. ASSUME NEW d \in Conns, Drain(d)
      PROVE  ConversationStep(c)
  BY <1>4, IdleStays DEF Drain, client, history
<1> QED
  BY <1>1, <1>2, <1>3, <1>4, PeersKeepInv DEF Peers

LEMMA NextIsConversationStep ==
  ASSUME Inv, Inv', [Next]_vars, NEW c \in Conns
  PROVE  ConversationStep(c)
<1>1. CASE Peers
  BY <1>1, PeersAreConversationSteps
<1>2. CASE Poll \/ UNCHANGED vars
  BY <1>2, IdleStays DEF Poll, vars, kernel, client, history
<1>3. CASE Handle
  <2>1. PICK e \in event_list : Dispatch(e)
    BY <1>3 DEF Handle
  <2>2. CASE AcceptNewClient
    BY <2>2, AcceptStays
  <2>3. CASE UNCHANGED <<kernel, running, hung, phantom, client, history>>
    BY <2>3, IdleStays DEF kernel, client, history
  <2>4. CASE /\ e.fd \in Fds /\ clientMap[e.fd] # NoConn /\ DisconnectedClient(e.fd)
             /\ UNCHANGED <<peer, progress, backlog, running, hung, phantom, history>>
    <3>1. sock[e.fd] # NoConn /\ UNCHANGED <<peer, backlog, answers, progress>>
      BY <2>4 DEF Inv, DescriptorOwnership, history
    <3> QED
      BY <2>4, <3>1, DisconnectEnds
  <2>5. CASE e.fd \in Fds /\ clientMap[e.fd] # NoConn /\ ReadClient(e.fd)
    BY <2>5, ReadIsConversationStep
  <2>6. CASE e.fd \in Fds /\ clientMap[e.fd] # NoConn /\ WriteClient(e.fd)
    BY <2>6, WriteIsConversationStep
  <2> QED
    BY <2>1, <2>2, <2>3, <2>4, <2>5, <2>6 DEF Dispatch
<1> QED
  BY <1>1, <1>2, <1>3 DEF Next

----------------------------------------------------------------------------
(* The answers keep the order of the requests.                             *)

\* Where a piece stands in what its peer sends.
Position(piece) == 2 * piece.req - (IF piece.part = "last" THEN 0 ELSE 1)

\* The pieces s not answered yet are in order and not ahead of what was sent; the
\* requests already answered are in order and precede those of s.
Orderly(s, done, sent) ==
  /\ \A i \in 1..Len(s) : Position(s[i]) <= sent
  /\ \A i, j \in 1..Len(s) : i < j => Position(s[i]) < Position(s[j])
  /\ \A k \in 1..Len(done) : done[k] # 0 =>
       /\ 2 * done[k] - 1 <= sent
       /\ \A i \in 1..Len(s) : 2 * done[k] - 1 < Position(s[i])
  /\ \A k, l \in 1..Len(done) :
       k < l /\ done[k] # 0 /\ done[l] # 0 => done[k] < done[l]

LEMMA PositionType ==
  ASSUME NEW piece \in Piece
  PROVE  Position(piece) \in Int
BY EventLoopAssumption DEF Piece, Position

\* The next piece of a peer stands behind all pieces sent so far.
LEMMA PositionOfNew ==
  ASSUME NEW sent \in Nat, NEW part,
         IF part = "last" THEN sent % 2 = 1 ELSE sent % 2 = 0
  PROVE  Position(NewPiece(sent, part)) = sent + 1
<1> DEFINE piece == NewPiece(sent, part)
<1>1. piece.req = sent \div 2 + 1 /\ piece.part = part
  BY DEF NewPiece
<1>2. sent \div 2 \in Nat /\ sent = 2 * (sent \div 2) + (sent % 2)
  OBVIOUS
<1> HIDE DEF piece
<1>3. Position(piece) = sent + 1
  <2>1. CASE part = "last"
    BY <1>1, <1>2, <2>1 DEF Position
  <2>2. CASE part # "last"
    BY <1>1, <1>2, <2>2 DEF Position
  <2> QED
    BY <2>1, <2>2
<1> QED
  BY <1>3 DEF piece

LEMMA SendKeepsOrder ==
  ASSUME NEW s \in Seq(Piece), NEW done \in Seq(0..MaxReq), NEW sent \in Nat,
         Orderly(s, done, sent), NEW piece \in Piece, Position(piece) = sent + 1,
         NEW more \in Nat, more >= sent + 1
  PROVE  Orderly(Append(s, piece), done, more)
<1> DEFINE t == Append(s, piece)
<1>1. Len(s) \in Nat /\ Len(t) = Len(s) + 1 /\ t[Len(s) + 1] = piece
  BY AppendProperties, LenProperties
<1>2. ASSUME NEW i \in 1..Len(s)
      PROVE  t[i] = s[i] /\ Position(t[i]) \in Int /\ Position(t[i]) <= sent
  <2>1. t[i] = s[i] /\ s[i] \in Piece
    BY AppendProperties, ElementOfSeq
  <2>2. Position(s[i]) \in Int
    BY <2>1, PositionType
  <2> QED
    BY <2>1, <2>2 DEF Orderly
<1> HIDE DEF t
<1>3. \A i \in 1..Len(t) : i \in 1..Len(s) \/ i = Len(s) + 1
  BY <1>1
<1>4. \A i \in 1..Len(t) : Position(t[i]) <= more
  BY <1>1, <1>2, <1>3
<1>5. ASSUME NEW i \in 1..Len(t), NEW j \in 1..Len(t), i < j
      PROVE  Position(t[i]) < Position(t[j])
  <2>1. i \in 1..Len(s)
    BY <1>1, <1>5
  <2>2. CASE j \in 1..Len(s)
    <3>1. Position(s[i]) < Position(s[j])
      BY <1>5, <2>1, <2>2 DEF Orderly
    <3> QED
      BY <1>2, <2>1, <2>2, <3>1
  <2>3. CASE j = Len(s) + 1
    BY <1>1, <1>2, <2>1, <2>3
  <2> QED
    BY <1>3, <2>2, <2>3
<1>6. ASSUME NEW k \in 1..Len(done), done[k] # 0
      PROVE  /\ 2 * done[k] - 1 <= more
             /\ \A i \in 1..Len(t) : 2 * done[k] - 1 < Position(t[i])
  <2>1. done[k] \in Nat
    <3>1. done[k] \in 0..MaxReq
      BY ElementOfSeq
    <3> QED
      BY <3>1, EventLoopAssumption
  <2>2. 2 * done[k] - 1 <= sent
    BY <1>6 DEF Orderly
  <2>3. ASSUME NEW i \in 1..Len(t)
        PROVE  2 * done[k] - 1 < Position(t[i])
    <3>1. CASE i \in 1..Len(s)
      <4>1. 2 * done[k] - 1 < Position(s[i])
        BY <1>6, <3>1 DEF Orderly
      <4> QED
        BY <1>2, <3>1, <4>1
    <3>2. CASE i = Len(s) + 1
      BY <1>1, <2>1, <2>2, <3>2
    <3> QED
      BY <1>3, <3>1, <3>2
  <2> QED
    BY <2>1, <2>2, <2>3
<1>7. \A k, l \in 1..Len(done) :
        k < l /\ done[k] # 0 /\ done[l] # 0 => done[k] < done[l]
  BY DEF Orderly
<1> QED
  BY <1>4, <1>5, <1>6, <1>7 DEF Orderly, t

\* The request parse() found begins with the first piece.
LEMMA ReplyKeepsOrder ==
  ASSUME NEW buf \in Seq(Piece), buf # <<>>, NEW rest \in Seq(Piece),
         NEW done \in Seq(0..MaxReq), NEW sent \in Nat, Orderly(buf \o rest, done, sent)
  PROVE  /\ Orderly(rest, Append(done, RequestOf(buf)), sent)
         /\ Orderly(rest, done, sent)
<1> DEFINE s == buf \o rest
           r == RequestOf(buf)
           now == Append(done, r)
           n == Len(buf)
<1>1. /\ n \in Nat /\ n >= 1 /\ Len(rest) \in Nat /\ Len(done) \in Nat
      /\ s \in Seq(Piece) /\ Len(s) = n + Len(rest)
  BY EmptySeq, LenProperties, ConcatProperties
<1>2. s[1] = buf[1] /\ buf[1] \in Piece /\ Position(buf[1]) \in Int
  <2>1. 1 \in 1..n + Len(rest) /\ 1 <= n /\ 1 \in 1..n
    BY <1>1
  <2>2. s[1] = buf[1] /\ buf[1] \in Piece
    BY <2>1, ConcatProperties, ElementOfSeq
  <2> QED
    BY <2>2, PositionType
<1>3. ASSUME NEW i \in 1..Len(rest)
      PROVE  n + i \in 1..Len(s) /\ s[n + i] = rest[i] /\ Position(rest[i]) \in Int
  <2>1. n + i \in 1..n + Len(rest) /\ ~(n + i <= n) /\ (n + i) - n = i
    BY <1>1
  <2>2. s[n + i] = rest[(n + i) - n]
    BY <2>1, ConcatProperties
  <2>3. rest[i] \in Piece
    BY ElementOfSeq
  <2> QED
    BY <1>1, <2>1, <2>2, <2>3, PositionType
<1>4. r \in 0..MaxReq /\ r \in Nat /\ (r # 0 => Position(buf[1]) = 2 * r - 1)
  <2>1. r \in 0..MaxReq
    BY RequestOfType
  <2>2. r # 0 => Position(buf[1]) = 2 * r - 1
    BY DEF RequestOf, Position
  <2> QED
    BY <2>1, <2>2, EventLoopAssumption
<1>5. Len(now) = Len(done) + 1 /\ now[Len(done) + 1] = r
      /\ \A k \in 1..Len(done) : now[k] = done[k] /\ done[k] \in Nat
  <2>1. \A k \in 1..Len(done) : done[k] \in 0..MaxReq
    BY ElementOfSeq
  <2> QED
    BY <1>4, <2>1, AppendProperties, EventLoopAssumption
<1>6. Orderly(s, done, sent) /\ 1 \in 1..Len(s)
  BY <1>1
<1> HIDE DEF s, r, now, n
<1>7. \A k \in 1..Len(now) : k \in 1..Len(done) \/ k = Len(done) + 1
  BY <1>1, <1>5
<1>8. \A i \in 1..Len(rest) : Position(rest[i]) <= sent
  BY <1>3, <1>6 DEF Orderly
<1>9. ASSUME NEW i \in 1..Len(rest), NEW j \in 1..Len(rest), i < j
      PROVE  Position(rest[i]) < Position(rest[j])
  <2>1. n + i < n + j
    BY <1>1, <1>9
  <2>2. Position(s[n + i]) < Position(s[n + j])
    BY <1>3, <1>6, <2>1 DEF Orderly
  <2> QED
    BY <1>3, <2>2
<1>10. \A i \in 1..Len(rest) : Position(buf[1]) < Position(rest[i])
  <2> SUFFICES ASSUME NEW i \in 1..Len(rest)
               PROVE  Position(buf[1]) < Position(rest[i])
    OBVIOUS
  <2>1. 1 < n + i
    BY <1>1
  <2>2. Position(s[1]) < Position(s[n + i])
    BY <1>3, <1>6, <2>1 DEF Orderly
  <2> QED
    BY <1>2, <1>3, <2>2
<1>11. ASSUME NEW k \in 1..Len(now), now[k] # 0
       PROVE  /\ 2 * now[k] - 1 <= sent
              /\ \A i \in 1..Len(rest) : 2 * now[k] - 1 < Position(rest[i])
  <2>1. CASE k \in 1..Len(done)
    <3>1. now[k] = done[k] /\ done[k] # 0
      BY <1>5, <1>11, <2>1
    <3>2. 2 * done[k] - 1 <= sent
      BY <1>6, <2>1, <3>1 DEF Orderly
    <3>3. \A i \in 1..Len(s) : 2 * done[k] - 1 < Position(s[i])
      BY <1>6, <2>1, <3>1 DEF Orderly
    <3> QED
      BY <1>3, <3>1, <3>2, <3>3
  <2>2. CASE k = Len(done) + 1
    <3>1. now[k] = r /\ Position(buf[1]) = 2 * r - 1
      BY <1>4, <1>5, <1>11, <2>2
    <3>2. Position(buf[1]) <= sent
      BY <1>2, <1>6 DEF Orderly
    <3> QED
      BY <1>10, <3>1, <3>2
  <2> QED
    BY <1>7, <2>1, <2>2
<1>12. ASSUME NEW k \in 1..Len(now), NEW l \in 1..Len(now),
              k < l, now[k] # 0, now[l] # 0
       PROVE  now[k] < now[l]
  <2>1. k \in 1..Len(done) /\ now[k] = done[k] /\ done[k] \in Nat
    BY <1>1, <1>5, <1>7, <1>12
  <2>2. CASE l \in 1..Len(done)
    <3>1. now[l] = done[l]
      BY <1>5, <2>2
    <3>2. done[k] < done[l]
      BY <1>6, <1>12, <2>1, <2>2, <3>1 DEF Orderly
    <3> QED
      BY <2>1, <3>1, <3>2
  <2>3. CASE l = Len(done) + 1
    <3>1. now[l] = r /\ Position(s[1]) = 2 * r - 1
      BY <1>2, <1>4, <1>5, <1>12, <2>3
    <3>2. 2 * done[k] - 1 < Position(s[1])
      BY <1>6, <1>12, <2>1 DEF Orderly
    <3> QED
      BY <1>4, <2>1, <3>1, <3>2
  <2> QED
    BY <1>7, <2>2, <2>3
<1>13. Orderly(rest, now, sent)
  BY <1>8, <1>9, <1>11, <1>12 DEF Orderly
<1>14. Orderly(rest, done, sent)
  <2>1. \A k \in 1..Len(done) : done[k] # 0 => 2 * done[k] - 1 <= sent
    BY <1>6 DEF Orderly
  <2>2. ASSUME NEW k \in 1..Len(done), done[k] # 0, NEW i \in 1..Len(rest)
        PROVE  2 * done[k] - 1 < Position(rest[i])
    <3>1. n + i \in 1..Len(s) /\ s[n + i] = rest[i]
      BY <1>3
    <3>2. 2 * done[k] - 1 < Position(s[n + i])
      BY <1>6, <2>2, <3>1 DEF Orderly
    <3> QED
      BY <3>1, <3>2
  <2>3. \A k, l \in 1..Len(done) :
          k < l /\ done[k] # 0 /\ done[l] # 0 => done[k] < done[l]
    BY <1>6 DEF Orderly
  <2> QED
    BY <1>8, <1>9, <2>1, <2>2, <2>3 DEF Orderly
<1> QED
  BY <1>13, <1>14 DEF now, r

LEMMA EndKeepsOrder ==
  ASSUME NEW s, NEW done, NEW sent, Orderly(s, done, sent)
  PROVE  Orderly(<<>>, done, sent)
<1>1. Len(<<>>) = 0
  BY EmptySeq
<1> QED
  BY <1>1 DEF Orderly

OrderInv == \A c \in Conns : Orderly(Pending(c), answers[c], progress[c])

LEMMA InitOrder == Init => OrderInv
<1>1. Len(<<>>) = 0
  BY EmptySeq
<1>2. Init => \A c \in Conns : Pending(c) = <<>>
  BY EventLoopAssumption DEF Init, Pending, Accepted
<1>3. \A sent : Orderly(<<>>, <<>>, sent)
  BY <1>1 DEF Orderly
<1> QED
  BY <1>2, <1>3 DEF Init, OrderInv

\* What a connection has in each state.
LEMMA ConversationTypes ==
  ASSUME Inv, NEW c \in Conns
  PROVE  /\ Pending(c) \in Seq(Piece) /\ answers[c] \in Seq(0..MaxReq)
         /\ progress[c] \in Nat /\ progress[c] <= 2 * MaxReq
<1>1. progress[c] \in 0..(2 * MaxReq) /\ MaxReq \in Nat
  BY EventLoopAssumption DEF Inv, TypeOK
<1>2. answers[c] \in Seq(0..MaxReq)
  BY DEF Inv, TypeOK
<1> QED
  BY <1>1, <1>2, PendingType

LEMMA StepKeepsOrder ==
  ASSUME Inv, Inv', NEW c \in Conns, ConversationStep(c),
         Orderly(Pending(c), answers[c], progress[c])
  PROVE  Orderly(Pending(c)', answers'[c], progress'[c])
<1>1. CASE Stays(c)
  BY <1>1 DEF Stays
<1>2. CASE Sends(c)
  <2>1. PICK part \in Parts :
          /\ progress[c] < 2 * MaxReq
          /\ IF part = "last" THEN progress[c] % 2 = 1 ELSE progress[c] % 2 = 0
          /\ Pending(c)' = Append(Pending(c), NewPiece(progress[c], part))
          /\ progress'[c] = progress[c] + (IF part = "junk" THEN 2 ELSE 1)
          /\ answers'[c] = answers[c]
    BY <1>2 DEF Sends
  <2> DEFINE piece == NewPiece(progress[c], part)
             more  == progress[c] + (IF part = "junk" THEN 2 ELSE 1)
  <2>2. progress[c] \in Nat /\ more \in Nat /\ more >= progress[c] + 1
    BY ConversationTypes
  <2>3. Position(piece) = progress[c] + 1
    BY <2>1, <2>2, PositionOfNew
  <2>4. piece \in Piece
    <3>1. progress[c] \div 2 + 1 \in 1..MaxReq
      <4>1. PICK p \in Nat : p = progress[c] /\ p < 2 * MaxReq /\ MaxReq \in Nat
        BY <2>1, <2>2, EventLoopAssumption
      <4>2. p \div 2 \in Nat /\ 2 * (p \div 2) <= p
        BY <4>1
      <4> QED
        BY <4>1, <4>2
    <3> QED
      BY <3>1 DEF NewPiece, Piece
  <2> HIDE DEF piece, more
  <2>5. Orderly(Append(Pending(c), piece), answers[c], more)
    BY <2>2, <2>3, <2>4, ConversationTypes, SendKeepsOrder
  <2> QED
    BY <2>1, <2>5 DEF piece, more
<1>3. CASE Replies(c)
  <2>1. PICK buf \in Seq(Piece), rest \in Seq(Piece) :
          /\ buf # <<>> /\ Pending(c) = buf \o rest /\ Pending(c)' = rest
          /\ answers'[c] \in {answers[c], Append(answers[c], RequestOf(buf))}
          /\ progress'[c] = progress[c]
    BY <1>3 DEF Replies
  <2>2. Orderly(buf \o rest, answers[c], progress[c])
    BY <2>1
  <2>3. /\ Orderly(rest, Append(answers[c], RequestOf(buf)), progress[c])
        /\ Orderly(rest, answers[c], progress[c])
    BY <2>1, <2>2, ConversationTypes, ReplyKeepsOrder
  <2> QED
    BY <2>1, <2>3
<1>4. CASE Ends(c)
  BY <1>4, EndKeepsOrder DEF Ends
<1> QED
  BY <1>1, <1>2, <1>3, <1>4 DEF ConversationStep

\* The invariant of the answers holds in every behaviour (readClient, sendResponse).
THEOREM OrderHolds == Spec => []OrderInv
<1>1. Inv /\ Inv' /\ OrderInv /\ [Next]_vars => OrderInv'
  BY NextIsConversationStep, StepKeepsOrder DEF OrderInv
<1> QED
  BY <1>1, InitOrder, InvHolds, PTL DEF Spec

\* Whatever pieces recv() delivers together and whatever is dropped with an
\* answered request, no request is answered twice or before an earlier one
\* (readClient, sendResponse).
THEOREM AnswersStayInOrder == Spec => []AnswersInOrder
<1>1. OrderInv => AnswersInOrder
  BY DEF OrderInv, Orderly, AnswersInOrder
<1> QED
  BY <1>1, OrderHolds, PTL

----------------------------------------------------------------------------
(* A peer that waits is answered once for each request.                    *)

Beginnings == {"first", "trailer", "endless"}

\* The peer of a live connection has sent nothing of the next request (the n-th
\* is answered), its first piece, all of it, or one piece to be rejected; what
\* was sent is what is pending.  Or it was dropped without an answer, and the
\* peer sends nothing more.
Turn(s, n, sent) ==
  /\ Len(s) <= 2
  /\ \A i \in 1..Len(s) : s[i].req = n + 1
  /\ \/ Len(s) = 0 /\ sent \in {2 * n, 2 * n + 2}
     \/ Len(s) = 1 /\ s[1].part \in Beginnings /\ sent = 2 * n + 1
     \/ Len(s) = 1 /\ s[1].part = "junk" /\ sent = 2 * n + 2
     \/ /\ Len(s) = 2 /\ sent = 2 * n + 2
        /\ s[1].part \in Beginnings /\ s[2].part = "last"

InTurn(c) ==
  /\ \A i \in 1..Len(answers[c]) : answers[c][i] = i
  /\ Live(c) => Turn(Pending(c), Len(answers[c]), progress[c])

Polite == ~Pipelined /\ "bad" \notin Parts

TurnInv == Polite => \A c \in Conns : InTurn(c)

\* Only the piece that is due can be sent.
LEMMA SendKeepsTurn ==
  ASSUME NEW s \in Seq(Piece), NEW n \in Nat, NEW sent \in Nat, Turn(s, n, sent),
         NEW part, part # "bad", NewPiece(sent, part) \in Piece,
         part \in Beginnings \cup {"junk", "last"},
         IF part = "last" THEN sent % 2 = 1 ELSE sent % 2 = 0 /\ n >= sent \div 2
  PROVE  Turn(Append(s, NewPiece(sent, part)), n,
              sent + (IF part = "junk" THEN 2 ELSE 1))
<1> DEFINE piece == NewPiece(sent, part)
           t == Append(s, piece)
<1>1. piece.req = sent \div 2 + 1 /\ piece.part = part
  BY DEF NewPiece
<1>2. /\ Len(s) \in Nat /\ Len(t) = Len(s) + 1 /\ t[Len(s) + 1] = piece
      /\ \A i \in 1..Len(s) : t[i] = s[i]
  BY AppendProperties, LenProperties
<1> HIDE DEF piece, t
<1>3. CASE part = "last"
  <2>1. Len(s) = 1 /\ s[1].part \in Beginnings /\ sent = 2 * n + 1
    BY <1>3 DEF Turn
  <2>2. piece.req = n + 1
    BY SMTT(30), <1>1, <2>1
  <2>3. Len(t) = 2 /\ t[1] = s[1] /\ t[2] = piece /\ s[1].req = n + 1
    BY <1>2, <2>1 DEF Turn
  <2>4. Turn(t, n, sent + 1)
    BY <1>1, <1>3, <2>1, <2>2, <2>3 DEF Turn
  <2> QED
    BY <1>3, <2>4 DEF t, piece
<1>4. CASE part \in Beginnings \cup {"junk"}
  <2>1. sent % 2 = 0 /\ n >= sent \div 2
    BY <1>4 DEF Beginnings
  <2>2. Len(s) = 0 /\ sent = 2 * n
    BY <2>1 DEF Turn
  <2>3. piece.req = n + 1 /\ Len(t) = 1 /\ t[1] = piece
    BY <1>1, <1>2, <2>2
  <2>4. Turn(t, n, sent + (IF part = "junk" THEN 2 ELSE 1))
    BY <1>1, <1>4, <2>2, <2>3 DEF Turn, Beginnings
  <2> QED
    BY <2>4 DEF t, piece
<1> QED
  BY <1>3, <1>4

\* How one or two pieces can be split.
LEMMA SmallSums ==
  ASSUME NEW a \in Nat, a >= 1, NEW b \in Nat, NEW l \in Nat, l = a + b
  PROVE  l # 0 /\ (l = 1 => a = 1 /\ b = 0) /\ (l = 2 /\ a # 1 => b = 0)
OBVIOUS

\* parse() finds the end of the request that is due, or rejects it whole.
LEMMA ReplyKeepsTurn ==
  ASSUME NEW buf \in Seq(Piece), buf # <<>>, NEW rest \in Seq(Piece), NEW n \in Nat,
         NEW sent \in Nat, Turn(buf \o rest, n, sent),
         ParseResults(buf) \cap {"BAD_REQUEST", "COMPLETE"} # {}
  PROVE  RequestOf(buf) = n + 1 /\ Turn(rest, n + 1, sent) /\ Turn(rest, n, sent)
<1> DEFINE s == buf \o rest
<1>1. /\ Len(buf) \in Nat /\ Len(buf) >= 1 /\ Len(rest) \in Nat
      /\ Len(s) = Len(buf) + Len(rest)
  BY EmptySeq, LenProperties, ConcatProperties
<1>2. s[1] = buf[1]
  <2>1. 1 \in 1..Len(buf) + Len(rest) /\ 1 <= Len(buf)
    BY <1>1
  <2> QED
    BY <2>1, ConcatProperties
<1>3. Turn(s, n, sent)
  OBVIOUS
<1> HIDE DEF s
<1>4. Len(s) <= 2 /\ 1 \in 1..Len(s) /\ s[1].req = n + 1 /\ s[1].part # "last"
  BY <1>1, <1>3 DEF Turn, Beginnings
<1>5. RequestOf(buf) = n + 1
  BY <1>2, <1>4 DEF RequestOf
<1>6. buf[1].part \in Beginnings => Len(buf) # 1
  BY DEF ParseResults, Beginnings
<1>7. Len(rest) = 0 /\ sent = 2 * n + 2
  <2>1. s[1].part \in Beginnings => Len(buf) # 1
    BY <1>2, <1>6
  <2> DEFINE l == Len(s)
             a == Len(buf)
             b == Len(rest)
  <2>2. /\ a \in Nat /\ a >= 1 /\ b \in Nat /\ l \in Nat /\ l = a + b /\ l = Len(s)
        /\ s[1].part \in Beginnings => a # 1
    BY <1>1, <2>1
  <2> HIDE DEF l, a, b
  <2>3. l # 0 /\ (l = 1 => a = 1 /\ b = 0) /\ (l = 2 /\ a # 1 => b = 0)
    BY <2>2, SmallSums
  <2>4. \/ l = 1 /\ s[1].part \in Beginnings
        \/ l = 1 /\ sent = 2 * n + 2
        \/ l = 2 /\ sent = 2 * n + 2 /\ s[1].part \in Beginnings
    BY <1>3, <2>2, <2>3 DEF Turn
  <2>5. b = 0 /\ sent = 2 * n + 2
    BY <2>2, <2>3, <2>4
  <2> QED
    BY <2>5 DEF b
<1>8. Turn(rest, n + 1, sent) /\ Turn(rest, n, sent)
  BY <1>7 DEF Turn
<1> QED
  BY <1>5, <1>8

LEMMA InitTurn == Init => TurnInv
<1> SUFFICES ASSUME Init, NEW c \in Conns PROVE InTurn(c)
  BY DEF TurnInv
<1>1. Len(<<>>) = 0
  BY EmptySeq
<1>2. Pending(c) = <<>> /\ answers[c] = <<>> /\ progress[c] = 0
  BY EventLoopAssumption DEF Init, Pending, Accepted
<1>3. Turn(<<>>, 0, 0)
  BY <1>1 DEF Turn
<1> QED
  BY <1>1, <1>2, <1>3 DEF InTurn

LEMMA StepKeepsTurn ==
  ASSUME Polite, Inv, Inv', NEW c \in Conns, ConversationStep(c), InTurn(c)
  PROVE  InTurn(c)'
<1> DEFINE n == Len(answers[c])
<1>1. n \in Nat
  BY ConversationTypes, LenProperties
<1>2. CASE Stays(c)
  BY <1>2 DEF Stays, InTurn
<1>3. CASE Sends(c)
  <2>1. PICK part \in Parts :
          /\ Live(c)
          /\ progress[c] < 2 * MaxReq
          /\ IF part = "last" THEN progress[c] % 2 = 1
                              ELSE progress[c] % 2 = 0 /\ (Pipelined \/ Answered(c))
          /\ Pending(c)' = Append(Pending(c), NewPiece(progress[c], part))
          /\ progress'[c] = progress[c] + (IF part = "junk" THEN 2 ELSE 1)
          /\ answers'[c] = answers[c]
    BY <1>3 DEF Sends
  <2>2. part \in Beginnings \cup {"junk", "last"} /\ part # "bad"
    BY EventLoopAssumption DEF Polite, Beginnings
  <2>3. IF part = "last" THEN progress[c] % 2 = 1
                         ELSE progress[c] % 2 = 0 /\ n >= progress[c] \div 2
    BY <2>1 DEF Polite, Answered
  <2>4. NewPiece(progress[c], part) \in Piece
    <3>1. progress[c] \div 2 + 1 \in 1..MaxReq
      <4>1. PICK p \in Nat : p = progress[c] /\ p < 2 * MaxReq /\ MaxReq \in Nat
        BY <2>1, ConversationTypes, EventLoopAssumption
      <4>2. p \div 2 \in Nat /\ 2 * (p \div 2) <= p
        BY <4>1
      <4> QED
        BY <4>1, <4>2
    <3> QED
      BY <3>1 DEF NewPiece, Piece
  <2>5. Turn(Pending(c), n, progress[c])
    BY <2>1 DEF InTurn
  <2> HIDE DEF n
  <2>6. Turn(Append(Pending(c), NewPiece(progress[c], part)), n,
             progress[c] + (IF part = "junk" THEN 2 ELSE 1))
    BY <1>1, <2>2, <2>3, <2>4, <2>5, ConversationTypes, SendKeepsTurn
  <2> QED
    BY <2>1, <2>6 DEF InTurn, n
<1>4. CASE Replies(c)
  <2>1. PICK buf \in Seq(Piece), rest \in Seq(Piece) :
          /\ Live(c)
          /\ buf # <<>> /\ ParseResults(buf) \cap {"BAD_REQUEST", "COMPLETE"} # {}
          /\ Pending(c) = buf \o rest /\ Pending(c)' = rest
          /\ answers'[c] \in {answers[c], Append(answers[c], RequestOf(buf))}
          /\ progress'[c] = progress[c]
    BY <1>4 DEF Replies
  <2>2. Turn(buf \o rest, n, progress[c])
    BY <2>1 DEF InTurn
  <2>3. RequestOf(buf) = n + 1 /\ Turn(rest, n + 1, progress[c]) /\ Turn(rest, n, progress[c])
    BY <1>1, <2>1, <2>2, ConversationTypes, ReplyKeepsTurn
  <2>4. RequestOf(buf) \in 0..MaxReq
    BY <2>1, RequestOfType
  <2>5. \A i \in 1..n : answers[c][i] = i
    BY DEF InTurn
  <2>6. CASE answers'[c] = answers[c]
    BY <2>1, <2>3, <2>5, <2>6 DEF InTurn
  <2>7. CASE answers'[c] = Append(answers[c], RequestOf(buf))
    <3>1. /\ Len(answers'[c]) = n + 1 /\ answers'[c][n + 1] = n + 1
          /\ \A i \in 1..n : answers'[c][i] = answers[c][i]
      BY <2>3, <2>4, <2>7, ConversationTypes, AppendProperties
    <3> HIDE DEF n
    <3>2. \A i \in 1..n + 1 : answers'[c][i] = i
      <4>1. \A i \in 1..n + 1 : i \in 1..n \/ i = n + 1
        BY <1>1
      <4> QED
        BY <2>5, <3>1, <4>1
    <3> QED
      BY <2>1, <2>3, <3>1, <3>2 DEF InTurn
  <2> QED
    BY <2>1, <2>6, <2>7
<1>5. CASE Ends(c)
  BY <1>5 DEF Ends, InTurn
<1> QED
  BY <1>2, <1>3, <1>4, <1>5 DEF ConversationStep

\* A peer that waits for each answer and whose rejected requests come in one piece
\* has its n-th request answered by the n-th response (readClient, sendResponse).
THEOREM EachAnsweredOnce == Spec => []OneAnswerEach
<1>1. Inv /\ Inv' /\ TurnInv /\ [Next]_vars => TurnInv'
  BY NextIsConversationStep, StepKeepsTurn DEF TurnInv, Polite
<1>2. TurnInv => OneAnswerEach
  BY DEF TurnInv, Polite, InTurn, OneAnswerEach
<1> QED
  BY <1>1, <1>2, InitTurn, InvHolds, PTL DEF Spec
=============================================================================

---------------------------- MODULE FileRequests ----------------------------
(***************************************************************************)
(* The requests that reach the handlers of src/src/Server.cpp, the paths   *)
(* they are about, and the responses sendResponse() makes of what the      *)
(* handlers hand it.  A file or a body is a sequence of blocks, a block    *)
(* being what one read() or write() moves.                                 *)
(***************************************************************************)
EXTENDS Integers, Sequences, SequencesExt

CONSTANTS
  Threads,     \* the Server threads, one for each port
  Files,       \* paths of regular files, there or not
  Dir,         \* the path of a directory, which requests name with the '/' at its end
  Inside,      \* those of Files that lie in Dir
  Index,       \* the one of these that stands for Dir in a lookup
  None,        \* no path, no inode
  RequestsOf,  \* the requests each thread may be sent
  MaxServed    \* bound: requests of each thread

Paths   == Files \cup {Dir}
Methods == {"HEAD", "GET", "POST", "PUT", "DELETE"}

\* A request as handleRequest() passes it on: length is that of its body, limit
\* the location's client_max_body_size, cgi what isCgi is.
Request == [method : Methods, path : Paths, length : Nat, limit : Nat, cgi : BOOLEAN]

ASSUME FileRequestsAssumption ==
  /\ Dir \notin Files /\ Inside \subseteq Files /\ Index \in Inside
  /\ None \notin Paths \cup Threads
  /\ RequestsOf \in [Threads -> SUBSET Request]
  /\ MaxServed \in [Threads -> Nat]

\* A block of the body of the n-th request of a thread; number 0 is a block a
\* CGI wrote for it.  The others are no part of any request.
BlockOf(t, n, k) == [by |-> t, n |-> n, k |-> k]
Old     == BlockOf(None, 0, 0)  \* on the disk from the start
Zero    == BlockOf(None, 0, 1)  \* never written
Text    == BlockOf(None, 0, 2)  \* made by the server
Block   == [by : Threads \cup {None}, n : Nat, k : Nat]

ASSUME NoneIsNoFile == None \notin Seq(Block)

Body(t, n, q)  == [k \in 1..q.length |-> BlockOf(t, n, k)]
Output(t, n)   == <<BlockOf(t, n, 0)>>

Answer   == [status : Nat, length : Nat, data : Seq(Block)]
NoAnswer == [status |-> 0, length |-> 0, data |-> <<>>]

\* sendStatusResponse() of a request q
Message(status, q) ==
  [status |-> status, length |-> 1,
   data |-> IF q.method = "HEAD" THEN <<>> ELSE <<Text>>]

\* sendResponse(): length is the Content-Length header; what is compared with
\* client_max_body_size is the body of the response.
Response(status, length, data, q) ==
  IF q.limit # 0 /\ q.limit < Len(data)
    THEN Message(413, q)
    ELSE [status |-> status, length |-> length, data |-> data]
=============================================================================

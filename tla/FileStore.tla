----------------------------- MODULE FileStore -----------------------------
(***************************************************************************)
(* What the handlers promise a peer whose files no other thread touches:   *)
(* each request is done as a whole, and its answer tells what was done.    *)
(* The files are those of Handlers; there are no steps of system calls, no *)
(* descriptors and no inodes.                                              *)
(***************************************************************************)
EXTENDS FileRequests

VARIABLES
  file,       \* what each of Files holds, None when it is not there
  directory,  \* is Dir there?
  owed,       \* the answer to what a thread has stored, until it is given
  answer,     \* the answer each thread gave last
  served      \* how many it gave

vars == <<file, directory, owed, answer, served>>

There(p)  == IF p = Dir THEN directory ELSE file[p] # None
Target(q) == IF q.path = Dir /\ There(Index) THEN Index ELSE q.path
Shown(p)  == IF p = Dir THEN <<Text>> ELSE file[p]

\* The data of a request: its body, or what a CGI made of it.
Data(t, q) == IF q.cgi THEN Output(t, served[t]) ELSE Body(t, served[t], q)

Give(t, a) ==
  /\ answer' = [answer EXCEPT ![t] = a]
  /\ served' = [served EXCEPT ![t] = @ + 1]

Init ==
  /\ directory \in BOOLEAN
  /\ file \in [Files -> Seq(Block) \cup {None}]
  /\ \A f \in Inside : There(f) => directory
  /\ owed = [t \in Threads |-> NoAnswer]
  /\ answer = [t \in Threads |-> NoAnswer]
  /\ served = [t \in Threads |-> 0]

\* A directory is shown with a 404.  The length is that of what the path holds,
\* whatever is sent in its place.
Get(t, q) ==
  /\ q.method \in {"GET", "HEAD"}
  /\ LET p == Target(q) IN
     Give(t, IF ~There(p) THEN Message(404, q)
             ELSE Response(IF p = Dir THEN 404 ELSE 200, Len(Shown(p)),
                           IF q.method = "HEAD" THEN <<>>
                           ELSE IF q.cgi THEN Data(t, q) ELSE Shown(p), q))
  /\ UNCHANGED <<file, directory, owed>>

\* Done or not, an existing path is answered with 200.
Delete(t, q) ==
  /\ q.method = "DELETE"
  /\ LET p == Target(q) IN
     /\ file' = [f \in Files |-> IF f = p THEN None ELSE file[f]]
     /\ directory' = (directory /\ (p = Dir => \E f \in Inside : There(f)))
     /\ Give(t, IF There(p) THEN Response(200, 1, <<Text>>, q) ELSE Message(404, q))
  /\ UNCHANGED owed

Writable(p) == p \in Files /\ (p \in Inside => directory)

\* A PUT replaces, a POST extends; both create.
Store(t, q) ==
  /\ q.method \in {"POST", "PUT"} /\ Writable(Target(q))
  /\ LET p == Target(q)
         data == Data(t, q)
         post == q.method = "POST"
     IN /\ file' = [file EXCEPT ![p] = IF post /\ There(p) THEN @ \o data ELSE data]
        /\ owed' = [owed EXCEPT ![t] =
             IF post THEN Response(IF There(p) THEN 200 ELSE 201, Len(data),
                                   IF There(p) \/ q.cgi THEN data ELSE <<>>, q)
             ELSE Response(IF There(p) THEN 204 ELSE 201, 0, <<>>, q)]
  /\ UNCHANGED <<directory, answer, served>>

\* Nothing can be written: a POST to an existing directory says it was.
Refuse(t, q) ==
  /\ q.method \in {"POST", "PUT"} /\ ~Writable(Target(q))
  /\ Give(t, IF q.method = "POST" /\ There(Target(q))
               THEN Response(200, Len(Data(t, q)), Data(t, q), q)
               ELSE Message(501, q))
  /\ UNCHANGED <<file, directory, owed>>

\* The answer to what was stored.
Acknowledge(t) ==
  /\ owed[t] # NoAnswer
  /\ Give(t, owed[t])
  /\ owed' = [owed EXCEPT ![t] = NoAnswer]
  /\ UNCHANGED <<file, directory>>

Next ==
  \E t \in Threads :
    \/ Acknowledge(t)
    \/ /\ owed[t] = NoAnswer
       /\ \E q \in RequestsOf[t] : Get(t, q) \/ Delete(t, q) \/ Store(t, q) \/ Refuse(t, q)

Spec == Init /\ [][Next]_vars
=============================================================================

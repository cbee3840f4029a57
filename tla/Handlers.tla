------------------------------ MODULE Handlers ------------------------------
(***************************************************************************)
(* What handleGet(), handlePost(), handlePut() and handleDelete() of       *)
(* src/src/Server.cpp do on the disk, with the lookups of                  *)
(* src/src/ResourceHost.cpp.  Every Server thread handles one request at a *)
(* time; the disk is shared, and every system call is a step of its own.   *)
(*                                                                         *)
(* A file is a path linked to an inode; a thread keeps the inode it has    *)
(* open when the path is removed.                                          *)
(***************************************************************************)
EXTENDS FileRequests

CONSTANTS
  Inodes,      \* inodes
  Readables    \* which of the error page and www/dirPage.html may be readable

Pages == {"error", "dirPage"}

ASSUME HandlersAssumption == None \notin Inodes /\ Readables \subseteq SUBSET Pages

VARIABLES
  readable,   \* which of Pages can be read; nothing changes that
  directory,  \* is Dir there?
  link,       \* the inode of each file, or None
  content,    \* the blocks of each inode
  pc,         \* where each thread is
  job,        \* what it knows of its request
  answer,     \* the response it queued last
  served,     \* how many responses it has queued
  running,    \* FALSE: the process was killed
  intact      \* history: no other thread has touched what the thread looked up

disk == <<readable, directory, link, content>>
vars == <<readable, directory, link, content, pc, job, answer, served, running, intact>>

----------------------------------------------------------------------------
(* Locals of a thread.                                                     *)

NoResource == [loc |-> None, dir |-> FALSE, data |-> <<>>]
NoRequest  == [method |-> "GET", path |-> Dir, length |-> 0, limit |-> 0, cgi |-> FALSE]

\* req and r are those of the handlers; body is the data of the request; path,
\* size, data and fd are those of readFile(), fd also the file being written,
\* rest what is still to be written, append the mode; again: is this the second
\* lookup of a POST?
NoJob == [req |-> NoRequest, r |-> NoResource, body |-> <<>>, path |-> None, size |-> 0,
          data |-> <<>>, fd |-> None, rest |-> <<>>, append |-> FALSE, again |-> FALSE]

Init ==
  /\ readable \in Readables
  /\ directory \in BOOLEAN
  /\ \E there \in SUBSET Files, f \in [Files -> Inodes] :
       /\ Inside \cap there # {} => directory
       /\ \A p, q \in there : f[p] = f[q] => p = q
       /\ link = [p \in Files |-> IF p \in there THEN f[p] ELSE None]
  /\ content = [i \in Inodes |-> IF \E p \in Files : link[p] = i THEN <<Old, Old>> ELSE <<>>]
  /\ pc = [t \in Threads |-> "idle"]
  /\ job = [t \in Threads |-> NoJob]
  /\ answer = [t \in Threads |-> NoAnswer]
  /\ served = [t \in Threads |-> 0]
  /\ running = TRUE
  /\ intact = [t \in Threads |-> TRUE]

\* Does this step change what is behind path p, other than by appending to it?
Touches(p) ==
  IF p = Dir THEN directory' # directory
  ELSE \/ link'[p] # link[p]
       \/ /\ link[p] # None
          /\ ~IsPrefix(content[link[p]], content'[link[p]])

\* A step of t may touch what the others looked up; own is its own new value.
Spoil(t, own) ==
  intact' = [u \in Threads |->
               IF u = t THEN own
               ELSE intact[u] /\ (job[u].path = None \/ ~Touches(job[u].path))]

----------------------------------------------------------------------------
(* Responses: sendResponse() and sendStatusResponse().                     *)

SendResponse(t, response) ==
  /\ answer' = [answer EXCEPT ![t] = response]
  /\ served' = [served EXCEPT ![t] = @ + 1]
  /\ pc' = [pc EXCEPT ![t] = "idle"]
  /\ job' = [job EXCEPT ![t] = NoJob]

\* No limit applies here.  The body of a 404 is read from the error page up to
\* its end, and a stream that could not be opened never gets there.
SendStatusResponse(t, status) ==
  IF status = 404 /\ "error" \notin readable
    THEN pc' = [pc EXCEPT ![t] = "hung"] /\ UNCHANGED <<job, answer, served>>
    ELSE SendResponse(t, Message(status, job[t].req))

----------------------------------------------------------------------------
(* getResource().                                                          *)

HandleRequest(t) ==
  /\ pc[t] = "idle" /\ served[t] < MaxServed[t]
  /\ \E q \in RequestsOf[t] :
       job' = [job EXCEPT ![t] = [NoJob EXCEPT !.req = q, !.body = Body(t, served[t], q)]]
  /\ pc' = [pc EXCEPT ![t] = "stat"]
  /\ UNCHANGED <<disk, answer, served, running, intact>>

Exists(p) == IF p = Dir THEN directory ELSE link[p] # None

Found(t, res) ==
  /\ job' = [job EXCEPT ![t].r = res, ![t].size = 0, ![t].data = <<>>, ![t].fd = None]
  /\ pc' = [pc EXCEPT ![t] = "found"]

\* Mutant: one block too many.
WillReadTooMuch(t, p) ==
  /\ job' = [job EXCEPT ![t].path = p, ![t].size = Len(content[link[p]]) + 1]
  /\ pc' = [pc EXCEPT ![t] = "open"]

\* stat() of a file that is there: it will be read up to the size it has now.
WillRead(t, p) ==
  /\ job' = [job EXCEPT ![t].path = p, ![t].size = Len(content[link[p]])]
  /\ pc' = [pc EXCEPT ![t] = "open"]

Stat(t) ==
  /\ pc[t] = "stat"
  /\ LET p == job[t].req.path IN
       \/ ~Exists(p) /\ Found(t, NoResource)
       \/ Exists(p) /\ p = Dir
            /\ job' = [job EXCEPT ![t].path = Dir] /\ pc' = [pc EXCEPT ![t] = "index"]
       \/ Exists(p) /\ p # Dir /\ WillRead(t, p)
  /\ intact' = [intact EXCEPT ![t] = @ \/ ~job[t].again]
  /\ UNCHANGED <<disk, answer, served, running>>

\* readDirectory(): the index file, else a page that stands for the directory.
StatIndex(t) ==
  /\ pc[t] = "index"
  /\ \/ Exists(Index) /\ WillRead(t, Index)
     \/ ~Exists(Index) /\ "dirPage" \in readable
          /\ Found(t, [loc |-> Dir, dir |-> TRUE, data |-> <<Text>>])
     \/ ~Exists(Index) /\ "dirPage" \notin readable
          /\ pc' = [pc EXCEPT ![t] = "hung"] /\ UNCHANGED job
  /\ UNCHANGED <<disk, answer, served, running, intact>>

Open(t) ==
  /\ pc[t] = "open"
  /\ IF Exists(job[t].path)
       THEN job' = [job EXCEPT ![t].fd = link[job[t].path]] /\ pc' = [pc EXCEPT ![t] = "read"]
       ELSE Found(t, NoResource)
  /\ UNCHANGED <<disk, answer, served, running, intact>>

\* Mutant: reads until it has as many blocks as stat() promised.
AtEndOfSize(t) == Len(job[t].data) = job[t].size

\* Is there no more to read?
AtEnd(t) == Len(job[t].data) = job[t].size \/ Len(job[t].data) >= Len(content[job[t].fd])

\* One read().
Read(t) ==
  /\ pc[t] = "read" /\ ~AtEnd(t) /\ Len(job[t].data) < Len(content[job[t].fd])
  /\ job' = [job EXCEPT ![t].data = Append(@, content[job[t].fd][Len(@) + 1])]
  /\ UNCHANGED <<disk, pc, answer, served, running, intact>>

\* The data has the size stat() gave, whatever was read of it.
EndRead(t) ==
  /\ pc[t] = "read" /\ AtEnd(t)
  /\ LET got == job[t].data IN
     Found(t, [loc |-> job[t].path, dir |-> FALSE,
               data |-> [k \in 1..job[t].size |-> IF k <= Len(got) THEN got[k] ELSE Zero]])
  /\ UNCHANGED <<disk, answer, served, running, intact>>

----------------------------------------------------------------------------
(* The handlers, from the end of the lookup.                               *)

RunsCgi(t) ==
  /\ job[t].req.cgi
  /\ job[t].req.method \in {"GET", "HEAD"} => job[t].r # NoResource
  /\ job[t].req.method # "DELETE"

\* executeCgi() and parseCGI(): the data of the request is now the output.
RunCgi(t) ==
  /\ pc[t] = "found" /\ ~job[t].again /\ RunsCgi(t)
  /\ job' = [job EXCEPT ![t].body = Output(t, served[t])]
  /\ pc' = [pc EXCEPT ![t] = "act"]
  /\ UNCHANGED <<disk, answer, served, running, intact>>

Ready(t, methods) ==
  /\ job[t].req.method \in methods /\ ~job[t].again
  /\ pc[t] = "act" \/ (pc[t] = "found" /\ ~RunsCgi(t))

\* Mutant: nothing returns behind the 404, and it is sent once more.
AnswerGetTwice(t) ==
  /\ Ready(t, {"GET", "HEAD"})
  /\ LET q == job[t].req
         r == job[t].r
         data == IF q.method = "HEAD" THEN <<>>
                 ELSE IF q.cgi THEN job[t].body ELSE r.data
     IN IF r = NoResource
          THEN /\ answer' = [answer EXCEPT ![t] = Message(404, q)]
               /\ served' = [served EXCEPT ![t] = @ + 2]
               /\ pc' = [pc EXCEPT ![t] = "idle"]
               /\ job' = [job EXCEPT ![t] = NoJob]
          ELSE SendResponse(t, Response(IF r.dir THEN 404 ELSE 200, Len(r.data), data, q))
  /\ UNCHANGED <<disk, running, intact>>

\* The end of handleGet(), for HEAD too.
AnswerGet(t) ==
  /\ Ready(t, {"GET", "HEAD"})
  /\ LET q == job[t].req
         r == job[t].r
         data == IF q.method = "HEAD" THEN <<>>
                 ELSE IF q.cgi THEN job[t].body ELSE r.data
     IN IF r = NoResource THEN SendStatusResponse(t, 404)
        ELSE SendResponse(t, Response(IF r.dir THEN 404 ELSE 200, Len(r.data), data, q))
  /\ UNCHANGED <<disk, running, intact>>

\* Mutant: what the lookup found does not matter.
ExtendsAlways(t) == job[t].req.method = "POST"

\* handlePost() on what exists.
Extends(t) == job[t].req.method = "POST" /\ job[t].r # NoResource

\* Mutant: an existing file is opened without std::ios::app.
OpensWithoutApp(t) == FALSE

OpensWithApp(t) == Extends(t)

\* Where handlePost() and handlePut() write.
Path(t) == IF job[t].r = NoResource THEN job[t].req.path ELSE job[t].r.loc

\* Can p be opened for writing?  The directory never: a request names it with the
\* '/' at its end.
Openable(p) == p \in Files /\ (p \in Inside => directory)

Free == {i \in Inodes : /\ \A p \in Files : link[p] # i
                        /\ \A t \in Threads : job[t].fd # i}

\* std::ofstream fout(...): creates the file and, without app, empties it.
OpenToWrite(t) ==
  /\ Ready(t, {"POST", "PUT"}) /\ Openable(Path(t))
  /\ \E i \in IF Exists(Path(t)) THEN {link[Path(t)]} ELSE Free :
       /\ link' = [link EXCEPT ![Path(t)] = i]
       /\ content' = [content EXCEPT ![i] = IF OpensWithApp(t) /\ Exists(Path(t)) THEN @ ELSE <<>>]
       /\ job' = [job EXCEPT ![t].fd = i, ![t].rest = job[t].body, ![t].append = OpensWithApp(t),
                             ![t].path = Path(t)]
  /\ pc' = [pc EXCEPT ![t] = "write"]
  /\ UNCHANGED <<readable, directory, answer, served, running>>
  /\ Spoil(t, TRUE)

\* It cannot be opened: handlePost() notices only when it creates the file.
CannotOpen(t) ==
  /\ Ready(t, {"POST", "PUT"}) /\ ~Openable(Path(t))
  /\ IF Extends(t)
       THEN /\ job' = [job EXCEPT ![t].again = TRUE]
            /\ pc' = [pc EXCEPT ![t] = "stat"]
            /\ UNCHANGED <<answer, served>>
       ELSE SendStatusResponse(t, 501)
  /\ UNCHANGED <<disk, running, intact>>

\* s with block b at position k, and zeros up to there when s is shorter.
Overwrite(s, k, b) ==
  [n \in 1..(IF Len(s) < k THEN k ELSE Len(s)) |->
     IF n = k THEN b ELSE IF n <= Len(s) THEN s[n] ELSE Zero]

\* One write(): at the end of the file, or at the thread's own offset.
Write(t) ==
  /\ pc[t] = "write" /\ job[t].rest # <<>>
  /\ LET at == Len(job[t].body) - Len(job[t].rest) + 1
         b  == Head(job[t].rest)
     IN content' = [content EXCEPT ![job[t].fd] =
                      IF job[t].append THEN Append(@, b) ELSE Overwrite(@, at, b)]
  /\ job' = [job EXCEPT ![t].rest = Tail(@)]
  /\ UNCHANGED <<readable, directory, link, pc, answer, served, running>>
  /\ Spoil(t, intact[t])

\* What a write is answered with.  A POST that created the file promises a body
\* and has none, unless a CGI ran.
Stored(t) ==
  LET q == job[t].req
      body == job[t].body
  IN IF Extends(t) THEN Response(200, Len(body), body, q)
     ELSE IF q.method = "POST"
       THEN Response(201, Len(body), IF q.cgi THEN body ELSE <<>>, q)
     ELSE Response(IF job[t].r = NoResource THEN 201 ELSE 204, 0, <<>>, q)

\* fout.close() and what follows it: a POST to an existing file looks it up again.
Close(t) ==
  /\ pc[t] = "write" /\ job[t].rest = <<>>
  /\ IF Extends(t)
       THEN /\ job' = [job EXCEPT ![t].fd = None, ![t].again = TRUE]
            /\ pc' = [pc EXCEPT ![t] = "stat"]
            /\ UNCHANGED <<answer, served>>
       ELSE SendResponse(t, Stored(t))
  /\ UNCHANGED <<disk, running, intact>>

\* After the second lookup its result is used unchecked.
AnswerAppend(t) ==
  /\ pc[t] = "found" /\ job[t].again
  /\ IF job[t].r = NoResource
       THEN /\ running' = FALSE
            /\ pc' = [pc EXCEPT ![t] = "crashed"]
            /\ UNCHANGED <<job, answer, served>>
       ELSE SendResponse(t, Stored(t)) /\ UNCHANGED running
  /\ UNCHANGED <<disk, intact>>

\* std::remove() of the path the lookup found; the answer is the same when it
\* fails, because the path is gone or is a directory that is not empty.
Delete(t) ==
  /\ Ready(t, {"DELETE"})
  /\ LET p == job[t].r.loc IN
     /\ link' = [f \in Files |-> IF f = p THEN None ELSE link[f]]
     /\ directory' = (directory /\ (p = Dir => \E f \in Inside : Exists(f)))
  /\ UNCHANGED <<readable, content>>
  /\ IF job[t].r = NoResource THEN SendStatusResponse(t, 404)
     ELSE SendResponse(t, Response(200, 1, <<Text>>, job[t].req))
  /\ UNCHANGED running
  /\ Spoil(t, intact[t])

----------------------------------------------------------------------------
Step(t) ==
  /\ running
  /\ \/ Stat(t) \/ StatIndex(t) \/ Open(t) \/ Read(t) \/ EndRead(t)
     \/ RunCgi(t) \/ AnswerGet(t)
     \/ OpenToWrite(t) \/ CannotOpen(t) \/ Write(t) \/ Close(t) \/ AnswerAppend(t)
     \/ Delete(t)

Next == \E t \in Threads : (running /\ HandleRequest(t)) \/ Step(t)

Spec == Init /\ [][Next]_vars

\* The scheduler runs every thread; peers owe no request.
FairSpec == Spec /\ \A t \in Threads : WF_vars(Step(t))

----------------------------------------------------------------------------
(* Types.                                                                  *)

Places == {"idle", "stat", "index", "open", "read", "found", "act", "write", "hung",
           "crashed"}

Resource == [loc : Paths \cup {None}, dir : BOOLEAN, data : Seq(Block)]

\* Every variable has its type, no two paths are linked to one inode, the
\* directory is there as long as the file in it, and no request is answered twice.
TypeOK ==
  /\ readable \subseteq Pages
  /\ directory \in BOOLEAN
  /\ link \in [Files -> Inodes \cup {None}]
  /\ \A p, q \in Files : link[p] = link[q] /\ link[p] # None => p = q
  /\ \A f \in Inside : link[f] # None => directory
  /\ content \in [Inodes -> Seq(Block)]
  /\ pc \in [Threads -> Places]
  /\ job \in [Threads ->
              [req : Request, r : Resource, body : Seq(Block), path : Paths \cup {None},
               size : Nat, data : Seq(Block), fd : Inodes \cup {None}, rest : Seq(Block),
               append : BOOLEAN, again : BOOLEAN]]
  /\ answer \in [Threads -> Answer]
  /\ served \in [Threads -> Nat] /\ \A t \in Threads : served[t] <= MaxServed[t]
  /\ running \in BOOLEAN
  /\ intact \in [Threads -> BOOLEAN]

----------------------------------------------------------------------------
(* Threads on one disk.                                                    *)

\* What a lookup returns is what the file held when stat() saw it, although
\* other threads append to it while it is read block by block.  Only a thread
\* that empties, overwrites or removes the file spoils it.
LookupsUndisturbed ==
  \A t \in Threads :
    LET r == job[t].r IN
    pc[t] = "found" /\ intact[t] /\ r.loc \in Files =>
      /\ link[r.loc] # None
      /\ IsPrefix(r.data, content[link[r.loc]])

\* Can t, by its next step, empty what inode i holds or write over it?
MayOverwrite(t, i) ==
  /\ job[t].req.method \in {"PUT", "POST"}
  /\ \/ pc[t] = "write" /\ job[t].fd = i /\ ~job[t].append
     \/ pc[t] \in {"found", "act"} /\ Path(t) \in Files /\ link[Path(t)] = i /\ ~Extends(t)

\* Blocks of a file are lost only to a PUT or to a POST that did not find the
\* file when it looked: appends by several threads keep each other's blocks.
AppendsSurvive ==
  [][\A i \in Inodes : i \notin Free =>
       \/ IsPrefix(content[i], content'[i])
       \/ \E t \in Threads : MayOverwrite(t, i)]_vars

\* handlePost() finds again what it has appended to, unless another thread touched
\* the file after it was opened (the directory, after its first lookup): only then
\* does the process die of NULL.
CrashOnlyIfDisturbed ==
  ~running => \E t \in Threads : pc[t] = "crashed" /\ ~intact[t]

\* The comment in handlePost() (Server.cpp:528, "when the file does not exist")
\* divides its cases: in the second the file exists, when it is looked up again
\* too.
SecondLookupFinds ==
  \A t \in Threads : pc[t] = "found" /\ job[t].again => job[t].r # NoResource

----------------------------------------------------------------------------
(* What the answers say.                                                   *)

\* What a thread opened for writing will still write to inode i.
Unwritten(i) ==
  LET writers == {t \in Threads : pc[t] = "write" /\ job[t].fd = i} IN
  IF writers = {} THEN <<>> ELSE job[CHOOSE t \in writers : TRUE].rest

Store == INSTANCE FileStore WITH
  file <- [p \in Files |-> IF link[p] = None THEN None
                           ELSE content[link[p]] \o Unwritten(link[p])],
  owed <- [t \in Threads |-> IF pc[t] = "write" \/ job[t].append THEN Stored(t)
                             ELSE NoAnswer]

\* Threads whose files are their own serve each request as a whole: the disk
\* changes as the method says, once, when the file is opened, and the answer
\* tells what was done.
ImplementsFileStore == Store!Spec

\* "Request Entity Too Large" (HTTPResponse.cpp:94) is said of requests whose
\* body exceeds client_max_body_size.
TooLargeMeansRequest ==
  [][\A t \in Threads :
       served'[t] # served[t] /\ answer'[t].status = 413 =>
         Len(job[t].body) > job[t].req.limit]_vars

----------------------------------------------------------------------------
(* Liveness, under FairSpec.                                               *)

\* Each request is answered, whatever other threads do to the file it is about
\* meanwhile -- or hangs on a page that cannot be read.
RequestsEnd ==
  \A t \in Threads :
    pc[t] # "idle" ~> \/ pc[t] = "idle" \/ ~running
                      \/ pc[t] = "hung" /\ readable # Pages
=============================================================================

------------------------ MODULE HandlersStoreProofs ------------------------
(***************************************************************************)
(* Threads whose files are their own implement FileStore: proved for any   *)
(* number of threads, files and inodes.                                    *)
(***************************************************************************)
EXTENDS HandlersProofs

\* The paths a request about p may read or change: a directory stands for its
\* index file, and is there as long as that is.
Realm(p) == IF p \in {Dir, Index} THEN {Dir, Index} ELSE {p}

\* No two threads are sent requests about the same files.
FilesApart ==
  \A t, u \in Threads : t # u =>
    \A q \in RequestsOf[t], r \in RequestsOf[u] : Realm(q.path) \cap Realm(r.path) = {}

----------------------------------------------------------------------------
(* The invariant.                                                          *)

\* What a request is about, and what a lookup of that returns when nobody
\* else has a hand in it.
TargetOf(q) == IF q.path = Dir /\ Exists(Index) THEN Index ELSE q.path

Result(p) ==
  IF ~Exists(p) THEN NoResource
  ELSE IF p = Dir THEN [loc |-> Dir, dir |-> TRUE, data |-> <<Text>>]
  ELSE [loc |-> p, dir |-> FALSE, data |-> content[link[p]]]

\* What a thread knows of the disk at each place, what it has found of it and
\* what it is going to write.
LooksUp(t) ==
  LET j == job[t]
      p == TargetOf(j.req)
  IN /\ j.req \in RequestsOf[t]
     /\ pc[t] = "index" => j.req.path = Dir /\ directory
     /\ pc[t] \in {"open", "read"} => j.path = p /\ Exists(p) /\ j.size = Len(content[link[p]])
     /\ pc[t] = "read" => j.fd = link[p] /\ IsPrefix(j.data, content[link[p]])
     /\ pc[t] \in {"found", "act"} => j.r = Result(p)

Writes(t) ==
  LET j == job[t]
      p == TargetOf(j.req)
  IN /\ pc[t] = "write" =>
          /\ j.path = p /\ Exists(p) /\ j.fd = link[p]
          /\ j.append <=> Extends(t)
          /\ ~j.append => Len(content[j.fd]) = Len(j.body) - Len(j.rest)
     /\ j.again => /\ j.req.method = "POST" /\ Exists(p) /\ j.r # NoResource
                   /\ pc[t] \notin {"act", "write", "crashed"}
     /\ j.again /\ ~j.append => p = Dir
     /\ j.append => pc[t] = "write" \/ j.again
     /\ pc[t] = "act" => j.req.cgi

Holds(t) ==
  LET j == job[t] IN
  j.body = IF pc[t] \in {"act", "write"} \/ j.again THEN Store!Data(t, j.req)
           ELSE Body(t, served[t], j.req)

Alone(t) ==
  /\ pc[t] = "idle" => ~job[t].append
  /\ pc[t] # "idle" => LooksUp(t) /\ Writes(t) /\ pc[t] # "crashed"
  /\ pc[t] \notin {"idle", "hung"} => Holds(t)

AloneInv == \A t \in Threads : Alone(t)

----------------------------------------------------------------------------
(* The steps of the thread itself.                                         *)

\* While the disk stays, so does what is found on it.
LEMMA DiskStays ==
  ASSUME UNCHANGED disk
  PROVE  /\ \A q : TargetOf(q)' = TargetOf(q)
         /\ \A p : Exists(p)' = Exists(p) /\ Result(p)' = Result(p)
         /\ content' = content /\ link' = link /\ directory' = directory
BY DEF disk, TargetOf, Exists, Result

LEMMA ResultMeans ==
  ASSUME NEW q \in Request
  PROVE  LET p == TargetOf(q) IN
         /\ p \in Paths /\ p # None /\ (p # Dir => p \in Files)
         /\ Exists(p) <=> Result(p) # NoResource
         /\ Exists(p) => Result(p).loc = p /\ Result(p).dir = (p = Dir)
         /\ p \in Realm(q.path)
         /\ Exists(p) \/ p = q.path
<1>1. TargetOf(q) \in Paths /\ TargetOf(q) # None /\ q.path \in Paths
  BY Assumed DEF TargetOf, Paths, Request
<1> QED
  BY <1>1, Assumed DEF Result, NoResource, Paths, TargetOf, Realm

LEMMA Known ==
  ASSUME Inv, NEW t \in Threads
  PROVE  job[t] \in Job /\ job[t].req \in Request /\ pc[t] \in Places
BY Own DEF Inv, Job

LEMMA FoundAlone ==
  ASSUME Inv, NEW t \in Threads, Alone(t), pc[t] \in {"stat", "index", "open", "read"},
         Found(t, Result(TargetOf(job[t].req))), UNCHANGED <<disk, served>>
  PROVE  Alone(t)'
<1> DEFINE p == TargetOf(job[t].req)
<1>1. /\ pc'[t] = "found" /\ job'[t].r = Result(p)
      /\ job'[t].req = job[t].req /\ job'[t].body = job[t].body
      /\ job'[t].append = job[t].append /\ job'[t].again = job[t].again
  <2> DEFINE res == Result(p)
  <2>1. Found(t, res)
    OBVIOUS
  <2> HIDE DEF res
  <2>2. /\ pc'[t] = "found" /\ job'[t].r = res
        /\ job'[t].req = job[t].req /\ job'[t].body = job[t].body
        /\ job'[t].append = job[t].append /\ job'[t].again = job[t].again
    BY <2>1, Own DEF Found, Inv, Job
  <2> QED
    BY <2>2 DEF res
<1>2. p' = p /\ Exists(p)' = Exists(p) /\ Result(p)' = Result(p)
  BY <1>1, DiskStays DEF TargetOf
<1>3. Exists(p) => Result(p) # NoResource
  BY ResultMeans, Known
<1>4. LooksUp(t)'
  BY <1>1, <1>2 DEF LooksUp, Alone
<1>5. Writes(t)'
  BY <1>1, <1>2, <1>3 DEF Writes, Alone, NoResource
<1>6. Holds(t)'
  BY <1>1 DEF Holds, Alone, Store!Data, Store!Body, Store!Output, Body, Output
<1> QED
  BY <1>1, <1>4, <1>5, <1>6 DEF Alone

LEMMA WillReadAlone ==
  ASSUME Inv, NEW t \in Threads, Alone(t), pc[t] \in {"stat", "index"},
         WillRead(t, TargetOf(job[t].req)), Exists(TargetOf(job[t].req)), UNCHANGED <<disk, served>>
  PROVE  Alone(t)'
<1> DEFINE p == TargetOf(job[t].req)
           n == Len(content[link[p]])
<1>1. /\ pc'[t] = "open" /\ job'[t].path = p /\ job'[t].size = n
      /\ job'[t].req = job[t].req /\ job'[t].body = job[t].body /\ job'[t].r = job[t].r
      /\ job'[t].append = job[t].append /\ job'[t].again = job[t].again
  BY Own DEF WillRead, Inv, Job
<1>2. p' = p /\ Exists(p)' = Exists(p) /\ n' = n
  BY <1>1, DiskStays DEF TargetOf
<1>4. LooksUp(t)'
  BY <1>1, <1>2 DEF LooksUp, Alone
<1>5. Writes(t)'
  BY <1>1, <1>2 DEF Writes, Alone, NoResource
<1>6. Holds(t)'
  BY <1>1 DEF Holds, Alone, Store!Data, Store!Body, Store!Output, Body, Output
<1> QED
  BY <1>1, <1>4, <1>5, <1>6 DEF Alone

LEMMA StatAlone ==
  ASSUME Inv, NEW t \in Threads, Alone(t), Stat(t)
  PROVE  Alone(t)'
<1> DEFINE p == job[t].req.path
           q == job[t].req
<1>1. pc[t] = "stat" /\ UNCHANGED <<disk, served>> /\ q \in Request /\ p \in Paths
  BY Known DEF Stat, Request
<1>2. CASE ~Exists(p) /\ Found(t, NoResource)
  <2>1. TargetOf(q) = p
    BY <1>2, Assumed DEF TargetOf, Exists, Inv, TypeInv, TypeOK
  <2> QED
    BY <1>1, <1>2, <2>1, FoundAlone DEF Result
<1>3. CASE /\ Exists(p) /\ p = Dir
           /\ job' = [job EXCEPT ![t].path = Dir] /\ pc' = [pc EXCEPT ![t] = "index"]
  <2>1. /\ pc'[t] = "index" /\ job'[t].req = q /\ job'[t].body = job[t].body
        /\ job'[t].r = job[t].r /\ job'[t].append = job[t].append /\ job'[t].again = job[t].again
    BY <1>3, Own DEF Inv, Job
  <2>2. TargetOf(q)' = TargetOf(q) /\ Exists(TargetOf(q))' = Exists(TargetOf(q))
    BY <1>1, <2>1, DiskStays DEF TargetOf
  <2>3. LooksUp(t)'
    BY <1>1, <1>3, <2>1, <2>2, DiskStays DEF LooksUp, Alone, Exists
  <2>4. Writes(t)'
    BY <1>1, <2>1, <2>2 DEF Writes, Alone, NoResource
  <2>5. Holds(t)'
    BY <1>1, <2>1 DEF Holds, Alone, Store!Data, Store!Body, Store!Output, Body, Output
  <2> QED
    BY <2>1, <2>3, <2>4, <2>5 DEF Alone
<1>4. CASE Exists(p) /\ p # Dir /\ WillRead(t, p)
  BY <1>1, <1>4, WillReadAlone DEF TargetOf
<1> QED
  BY <1>2, <1>3, <1>4 DEF Stat

LEMMA StatIndexAlone ==
  ASSUME Inv, NEW t \in Threads, Alone(t), StatIndex(t)
  PROVE  Alone(t)'
<1> DEFINE q == job[t].req
<1>1. /\ pc[t] = "index" /\ UNCHANGED <<disk, served>> /\ q \in Request
      /\ q.path = Dir /\ directory
  BY Known DEF StatIndex, Alone, LooksUp
<1>2. CASE Exists(Index) /\ WillRead(t, Index)
  <2>1. TargetOf(q) = Index
    BY <1>1, <1>2 DEF TargetOf
  <2> QED
    BY <1>1, <1>2, <2>1, WillReadAlone
<1>3. CASE ~Exists(Index) /\ Found(t, [loc |-> Dir, dir |-> TRUE, data |-> <<Text>>])
  <2>1. TargetOf(q) = Dir /\ Exists(Dir)
    BY <1>1, <1>3 DEF TargetOf, Exists
  <2>2. Result(Dir) = [loc |-> Dir, dir |-> TRUE, data |-> <<Text>>]
    BY <2>1 DEF Result
  <2> QED
    BY <1>1, <1>3, <2>1, <2>2, FoundAlone
<1>4. CASE pc' = [pc EXCEPT ![t] = "hung"] /\ UNCHANGED job
  <2>1. pc'[t] = "hung" /\ TargetOf(q)' = TargetOf(q) /\ Exists(TargetOf(q))' = Exists(TargetOf(q))
    BY <1>1, <1>4, DiskStays, Own DEF TargetOf, Inv
  <2>2. LooksUp(t)'
    BY <1>1, <1>4, <2>1 DEF Alone, LooksUp
  <2>3. Writes(t)'
    BY <1>1, <1>4, <2>1 DEF Alone, Writes
  <2> QED
    BY <2>1, <2>2, <2>3 DEF Alone
<1> QED
  BY <1>2, <1>3, <1>4 DEF StatIndex

LEMMA OpenAlone ==
  ASSUME Inv, NEW t \in Threads, Alone(t), Open(t)
  PROVE  Alone(t)'
<1> DEFINE q == job[t].req
           p == TargetOf(q)
<1>1. /\ pc[t] = "open" /\ UNCHANGED <<disk, served>> /\ q \in Request
      /\ job[t].path = p /\ Exists(p) /\ p \in Files /\ job[t].data = <<>>
  BY Known, Own DEF Open, Alone, LooksUp, LocalsOf, Inv
<1>2. job' = [job EXCEPT ![t].fd = link[p]] /\ pc' = [pc EXCEPT ![t] = "read"]
  BY <1>1 DEF Open
<1>3. /\ pc'[t] = "read" /\ job'[t].req = q /\ job'[t].body = job[t].body
      /\ job'[t].r = job[t].r /\ job'[t].append = job[t].append /\ job'[t].again = job[t].again
      /\ job'[t].fd = link[p] /\ job'[t].path = p /\ job'[t].data = <<>>
      /\ job'[t].size = job[t].size
  BY <1>1, <1>2, Own DEF Inv, Job
<1>4. p' = p /\ Exists(p)' = Exists(p) /\ content' = content /\ link' = link
  BY <1>1, <1>3, DiskStays DEF TargetOf
<1>5. content[link[p]] \in Seq(Block)
  BY <1>1, Own, Assumed DEF Exists, Inv
<1>6. IsPrefix(<<>>, content[link[p]])
  BY <1>5, NothingIsPrefix
<1>7. LooksUp(t)'
  BY <1>1, <1>3, <1>4, <1>6 DEF LooksUp, Alone
<1>8. Writes(t)'
  BY <1>1, <1>3, <1>4 DEF Writes, Alone, NoResource
<1>9. Holds(t)'
  BY <1>1, <1>3 DEF Holds, Alone, Store!Data, Store!Body, Store!Output, Body, Output
<1> QED
  BY <1>3, <1>7, <1>8, <1>9 DEF Alone

LEMMA ReadAlone ==
  ASSUME Inv, NEW t \in Threads, Alone(t), Read(t)
  PROVE  Alone(t)'
<1> DEFINE q == job[t].req
           p == TargetOf(q)
           b == content[link[p]][Len(job[t].data) + 1]
<1>1. /\ pc[t] = "read" /\ pc' = pc /\ UNCHANGED <<disk, served>> /\ q \in Request
      /\ job[t].path = p /\ Exists(p) /\ p \in Files /\ job[t].fd = link[p]
      /\ IsPrefix(job[t].data, content[link[p]]) /\ Len(job[t].data) < Len(content[link[p]])
  BY Known, Own DEF Read, Alone, LooksUp, LocalsOf, Inv
<1>2. job' = [job EXCEPT ![t].data = Append(@, b)]
  BY <1>1 DEF Read
<1>3. /\ pc'[t] = "read" /\ job'[t].req = q /\ job'[t].body = job[t].body
      /\ job'[t].r = job[t].r /\ job'[t].append = job[t].append /\ job'[t].again = job[t].again
      /\ job'[t].fd = link[p] /\ job'[t].path = p /\ job'[t].data = Append(job[t].data, b)
      /\ job'[t].size = job[t].size
  BY <1>1, <1>2, Own DEF Inv, Job
<1>4. p' = p /\ Exists(p)' = Exists(p) /\ content' = content /\ link' = link
  BY <1>1, <1>3, DiskStays DEF TargetOf
<1>5. content[link[p]] \in Seq(Block) /\ job[t].data \in Seq(Block)
  BY <1>1, Own, Assumed DEF Exists, Inv, Job
<1>6. IsPrefix(Append(job[t].data, b), content[link[p]])
  BY <1>1, <1>5, NextBlock
<1>7. LooksUp(t)'
  BY <1>1, <1>3, <1>4, <1>6 DEF LooksUp, Alone
<1>8. Writes(t)'
  BY <1>1, <1>3, <1>4 DEF Writes, Alone, NoResource
<1>9. Holds(t)'
  BY <1>1, <1>3 DEF Holds, Alone, Store!Data, Store!Body, Store!Output, Body, Output
<1> QED
  BY <1>3, <1>7, <1>8, <1>9 DEF Alone

\* What was read to its end is what the file holds.
LEMMA EndReadAlone ==
  ASSUME Inv, NEW t \in Threads, Alone(t), EndRead(t)
  PROVE  Alone(t)'
<1> DEFINE q == job[t].req
           p == TargetOf(q)
           got == job[t].data
           all == content[link[p]]
           n == job[t].size
<1>1. /\ pc[t] = "read" /\ UNCHANGED <<disk, served>> /\ q \in Request
      /\ job[t].path = p /\ Exists(p) /\ p \in Files /\ job[t].fd = link[p]
      /\ IsPrefix(got, all) /\ n = Len(all)
      /\ Len(got) = n \/ Len(got) >= Len(all)
      /\ Found(t, [loc |-> p, dir |-> FALSE,
                   data |-> [k \in 1..n |-> IF k <= Len(got) THEN got[k] ELSE Zero]])
  BY Known, Own DEF EndRead, AtEnd, Alone, LooksUp, LocalsOf, Inv
<1>2. all \in Seq(Block) /\ got \in Seq(Block)
  BY <1>1, Own, Assumed DEF Exists, Inv, Job
<1>3. Len(got) = n /\ \A k \in 1..n : got[k] = all[k]
  <2>1. IsPrefix(got, all) /\ n = Len(all) /\ (Len(got) = n \/ Len(got) >= Len(all))
    BY <1>1
  <2> HIDE DEF got, all, n
  <2>2. Len(got) <= Len(all) /\ \A k \in 1..Len(got) : got[k] = all[k]
    BY <1>2, <2>1, PrefixMeans
  <2>3. Len(got) \in Nat /\ Len(all) \in Nat
    BY <1>2, LenProperties
  <2>4. Len(got) = n
    BY <2>1, <2>2, <2>3
  <2> QED
    BY <2>2, <2>4
<1>4. [k \in 1..n |-> IF k <= Len(got) THEN got[k] ELSE Zero] = all
  <2>1. all = [k \in 1..Len(all) |-> all[k]]
    BY <1>2
  <2>2. n = Len(all)
    BY <1>1
  <2> HIDE DEF got, all, n
  <2>3. Len(got) \in Nat /\ \A k \in 1..n : k <= Len(got)
    BY <1>2, <1>3
  <2>4. \A k \in 1..n : (IF k <= Len(got) THEN got[k] ELSE Zero) = all[k]
    BY <1>3, <2>3
  <2> QED
    BY <2>1, <2>2, <2>4
<1>5. Result(p) = [loc |-> p, dir |-> FALSE, data |-> all]
  BY <1>1, Assumed DEF Result
<1> QED
  BY <1>1, <1>4, <1>5, FoundAlone

LEMMA RunCgiAlone ==
  ASSUME Inv, NEW t \in Threads, Alone(t), RunCgi(t)
  PROVE  Alone(t)'
<1> DEFINE q == job[t].req
           out == Output(t, served[t])
<1>1. /\ pc[t] = "found" /\ UNCHANGED <<disk, served>> /\ q \in Request /\ q.cgi
      /\ ~job[t].again
  BY Known DEF RunCgi, RunsCgi
<1>2. /\ pc'[t] = "act" /\ job'[t].req = q /\ job'[t].body = out
      /\ job'[t].r = job[t].r /\ job'[t].append = job[t].append /\ job'[t].again = job[t].again
  BY <1>1, Own DEF RunCgi, Inv, Job
<1>3. TargetOf(q)' = TargetOf(q) /\ Result(TargetOf(q))' = Result(TargetOf(q))
  BY <1>1, <1>2, DiskStays DEF TargetOf
<1>4. LooksUp(t)'
  BY <1>1, <1>2, <1>3 DEF LooksUp, Alone
<1>5. Writes(t)'
  BY <1>1, <1>2, <1>3 DEF Writes, Alone
<1>6. Holds(t)'
  BY <1>1, <1>2 DEF Holds, Store!Data, Store!Output, Output, BlockOf, Store!BlockOf
<1> QED
  BY <1>2, <1>4, <1>5, <1>6 DEF Alone

LEMMA HandleRequestAlone ==
  ASSUME Inv, NEW t \in Threads, HandleRequest(t)
  PROVE  Alone(t)'
<1>1. PICK q \in RequestsOf[t] :
        job' = [job EXCEPT ![t] = [NoJob EXCEPT !.req = q, !.body = Body(t, served[t], q)]]
  BY DEF HandleRequest
<1>2. /\ pc'[t] = "stat" /\ job'[t].req = q /\ job'[t].body = Body(t, served[t], q)
      /\ ~job'[t].append /\ ~job'[t].again /\ served' = served
  BY <1>1, Own DEF HandleRequest, NoJob, Inv
<1> QED
  BY <1>1, <1>2 DEF Alone, LooksUp, Writes, Holds

\* A thread that has answered, or hangs on a page it cannot read.
LEMMA AnsweredAlone ==
  ASSUME Inv, NEW t \in Threads, NEW response, SendResponse(t, response)
  PROVE  Alone(t)' /\ pc'[t] = "idle" /\ job'[t] = NoJob
BY Own DEF SendResponse, Inv, NoJob, Alone

LEMMA StatusAlone ==
  ASSUME Inv, NEW t \in Threads, Alone(t), NEW status, SendStatusResponse(t, status), UNCHANGED <<disk>>,
         pc[t] \in {"found", "act"}
  PROVE  Alone(t)'
<1>1. CASE status = 404 /\ "error" \notin readable
  <2>1. pc'[t] = "hung" /\ job' = job
    BY <1>1, Known DEF SendStatusResponse, Inv, TypeInv, TypeOK
  <2>2. \A q : TargetOf(q)' = TargetOf(q) /\ Exists(TargetOf(q))' = Exists(TargetOf(q))
    BY DiskStays
  <2>3. LooksUp(t)'
    BY <2>1 DEF Alone, LooksUp
  <2>4. Writes(t)'
    BY <2>1, <2>2 DEF Alone, Writes
  <2> QED
    BY <2>1, <2>3, <2>4 DEF Alone
<1>2. CASE ~(status = 404 /\ "error" \notin readable)
  BY <1>2, AnsweredAlone DEF SendStatusResponse
<1> QED
  BY <1>1, <1>2

\* Where a handler that is about to write writes, and how.
LEMMA PathMeans ==
  ASSUME Inv, NEW t \in Threads, Alone(t), pc[t] \in {"found", "act"}
  PROVE  /\ Path(t) = TargetOf(job[t].req)
         /\ Extends(t) <=> job[t].req.method = "POST" /\ Exists(TargetOf(job[t].req))
         /\ job[t].r = Result(TargetOf(job[t].req))
<1>1. job[t].r = Result(TargetOf(job[t].req))
  BY DEF Alone, LooksUp
<1> QED
  BY <1>1, ResultMeans, Known DEF Path, Extends

LEMMA AnswerGetAlone ==
  ASSUME Inv, NEW t \in Threads, Alone(t), AnswerGet(t)
  PROVE  Alone(t)'
<1>1. pc[t] \in {"found", "act"} /\ UNCHANGED disk
  BY DEF AnswerGet, Ready
<1> QED
  BY <1>1, AnsweredAlone, StatusAlone DEF AnswerGet

LEMMA DeleteAlone ==
  ASSUME Inv, NEW t \in Threads, Alone(t), Delete(t)
  PROVE  Alone(t)'
<1>1. CASE job[t].r # NoResource
  BY <1>1, AnsweredAlone DEF Delete
<1>2. CASE job[t].r = NoResource
  <2>1. pc[t] \in {"found", "act"} /\ job[t].r.loc = None
    BY <1>2 DEF Delete, Ready, NoResource
  <2>2. UNCHANGED disk
    BY <2>1, Assumed, Own DEF Delete, disk, Inv, TypeInv, TypeOK, Paths
  <2> QED
    BY <1>2, <2>1, <2>2, StatusAlone DEF Delete
<1> QED
  BY <1>1, <1>2

\* A POST to what exists looks it up again, and will find it.
LEMMA AgainAlone ==
  ASSUME Inv, NEW t \in Threads, Alone(t), pc[t] \in {"found", "act", "write"}, Extends(t),
         Exists(TargetOf(job[t].req)), UNCHANGED <<disk, served>>, Holds(t),
         job[t].body = Store!Data(t, job[t].req),
         ~job[t].append => TargetOf(job[t].req) = Dir,
         pc' = [pc EXCEPT ![t] = "stat"],
         \/ job' = [job EXCEPT ![t].again = TRUE]
         \/ job' = [job EXCEPT ![t].fd = None, ![t].again = TRUE]
  PROVE  Alone(t)'
<1> DEFINE q == job[t].req
<1>1. /\ pc'[t] = "stat" /\ job'[t].req = q /\ job'[t].body = job[t].body /\ job'[t].r = job[t].r
      /\ job'[t].append = job[t].append /\ job'[t].again = TRUE
  BY Own DEF Inv, Job
<1>2. TargetOf(q)' = TargetOf(q) /\ Exists(TargetOf(q))' = Exists(TargetOf(q))
  BY <1>1, DiskStays DEF TargetOf
<1>3. LooksUp(t)'
  BY <1>1 DEF Alone, LooksUp
<1>4. Writes(t)'
  BY <1>1, <1>2, Assumed DEF Writes, Extends, NoResource
<1>5. Holds(t)'
  BY <1>1 DEF Holds, Store!Data, Store!Body, Store!Output, Body, Output
<1> QED
  BY <1>1, <1>3, <1>4, <1>5 DEF Alone

\* A handler that writes has the data of its request.
LEMMA ReadyHolds ==
  ASSUME Inv, NEW t \in Threads, Alone(t), Ready(t, {"POST", "PUT"})
  PROVE  /\ job[t].body = Store!Data(t, job[t].req) /\ Holds(t) /\ ~job[t].append /\ ~job[t].again
         /\ pc[t] \in {"found", "act"} /\ job[t].req.method \in {"POST", "PUT"}
<1>1. pc[t] \in {"found", "act"} /\ ~job[t].again /\ job[t].req.method \in {"POST", "PUT"}
  BY DEF Ready
<1>2. pc[t] = "act" \/ ~job[t].req.cgi
  BY <1>1 DEF Ready, RunsCgi
<1>3. ~job[t].append
  BY <1>1, Known DEF Alone, Writes, Job
<1>4. Holds(t)
  BY <1>1 DEF Alone
<1> QED
  BY <1>1, <1>2, <1>3, <1>4 DEF Holds, Store!Data, Store!Body, Body, Store!BlockOf, BlockOf

LEMMA CannotOpenAlone ==
  ASSUME Inv, NEW t \in Threads, Alone(t), CannotOpen(t)
  PROVE  Alone(t)'
<1> DEFINE p == TargetOf(job[t].req)
<1>1. /\ pc[t] \in {"found", "act"} /\ UNCHANGED disk /\ ~Openable(p) /\ Holds(t)
      /\ job[t].body = Store!Data(t, job[t].req)
      /\ Extends(t) => Exists(p)
  BY PathMeans, ReadyHolds DEF CannotOpen
<1>2. CASE Extends(t)
  <2>1. p = Dir
    BY <1>1, <1>2, ResultMeans, Known, Assumed DEF Openable, Exists, Inv, TypeInv, TypeOK
  <2> QED
    BY <1>1, <1>2, <2>1, AgainAlone DEF CannotOpen
<1>3. CASE ~Extends(t)
  BY <1>1, <1>3, StatusAlone DEF CannotOpen
<1> QED
  BY <1>2, <1>3

LEMMA CloseAlone ==
  ASSUME Inv, NEW t \in Threads, Alone(t), Close(t)
  PROVE  Alone(t)'
<1>1. CASE Extends(t)
  <2>1. /\ pc[t] = "write" /\ UNCHANGED <<disk, served>> /\ Exists(TargetOf(job[t].req))
        /\ Holds(t) /\ job[t].append
    BY <1>1, Known DEF Close, Alone, Writes, Job
  <2> QED
    BY <1>1, <2>1, AgainAlone DEF Close, Holds
<1>2. CASE ~Extends(t)
  BY <1>2, AnsweredAlone DEF Close
<1> QED
  BY <1>1, <1>2

\* The second lookup has found what the first one did.
LEMMA AgainFinds ==
  ASSUME Inv, NEW t \in Threads, Alone(t), pc[t] # "idle", job[t].again
  PROVE  /\ job[t].r # NoResource /\ Exists(TargetOf(job[t].req)) /\ Extends(t)
         /\ ~job[t].append => TargetOf(job[t].req) = Dir
BY DEF Alone, Writes, Extends

LEMMA AnswerAppendAlone ==
  ASSUME Inv, NEW t \in Threads, Alone(t), AnswerAppend(t)
  PROVE  Alone(t)'
BY AgainFinds, AnsweredAlone DEF AnswerAppend

LEMMA OverwriteAtEnd ==
  ASSUME NEW s \in Seq(Block), NEW b \in Block
  PROVE  Overwrite(s, Len(s) + 1, b) = Append(s, b)
<1> DEFINE k == Len(s) + 1
           o == Overwrite(s, k, b)
           a == Append(s, b)
<1>1. k \in Nat \ {0} /\ Len(s) < k /\ Len(s) \in Nat
  OBVIOUS
<1>2. o = [n \in 1..k |-> IF n = k THEN b ELSE IF n <= Len(s) THEN s[n] ELSE Zero]
  BY <1>1 DEF Overwrite
<1>3. o \in Seq(Block) /\ a \in Seq(Block) /\ Len(a) = k
  BY <1>1, OverwriteType
<1>4. DOMAIN o = 1..k
  BY <1>2
<1>5. Len(o) = k
  BY <1>1, <1>3, <1>4
<1>6. \A n \in 1..k : o[n] = a[n]
  <2> TAKE n \in 1..k
  <2>1. n = k \/ (n # k /\ n \in 1..Len(s))
    BY <1>1
  <2>2. a[n] = IF n = k THEN b ELSE s[n]
    BY <2>1
  <2>3. o[n] = IF n = k THEN b ELSE s[n]
    BY <1>2, <2>1
  <2> QED
    BY <2>2, <2>3
<1> HIDE DEF o, a, k
<1> QED
  BY <1>3, <1>5, <1>6, SeqEqual DEF o, a, k

LEMMA WriteAlone ==
  ASSUME Inv, NEW t \in Threads, Alone(t), Write(t)
  PROVE  Alone(t)'
<1> DEFINE q == job[t].req
           p == TargetOf(q)
           i == job[t].fd
           rest == job[t].rest
           body == job[t].body
           at == Len(body) - Len(rest) + 1
           b == Head(rest)
           new == IF job[t].append THEN Append(content[i], b) ELSE Overwrite(content[i], at, b)
<1>1. /\ pc[t] = "write" /\ rest # <<>> /\ UNCHANGED <<directory, link, pc, served>>
      /\ content' = [content EXCEPT ![i] = new] /\ job' = [job EXCEPT ![t].rest = Tail(@)]
  BY DEF Write
<1>2. /\ rest \in Seq(Block) /\ body \in Seq(Block) /\ i \in Inodes /\ content[i] \in Seq(Block)
      /\ content \in [Inodes -> Seq(Block)] /\ q \in Request
  BY <1>1, Known, Own DEF Inv, Job, LocalsOf
<1>3. /\ b \in Block /\ Tail(rest) \in Seq(Block) /\ Len(Tail(rest)) = Len(rest) - 1
      /\ Len(rest) \in Nat /\ Len(body) \in Nat
  BY <1>1, <1>2
<1>4. /\ pc'[t] = "write" /\ job'[t].req = q /\ job'[t].body = body /\ job'[t].r = job[t].r
      /\ job'[t].append = job[t].append /\ job'[t].again = job[t].again
      /\ job'[t].fd = i /\ job'[t].path = job[t].path /\ job'[t].rest = Tail(rest)
  BY <1>1, Own DEF Inv, Job
<1>5. p' = p /\ Exists(p)' = Exists(p)
  BY <1>1, <1>4 DEF TargetOf, Exists
<1>6. Writes(t) /\ LooksUp(t) /\ Holds(t)
  BY <1>1 DEF Alone
<1>7. ASSUME ~job[t].append PROVE Len(content'[i]) = Len(body) - Len(Tail(rest))
  <2>1. Len(content[i]) = Len(body) - Len(rest)
    BY <1>1, <1>6, <1>7 DEF Writes
  <2>2. at = Len(content[i]) + 1
    BY <2>1
  <2>3. content'[i] = Append(content[i], b)
    BY <1>1, <1>2, <1>3, <1>7, <2>2, OverwriteAtEnd
  <2>4. Len(Append(content[i], b)) = Len(content[i]) + 1
    BY <1>2, <1>3
  <2>5. Len(content'[i]) = Len(content[i]) + 1
    BY <2>3, <2>4
  <2>6. \A x, y \in Nat : (x - y) + 1 = x - (y - 1)
    OBVIOUS
  <2> HIDE DEF rest, body, i
  <2> QED
    BY <1>3, <2>1, <2>5, <2>6
<1>8. LooksUp(t)'
  BY <1>1, <1>4, <1>6 DEF LooksUp
<1> HIDE DEF p
<1>9. Writes(t)'
  <2>1. job[t].path = p /\ Exists(p) /\ i = link[p] /\ (job[t].append <=> Extends(t)) /\ ~job[t].again
    BY <1>1, <1>6 DEF Writes, p
  <2>2. Extends(t)' = Extends(t)
    BY <1>4 DEF Extends
  <2> QED
    BY <1>1, <1>4, <1>5, <1>7, <2>1, <2>2 DEF Writes, p
<1>10. Holds(t)'
  BY <1>1, <1>4, <1>6 DEF Holds, Store!Data, Store!Body, Store!Output, Body, Output
<1> QED
  BY <1>4, <1>8, <1>9, <1>10 DEF Alone

LEMMA OpenToWriteAlone ==
  ASSUME Inv, NEW t \in Threads, Alone(t), OpenToWrite(t)
  PROVE  Alone(t)'
<1> DEFINE q == job[t].req
           p == TargetOf(q)
<1>1. /\ job[t].body = Store!Data(t, q) /\ ~job[t].append /\ ~job[t].again
      /\ pc[t] \in {"found", "act"} /\ Path(t) = p /\ q \in Request
      /\ Extends(t) <=> q.method = "POST" /\ Exists(p)
  BY ReadyHolds, PathMeans, Known DEF OpenToWrite
<1>2. p \in Files /\ p # Dir
  BY <1>1, Assumed DEF OpenToWrite, Openable
<1>3. PICK i \in IF Exists(p) THEN {link[p]} ELSE Free :
        /\ link' = [link EXCEPT ![p] = i]
        /\ content' = [content EXCEPT ![i] = IF Extends(t) /\ Exists(p) THEN @ ELSE <<>>]
        /\ job' = [job EXCEPT ![t].fd = i, ![t].rest = job[t].body, ![t].append = Extends(t),
                              ![t].path = p]
  BY <1>1 DEF OpenToWrite, OpensWithApp
<1>4. pc' = [pc EXCEPT ![t] = "write"] /\ UNCHANGED <<directory, served>>
  BY DEF OpenToWrite
<1>5. i \in Inodes /\ i # None
  BY <1>2, Own, Assumed DEF Exists, Free, Inv
<1>6. /\ job'[t].req = q /\ job'[t].body = job[t].body /\ job'[t].r = job[t].r
      /\ job'[t].append = Extends(t) /\ job'[t].again = job[t].again
      /\ job'[t].fd = i /\ job'[t].path = p /\ job'[t].rest = job[t].body
  <2> DEFINE app == Extends(t)
  <2>1. job' = [job EXCEPT ![t].fd = i, ![t].rest = job[t].body, ![t].append = app,
                           ![t].path = p]
    BY <1>3
  <2> HIDE DEF app, p
  <2>2. /\ job'[t].req = q /\ job'[t].body = job[t].body /\ job'[t].r = job[t].r
        /\ job'[t].append = app /\ job'[t].again = job[t].again
        /\ job'[t].fd = i /\ job'[t].path = p /\ job'[t].rest = job[t].body
    BY <2>1, Own DEF Inv, Job
  <2> QED
    BY <2>2 DEF app
<1>7. pc'[t] = "write" /\ link'[p] = i
  BY <1>2, <1>3, <1>4, Own DEF Inv
<1>8. p' = p
  BY SMTT(30), <1>2, <1>3, <1>4, <1>5, <1>6, <1>7, Own, Assumed DEF TargetOf, Exists, Inv
<1>9. Exists(p)'
  BY <1>2, <1>5, <1>7, <1>8 DEF Exists
<1>10. Extends(t)' = Extends(t)
  BY <1>6 DEF Extends
<1>11. ~Extends(t) => Len(content'[i]) = 0
  BY <1>3, <1>5, Own, EmptySeq DEF Inv
<1>12. Len(job[t].body) \in Nat
  BY Known DEF Job
<1>13. LooksUp(t)'
  BY <1>1, <1>6, <1>7 DEF LooksUp, Alone
<1> HIDE DEF p
<1>14. Writes(t)'
  BY <1>1, <1>6, <1>7, <1>8, <1>9, <1>10, <1>11, <1>12 DEF Writes, p
<1>15. Holds(t)'
  BY <1>1, <1>4, <1>6, <1>7 DEF Holds, Store!Data, Store!Body, Store!Output, Body, Output
<1> QED
  BY <1>7, <1>13, <1>14, <1>15 DEF Alone

LEMMA OwnStaysAlone ==
  ASSUME Inv, NEW t \in Threads, Alone(t), (running /\ HandleRequest(t)) \/ Step(t)
  PROVE  Alone(t)'
BY HandleRequestAlone, StatAlone, StatIndexAlone, OpenAlone, ReadAlone, EndReadAlone, RunCgiAlone,
   AnswerGetAlone, OpenToWriteAlone, CannotOpenAlone, WriteAlone, CloseAlone, AnswerAppendAlone,
   DeleteAlone DEF Step

----------------------------------------------------------------------------
(* The steps of other threads.                                             *)

\* A step leaves what the request of u is about.
Spared(u) ==
  LET mine == Realm(job[u].req.path) IN
  /\ \A f \in Files \cap mine :
       link'[f] = link[f] /\ (link[f] # None => content'[link[f]] = content[link[f]])
  /\ Dir \in mine => directory' = directory

LEMMA SparedAlone ==
  ASSUME Inv, NEW u \in Threads, Alone(u), Spared(u),
         job'[u] = job[u], pc'[u] = pc[u], served'[u] = served[u]
  PROVE  Alone(u)'
<1> DEFINE q == job[u].req
           p == TargetOf(q)
<1>1. q \in Request
  BY Known
<1>2. p' = p
  BY <1>1, Assumed DEF TargetOf, Spared, Realm, Exists
<1>3. Exists(p)' = Exists(p)
  BY <1>1, <1>2, ResultMeans DEF Spared, Exists
<1>4. p \in Files /\ Exists(p) => link'[p] = link[p] /\ content'[link[p]] = content[link[p]]
  BY <1>1, ResultMeans, Assumed DEF Spared, Exists
<1>5. Result(p)' = Result(p)
  BY <1>1, <1>2, <1>3, <1>4, ResultMeans DEF Result
<1>6. q.path = Dir => directory' = directory
  BY DEF Spared, Realm
<1> HIDE DEF p
<1>7. ASSUME LooksUp(u) PROVE LooksUp(u)'
  <2>1. pc[u] \in {"open", "read"} => p \in Files /\ Exists(p)
    BY <1>7, Own DEF LooksUp, Inv, LocalsOf, p
  <2>2. pc[u] \in {"open", "read"} => content'[link'[p]] = content[link[p]] /\ link'[p] = link[p]
    BY <1>4, <2>1
  <2> QED
    BY <1>2, <1>3, <1>5, <1>6, <1>7, <2>1, <2>2 DEF LooksUp, p
<1>8. ASSUME Writes(u) PROVE Writes(u)'
  <2>1. pc[u] = "write" => p \in Files /\ Exists(p) /\ job[u].fd = link[p]
    BY <1>8, Own DEF Writes, Inv, LocalsOf, p
  <2>2. pc[u] = "write" => content'[link'[p]] = content[link[p]] /\ link'[p] = link[p]
    BY <1>4, <2>1
  <2>3. Extends(u)' = Extends(u)
    BY DEF Extends
  <2> QED
    BY <1>2, <1>3, <1>8, <2>1, <2>2, <2>3 DEF Writes, p, NoResource
<1>9. ASSUME Holds(u) PROVE Holds(u)'
  BY <1>9 DEF Holds, Store!Data, Store!Body, Store!Output, Body, Output
<1> QED
  BY <1>7, <1>8, <1>9 DEF Alone

LEMMA RealmsApart ==
  ASSUME FilesApart, NEW t \in Threads, NEW u \in Threads, t # u, Alone(t), Alone(u),
         pc[t] # "idle", pc[u] # "idle"
  PROVE  Realm(job[t].req.path) \cap Realm(job[u].req.path) = {}
BY DEF FilesApart, Alone, LooksUp

\* A thread changes the disk only where its request is about.
LEMMA SparesOthers ==
  ASSUME FilesApart, Inv, NEW t \in Threads, NEW u \in Threads, t # u, Alone(t), Alone(u),
         pc[u] # "idle", (running /\ HandleRequest(t)) \/ Step(t)
  PROVE  Spared(u)
<1> DEFINE q == job[t].req
           p == TargetOf(q)
           mine == Realm(job[u].req.path)
<1>1. /\ link \in [Files -> Inodes \cup {None}] /\ content \in [Inodes -> Seq(Block)]
      /\ \A f, g \in Files : link[f] = link[g] /\ link[f] # None => f = g
      /\ q \in Request /\ p \in Realm(q.path)
  BY Known, ResultMeans DEF Inv, TypeInv, TypeOK
<1>2. ASSUME pc[t] # "idle" PROVE p \notin mine
  BY <1>1, <1>2, RealmsApart
<1>3. CASE UNCHANGED disk
  BY <1>3 DEF disk, Spared
<1>4. CASE OpenToWrite(t)
  <2>1. pc[t] \in {"found", "act"} /\ Path(t) = p /\ p \in Files /\ p # Dir /\ directory' = directory
    BY <1>4, ReadyHolds, PathMeans, Assumed DEF OpenToWrite, Openable
  <2>2. PICK i \in IF Exists(p) THEN {link[p]} ELSE Free :
          /\ link' = [link EXCEPT ![p] = i]
          /\ content' = [content EXCEPT ![i] = IF OpensWithApp(t) /\ Exists(p) THEN @ ELSE <<>>]
    BY <1>4, <2>1 DEF OpenToWrite
  <2>3. \A f \in Files : f # p /\ link[f] # None => link[f] # i
    BY <1>1, <2>1, <2>2 DEF Exists, Free
  <2>4. \A f \in Files : f # p =>
          link'[f] = link[f] /\ (link[f] # None => content'[link[f]] = content[link[f]])
    BY <1>1, <2>2, <2>3
  <2> QED
    BY <1>2, <2>1, <2>4 DEF Spared
<1>5. CASE Write(t)
  <2>1. /\ pc[t] = "write" /\ job[t].fd = link[p] /\ p \in Files /\ link[p] # None
        /\ link' = link /\ directory' = directory
    BY <1>5, Own, Assumed DEF Write, Alone, Writes, Inv, LocalsOf
  <2>2. \A f \in Files : f # p /\ link[f] # None => content'[link[f]] = content[link[f]]
    BY <1>1, <1>5, <2>1 DEF Write
  <2> QED
    BY <1>2, <2>1, <2>2 DEF Spared
<1>6. CASE Delete(t)
  <2>1. /\ pc[t] \in {"found", "act"} /\ content' = content
        /\ link' = [f \in Files |-> IF f = job[t].r.loc THEN None ELSE link[f]]
        /\ directory' = (directory /\ (job[t].r.loc = Dir => \E f \in Inside : Exists(f)))
    BY <1>6 DEF Delete, Ready
  <2>2. job[t].r.loc = p \/ job[t].r.loc = None
    BY <1>1, <2>1, PathMeans, ResultMeans DEF NoResource
  <2>3. job[t].r.loc \notin mine \/ job[t].r.loc = None
    BY <1>2, <2>1, <2>2
  <2>4. \A f \in Files \cap mine : f # job[t].r.loc
    BY <2>3, Assumed DEF Paths
  <2>5. directory \in BOOLEAN /\ (Dir \in mine => job[t].r.loc # Dir)
    BY <2>3, Assumed DEF Paths, Inv, TypeInv, TypeOK
  <2> QED
    BY <2>1, <2>4, <2>5 DEF Spared
<1> QED
  BY <1>3, <1>4, <1>5, <1>6 DEF Step, HandleRequest, Stat, StatIndex, Open, Read, EndRead, RunCgi,
     AnswerGet, CannotOpen, Close, AnswerAppend

LEMMA AloneStep ==
  ASSUME FilesApart, Inv, AloneInv, [Next]_vars
  PROVE  AloneInv'
<1>1. CASE UNCHANGED vars
  <2>1. ASSUME NEW u \in Threads PROVE Spared(u) /\ job'[u] = job[u] /\ pc'[u] = pc[u] /\ served'[u] = served[u]
    BY <1>1 DEF vars, Spared
  <2> QED
    BY <2>1, SparedAlone DEF AloneInv
<1>2. ASSUME NEW t \in Threads, (running /\ HandleRequest(t)) \/ Step(t), NEW u \in Threads, u # t
      PROVE  Alone(u)'
  <2>1. job'[u] = job[u] /\ pc'[u] = pc[u] /\ served'[u] = served[u] /\ Alone(u) /\ Alone(t)
    BY <1>2, StepIsGood DEF Good, Moves, Answers, AloneInv
  <2>2. CASE pc[u] = "idle"
    BY <2>1, <2>2 DEF Alone
  <2>3. CASE pc[u] # "idle"
    BY <1>2, <2>1, <2>3, SparesOthers, SparedAlone
  <2> QED
    BY <2>2, <2>3
<1>3. ASSUME NEW t \in Threads, (running /\ HandleRequest(t)) \/ Step(t)
      PROVE  Alone(t)'
  BY <1>3, OwnStaysAlone DEF AloneInv
<1> QED
  BY <1>1, <1>2, <1>3 DEF Next, AloneInv

LEMMA AloneInit == Init => AloneInv
BY Assumed DEF Init, AloneInv, Alone, NoJob

LEMMA AloneHolds == ASSUME FilesApart PROVE Spec => [](Inv /\ AloneInv)
<1>1. Inv /\ AloneInv /\ [Next]_vars => (Inv /\ AloneInv)'
  BY InvStep, AloneStep
<1> QED
  BY <1>1, InitInv, AloneInit, PTL DEF Spec

\* handlePost() finds again what it has appended to, and the process does not
\* die of it, when no two threads are sent requests about the same files.
THEOREM ApartSecondLookupFinds ==
  ASSUME FilesApart
  PROVE  Spec => [](SecondLookupFinds /\ running)
<1>1. Inv /\ AloneInv => SecondLookupFinds /\ running
  BY DEF AloneInv, Alone, Writes, SecondLookupFinds, Inv, DeadInv
<1> QED
  BY <1>1, AloneHolds, PTL

----------------------------------------------------------------------------
(* The mapping.                                                            *)

FileOf(p)  == IF link[p] = None THEN None ELSE content[link[p]] \o Unwritten(link[p])
OwedOf(t)  == IF pc[t] = "write" \/ job[t].append THEN Stored(t) ELSE NoAnswer

StoreFile == [p \in Files |-> FileOf(p)]
StoreOwed == [t \in Threads |-> OwedOf(t)]

\* FileStore's own instances of the operators of FileRequests are the same.
LEMMA SameRequests ==
  /\ \A status, q : Store!Message(status, q) = Message(status, q)
  /\ \A status, length, data, q :
       Store!Response(status, length, data, q) = Response(status, length, data, q)
  /\ Store!NoAnswer = NoAnswer /\ Store!Text = Text
BY DEF Store!Message, Message, Store!Response, Response, Store!NoAnswer, NoAnswer, Store!Text, Text,
       Store!BlockOf, BlockOf

\* Does t still write to inode i?
WritesTo(t, i) == pc[t] = "write" /\ job[t].fd = i

LEMMA OneWriter ==
  ASSUME NEW t \in Threads, NEW i
  PROVE  /\ (\A u \in Threads : WritesTo(u, i) <=> u = t) => Unwritten(i) = job[t].rest
         /\ (\A u \in Threads : WritesTo(u, i)' <=> u = t) => Unwritten(i)' = job'[t].rest
<1>1. ASSUME \A u \in Threads : WritesTo(u, i) <=> u = t PROVE Unwritten(i) = job[t].rest
  <2>1. {u \in Threads : pc[u] = "write" /\ job[u].fd = i} = {t}
    BY <1>1 DEF WritesTo
  <2> QED
    BY <2>1 DEF Unwritten
<1>2. ASSUME \A u \in Threads : WritesTo(u, i)' <=> u = t PROVE Unwritten(i)' = job'[t].rest
  <2>1. {u \in Threads : pc'[u] = "write" /\ job'[u].fd = i} = {t}
    BY <1>2 DEF WritesTo
  <2> QED
    BY <2>1 DEF Unwritten
<1> QED
  BY <1>1, <1>2

LEMMA NoWriter ==
  ASSUME NEW i
  PROVE  /\ (\A u \in Threads : ~WritesTo(u, i)) => Unwritten(i) = <<>>
         /\ (\A u \in Threads : ~WritesTo(u, i)') => Unwritten(i)' = <<>>
<1>1. ASSUME \A u \in Threads : ~WritesTo(u, i) PROVE Unwritten(i) = <<>>
  <2>1. {u \in Threads : pc[u] = "write" /\ job[u].fd = i} = {}
    BY <1>1 DEF WritesTo
  <2> QED
    BY <2>1 DEF Unwritten
<1>2. ASSUME \A u \in Threads : ~WritesTo(u, i)' PROVE Unwritten(i)' = <<>>
  <2>1. {u \in Threads : pc'[u] = "write" /\ job'[u].fd = i} = {}
    BY <1>2 DEF WritesTo
  <2> QED
    BY <2>1 DEF Unwritten
<1> QED
  BY <1>1, <1>2

LEMMA SameWriters ==
  ASSUME NEW i, \A u \in Threads : WritesTo(u, i)' <=> WritesTo(u, i),
         \A u \in Threads : WritesTo(u, i) => job'[u].rest = job[u].rest
  PROVE  Unwritten(i)' = Unwritten(i)
<1> DEFINE S == {u \in Threads : pc[u] = "write" /\ job[u].fd = i}
           T == {u \in Threads : pc'[u] = "write" /\ job'[u].fd = i}
<1>1. S = T
  BY DEF WritesTo
<1>2. \A u \in S : job'[u].rest = job[u].rest
  BY DEF WritesTo
<1>3. Unwritten(i) = IF S = {} THEN <<>> ELSE job[CHOOSE u \in S : TRUE].rest
  BY DEF Unwritten
<1>4. Unwritten(i)' = IF T = {} THEN <<>> ELSE job'[CHOOSE u \in T : TRUE].rest
  BY DEF Unwritten
<1>5. S # {} => (CHOOSE u \in S : TRUE) \in S
  OBVIOUS
<1> HIDE DEF S, T
<1> QED
  BY <1>1, <1>2, <1>3, <1>4, <1>5

\* Who writes to a file has a request about it: at most one thread does.
LEMMA WriterOwns ==
  ASSUME Inv, NEW t \in Threads, Alone(t), NEW f \in Files, link[f] # None
  PROVE  WritesTo(t, link[f]) => /\ f = TargetOf(job[t].req) /\ f \in Realm(job[t].req.path)
                                 /\ job[t].path = f
<1> SUFFICES ASSUME WritesTo(t, link[f]) PROVE f = TargetOf(job[t].req) /\ job[t].path = f
  BY ResultMeans, Known
<1>1. /\ pc[t] = "write" /\ job[t].path = TargetOf(job[t].req) /\ link[job[t].path] = link[f]
      /\ job[t].path \in Files
  BY Own DEF WritesTo, Alone, Writes, Inv, LocalsOf
<1> QED
  BY <1>1 DEF Inv, TypeInv, TypeOK

LEMMA AtMostOneWriter ==
  ASSUME FilesApart, Inv, AloneInv, NEW t \in Threads, NEW u \in Threads,
         NEW f \in Files, link[f] # None, f \in Realm(job[t].req.path), pc[t] # "idle",
         WritesTo(u, link[f])
  PROVE  u = t
<1>1. Alone(t) /\ Alone(u) /\ pc[u] # "idle"
  BY DEF AloneInv, WritesTo
<1> QED
  BY <1>1, WriterOwns, RealmsApart

LEMMA UnwrittenType ==
  ASSUME FilesApart, Inv, AloneInv, NEW f \in Files, link[f] # None
  PROVE  Unwritten(link[f]) \in Seq(Block) /\ FileOf(f) \in Seq(Block)
<1>1. Unwritten(link[f]) \in Seq(Block)
  <2>1. CASE \A u \in Threads : ~WritesTo(u, link[f])
    BY <2>1, NoWriter, EmptySeq
  <2>2. ASSUME NEW t \in Threads, WritesTo(t, link[f]) PROVE Unwritten(link[f]) \in Seq(Block)
    <3>1. f \in Realm(job[t].req.path) /\ pc[t] # "idle"
      BY <2>2, WriterOwns DEF AloneInv, WritesTo
    <3>2. \A u \in Threads : WritesTo(u, link[f]) <=> u = t
      BY <2>2, <3>1, AtMostOneWriter
    <3>3. Unwritten(link[f]) = job[t].rest
      BY <3>2, OneWriter
    <3> QED
      BY <3>3, Known DEF Job
  <2> QED
    BY <2>1, <2>2
<1>2. content[link[f]] \in Seq(Block)
  BY Own DEF Inv, TypeInv, TypeOK
<1> QED
  BY <1>1, <1>2 DEF FileOf

\* A file that nobody else may write to, and t does not, is what its inode holds.
LEMMA Quiet ==
  ASSUME FilesApart, Inv, AloneInv, NEW t \in Threads, NEW f \in Files, link[f] # None,
         f \in Realm(job[t].req.path), pc[t] \notin {"idle", "write"}
  PROVE  Unwritten(link[f]) = <<>> /\ FileOf(f) = content[link[f]]
<1>1. \A u \in Threads : ~WritesTo(u, link[f])
  BY AtMostOneWriter DEF WritesTo
<1>2. Unwritten(link[f]) = <<>>
  BY <1>1, NoWriter
<1>3. content[link[f]] \in Seq(Block)
  BY Own DEF Inv, TypeInv, TypeOK
<1>4. content[link[f]] \o <<>> = content[link[f]]
  BY <1>3
<1> QED
  BY <1>2, <1>4 DEF FileOf

LEMMA StoreThere ==
  ASSUME FilesApart, Inv, AloneInv, NEW p \in Paths
  PROVE  Store!There(p) = Exists(p)
<1>1. CASE p = Dir
  BY <1>1 DEF Store!There, Exists
<1>2. CASE p # Dir
  <2>1. p \in Files
    BY <1>2 DEF Paths
  <2>2. FileOf(p) = None <=> link[p] = None
    BY <2>1, UnwrittenType, NoneIsNoFile DEF FileOf
  <2>3. Store!There(p) = (StoreFile[p] # None)
    BY <1>2 DEF Store!There, StoreFile, FileOf
  <2> QED
    BY <1>2, <2>1, <2>2, <2>3 DEF StoreFile, Exists
<1> QED
  BY <1>1, <1>2

LEMMA StoreTarget ==
  ASSUME FilesApart, Inv, AloneInv, NEW q \in Request
  PROVE  Store!Target(q) = TargetOf(q)
<1>1. Index \in Paths
  BY Assumed DEF Paths
<1> QED
  BY <1>1, StoreThere DEF Store!Target, TargetOf

----------------------------------------------------------------------------
(* The steps of FileStore, over the mapped variables.                      *)

\* Only t moves.
OnlyMoves(t) == \A u \in Threads \ {t} : job'[u] = job[u] /\ pc'[u] = pc[u]

LEMMA StutterMeans ==
  ASSUME UNCHANGED <<StoreFile, directory, StoreOwed, answer, served>>
  PROVE  UNCHANGED Store!vars
BY DEF Store!vars, StoreFile, FileOf, StoreOwed, OwedOf

LEMMA AcknowledgeMeans ==
  ASSUME NEW t \in Threads, OwedOf(t) # NoAnswer, Store!Give(t, OwedOf(t)),
         StoreOwed' = [StoreOwed EXCEPT ![t] = NoAnswer], UNCHANGED <<StoreFile, directory>>
  PROVE  Store!Next
<1>1. StoreOwed[t] = OwedOf(t)
  BY DEF StoreOwed
<1>2. Store!Acknowledge(t)
  BY <1>1, SameRequests DEF Store!Acknowledge, StoreFile, FileOf, StoreOwed, OwedOf
<1> QED
  BY <1>2 DEF Store!Next

LEMMA RequestMeans ==
  ASSUME NEW t \in Threads, OwedOf(t) = NoAnswer, NEW q \in RequestsOf[t],
         Store!Get(t, q) \/ Store!Delete(t, q) \/ Store!Store(t, q) \/ Store!Refuse(t, q)
  PROVE  Store!Next
<1>1. StoreOwed[t] = Store!NoAnswer
  BY SameRequests DEF StoreOwed
<1> QED
  BY <1>1 DEF Store!Next, StoreOwed, OwedOf

LEMMA GetMeans ==
  ASSUME FilesApart, Inv, AloneInv, NEW t \in Threads, NEW q \in Request, q.method \in {"GET", "HEAD"},
         NEW p, p = TargetOf(q),
         Store!Give(t, IF ~Exists(p) THEN Message(404, q)
                       ELSE Response(IF p = Dir THEN 404 ELSE 200, Len(Store!Shown(p)),
                                     IF q.method = "HEAD" THEN <<>>
                                     ELSE IF q.cgi THEN Store!Data(t, q) ELSE Store!Shown(p), q)),
         UNCHANGED <<StoreFile, directory, StoreOwed>>
  PROVE  Store!Get(t, q)
<1>1. Store!Target(q) = p /\ Store!There(p) = Exists(p)
  BY StoreTarget, StoreThere, ResultMeans
<1> QED
  BY <1>1, SameRequests DEF Store!Get, StoreFile, FileOf, StoreOwed, OwedOf

LEMMA DeleteMeans ==
  ASSUME FilesApart, Inv, AloneInv, NEW t \in Threads, NEW q \in Request, q.method = "DELETE",
         NEW p, p = TargetOf(q),
         StoreFile' = [f \in Files |-> IF f = p THEN None ELSE StoreFile[f]],
         directory' = (directory /\ (p = Dir => \E f \in Inside : Exists(f))),
         Store!Give(t, IF Exists(p) THEN Response(200, 1, <<Text>>, q) ELSE Message(404, q)),
         UNCHANGED StoreOwed, q \in RequestsOf[t], OwedOf(t) = NoAnswer
  PROVE  Store!Next
<1>1. Store!Target(q) = p /\ Store!There(p) = Exists(p)
  BY StoreTarget, StoreThere, ResultMeans
<1>2. \A f \in Inside : Store!There(f) = Exists(f)
  BY StoreThere, Assumed DEF Paths
<1>3. Store!Delete(t, q)
  BY <1>1, <1>2, SameRequests DEF Store!Delete, StoreFile, FileOf, StoreOwed, OwedOf
<1> QED
  BY <1>3, RequestMeans

LEMMA RefuseMeans ==
  ASSUME FilesApart, Inv, AloneInv, NEW t \in Threads, NEW q \in Request, q.method \in {"POST", "PUT"},
         NEW p, p = TargetOf(q), ~Openable(p), NEW data, data = Store!Data(t, q),
         Store!Give(t, IF q.method = "POST" /\ Exists(p) THEN Response(200, Len(data), data, q)
                       ELSE Message(501, q)),
         UNCHANGED <<StoreFile, directory, StoreOwed>>
  PROVE  Store!Refuse(t, q)
<1>1. Store!Target(q) = p /\ Store!There(p) = Exists(p) /\ ~Store!Writable(p)
  BY StoreTarget, StoreThere, ResultMeans DEF Store!Writable, Openable
<1> QED
  BY <1>1, SameRequests DEF Store!Refuse, StoreFile, FileOf, StoreOwed, OwedOf

----------------------------------------------------------------------------
(* The steps of Handlers, as steps of FileStore.                           *)

LEMMA OthersOwed ==
  ASSUME NEW t \in Threads, OnlyMoves(t)
  PROVE  /\ \A u \in Threads \ {t} : OwedOf(u)' = OwedOf(u)
         /\ \A u \in Threads \ {t} : \A i : WritesTo(u, i)' = WritesTo(u, i)
         /\ OwedOf(t)' = OwedOf(t) => UNCHANGED StoreOwed
         /\ \A a : OwedOf(t)' = a => StoreOwed' = [StoreOwed EXCEPT ![t] = a]
<1>1. ASSUME NEW u \in Threads \ {t} PROVE OwedOf(u)' = OwedOf(u)
  <2>1. pc'[u] = pc[u] /\ job'[u] = job[u]
    BY <1>1 DEF OnlyMoves
  <2> QED
    BY <2>1 DEF OwedOf, Stored, Extends
<1>2. \A u \in Threads \ {t} : \A i : WritesTo(u, i)' = WritesTo(u, i)
  BY DEF OnlyMoves, WritesTo
<1> HIDE DEF OnlyMoves
<1>3. OwedOf(t)' = OwedOf(t) => UNCHANGED StoreOwed
  BY <1>1 DEF StoreOwed
<1>4. ASSUME NEW a, OwedOf(t)' = a PROVE StoreOwed' = [StoreOwed EXCEPT ![t] = a]
  BY <1>1, <1>4 DEF StoreOwed
<1> QED
  BY <1>1, <1>2, <1>3, <1>4

\* While the disk stays and nothing is opened, a thread that has nothing left to
\* write changes no file.
LEMMA FilesStay ==
  ASSUME FilesApart, Inv, AloneInv, NEW t \in Threads, OnlyMoves(t), UNCHANGED disk,
         pc[t] = "write" => job[t].rest = <<>>, pc'[t] # "write"
  PROVE  UNCHANGED <<StoreFile, directory>>
<1>1. link' = link /\ content' = content /\ directory' = directory
  BY DEF disk
<1>2. ASSUME NEW f \in Files, link[f] # None, NEW i, i = link[f] PROVE Unwritten(i)' = Unwritten(i)
  <2>1. ~WritesTo(t, i)'
    BY DEF WritesTo
  <2>2. CASE WritesTo(t, i)
    <3>1. f \in Realm(job[t].req.path) /\ pc[t] # "idle" /\ job[t].rest = <<>>
      BY <1>2, <2>2, WriterOwns DEF AloneInv, WritesTo
    <3>2. \A u \in Threads : WritesTo(u, i) <=> u = t
      BY <1>2, <2>2, <3>1, AtMostOneWriter
    <3>3. \A u \in Threads : ~WritesTo(u, i)'
      BY <2>1, <3>2, OthersOwed
    <3> QED
      BY <3>1, <3>2, <3>3, OneWriter, NoWriter
  <2>3. CASE ~WritesTo(t, i)
    <3>1. \A u \in Threads : WritesTo(u, i)' <=> WritesTo(u, i)
      BY <2>1, <2>3, OthersOwed
    <3>2. \A u \in Threads : WritesTo(u, i) => job'[u].rest = job[u].rest
      BY <2>3 DEF OnlyMoves
    <3> QED
      BY <3>1, <3>2, SameWriters
  <2> QED
    BY <2>2, <2>3
<1>3. \A f \in Files : FileOf(f)' = FileOf(f)
  BY <1>1, <1>2 DEF FileOf
<1> QED
  BY <1>1, <1>3 DEF StoreFile

LEMMA Moved ==
  ASSUME Inv, NEW t \in Threads, (running /\ HandleRequest(t)) \/ Step(t)
  PROVE  OnlyMoves(t)
BY StepIsGood DEF Good, Moves, OnlyMoves

\* What a thread owes is the answer to what it has extended, or to what it is writing.
LEMMA OwedMeans ==
  ASSUME Inv, NEW t \in Threads, Alone(t)
  PROVE  /\ ~job[t].append /\ pc[t] # "write" => OwedOf(t) = NoAnswer
         /\ job[t].append =>
              OwedOf(t) = Response(200, Len(job[t].body), job[t].body, job[t].req)
<1>1. ASSUME job[t].append PROVE Extends(t)
  BY <1>1 DEF Alone, Writes, Extends
<1> QED
  BY <1>1 DEF OwedOf, Stored

LEMMA StoredIsAnswer ==
  ASSUME NEW t \in Threads
  PROVE  Stored(t) # NoAnswer
BY DEF Stored, Response, Message, NoAnswer

\* The steps of a lookup change nothing of the mapping.
LEMMA LookupMaps ==
  ASSUME FilesApart, Inv, AloneInv, NEW t \in Threads, OnlyMoves(t), Alone(t)',
         UNCHANGED <<disk, answer, served>>, pc[t] # "write", pc'[t] # "write",
         job'[t].append = job[t].append, job[t] \in Job,
         job[t].append => job'[t].req = job[t].req /\ job'[t].body = job[t].body
  PROVE  UNCHANGED Store!vars
<1>1. UNCHANGED <<StoreFile, directory>>
  BY FilesStay
<1>2. OwedOf(t)' = OwedOf(t)
  <2>1. CASE ~job[t].append
    BY <2>1 DEF OwedOf
  <2>2. CASE job[t].append
    <3>1. Extends(t) /\ Extends(t)'
      BY <2>2 DEF Alone, AloneInv, Writes, Extends
    <3>2. Response(200, Len(job[t].body), job[t].body, job[t].req)'
            = Response(200, Len(job[t].body), job[t].body, job[t].req)
      BY <2>2 DEF Response, Message
    <3> QED
      BY <2>2, <3>1, <3>2 DEF OwedOf, Stored
  <2> QED
    BY <2>1, <2>2 DEF Job
<1>3. UNCHANGED StoreOwed
  BY <1>2, OthersOwed
<1> QED
  BY <1>1, <1>3, StutterMeans

LEMMA AnswerMaps ==
  ASSUME FilesApart, Inv, AloneInv, NEW t \in Threads, OnlyMoves(t), NEW a, SendResponse(t, a),
         UNCHANGED disk, pc[t] = "write" => job[t].rest = <<>>
  PROVE  /\ Store!Give(t, a) /\ UNCHANGED <<StoreFile, directory>>
         /\ StoreOwed' = [StoreOwed EXCEPT ![t] = NoAnswer]
         /\ OwedOf(t) = NoAnswer => UNCHANGED StoreOwed
<1>1. pc'[t] = "idle" /\ job'[t] = NoJob /\ Store!Give(t, a)
  BY Own DEF SendResponse, Store!Give, Inv
<1>2. OwedOf(t)' = NoAnswer
  BY <1>1 DEF OwedOf, NoJob, NoAnswer
<1>3. OwedOf(t) = NoAnswer => OwedOf(t)' = OwedOf(t)
  BY <1>2
<1> QED
  BY <1>1, <1>2, <1>3, FilesStay, OthersOwed

\* A thread that hangs changes nothing of the mapping.
LEMMA HangMaps ==
  ASSUME NEW t \in Threads, OnlyMoves(t), UNCHANGED <<disk, job, answer, served>>,
         pc[t] # "write", pc' = [pc EXCEPT ![t] = "hung"], pc \in [Threads -> Places],
         FilesApart, Inv, AloneInv
  PROVE  UNCHANGED Store!vars
<1>1. pc'[t] = "hung"
  OBVIOUS
<1>2. OwedOf(t)' = OwedOf(t)
  BY <1>1 DEF OwedOf, Stored, Extends, Response, Message, NoAnswer
<1> QED
  BY <1>1, <1>2, FilesStay, OthersOwed, StutterMeans

\* What t has found is what FileStore shows.
LEMMA ShownMeans ==
  ASSUME FilesApart, Inv, AloneInv, NEW t \in Threads, pc[t] \in {"found", "act"},
         NEW p, p = TargetOf(job[t].req), Exists(p)
  PROVE  job[t].r = [loc |-> p, dir |-> p = Dir, data |-> Store!Shown(p)]
<1>1. job[t].r = Result(p) /\ p \in Paths /\ p \in Realm(job[t].req.path) /\ (p # Dir => p \in Files)
  BY PathMeans, ResultMeans, Known DEF AloneInv
<1>2. CASE p = Dir
  BY <1>1, <1>2, SameRequests DEF Result, Store!Shown
<1>3. CASE p # Dir
  <2>1. FileOf(p) = content[link[p]]
    BY <1>1, <1>3, Quiet DEF Exists
  <2>2. Store!Shown(p) = content[link[p]]
    BY <1>1, <1>3, <2>1 DEF Store!Shown, FileOf
  <2> QED
    BY <1>1, <1>3, <2>2 DEF Result
<1> QED
  BY <1>2, <1>3

LEMMA AnswerGetMaps ==
  ASSUME FilesApart, Inv, AloneInv, NEW t \in Threads, OnlyMoves(t), AnswerGet(t)
  PROVE  Store!Next \/ UNCHANGED Store!vars
<1> DEFINE q == job[t].req
           r == job[t].r
           p == TargetOf(q)
           data == IF q.method = "HEAD" THEN <<>> ELSE IF q.cgi THEN job[t].body ELSE r.data
<1>1. /\ Ready(t, {"GET", "HEAD"}) /\ UNCHANGED disk /\ Alone(t)
      /\ pc[t] \in {"found", "act"} /\ ~job[t].again /\ q.method \in {"GET", "HEAD"}
      /\ IF r = NoResource THEN SendStatusResponse(t, 404)
         ELSE SendResponse(t, Response(IF r.dir THEN 404 ELSE 200, Len(r.data), data, q))
  BY DEF AnswerGet, Ready, AloneInv
<1>2. q \in RequestsOf[t] /\ q \in Request /\ p \in Paths
  BY <1>1, Known, ResultMeans DEF Alone, LooksUp
<1>3. OwedOf(t) = NoAnswer
  BY <1>1, OwedMeans, Known DEF Alone, Writes, Job
<1>4. r = NoResource <=> ~Exists(p)
  BY <1>1, <1>2, PathMeans, ResultMeans
<1>5. CASE r = NoResource /\ "error" \notin readable
  BY <1>1, <1>5, HangMaps, Known DEF SendStatusResponse, Inv, TypeInv, TypeOK
<1>6. CASE r = NoResource /\ "error" \in readable
  <2>1. SendResponse(t, Message(404, q))
    BY <1>1, <1>6 DEF SendStatusResponse
  <2>2. Store!Give(t, Message(404, q)) /\ UNCHANGED <<StoreFile, directory, StoreOwed>>
    BY <1>1, <1>3, <2>1, AnswerMaps
  <2>3. Store!Get(t, q)
    BY <1>1, <1>2, <1>4, <1>6, <2>2, GetMeans
  <2> QED
    BY <1>2, <1>3, <2>3, RequestMeans
<1>7. CASE r # NoResource
  <2>1. r = [loc |-> p, dir |-> p = Dir, data |-> Store!Shown(p)]
    BY <1>1, <1>4, <1>7, ShownMeans
  <2>2. q.cgi => job[t].body = Store!Data(t, q)
    <3>1. Holds(t)
      BY <1>1 DEF Alone
    <3>2. q.cgi => pc[t] = "act"
      BY <1>1, <1>7 DEF Ready, RunsCgi
    <3> QED
      BY <3>1, <3>2 DEF Holds
  <2> DEFINE shown == Store!Shown(p)
             status == IF p = Dir THEN 404 ELSE 200
             sent == IF q.method = "HEAD" THEN <<>>
                     ELSE IF q.cgi THEN Store!Data(t, q) ELSE shown
             give == Response(status, Len(shown), sent, q)
  <2> HIDE DEF shown
  <2>3. r.dir = (p = Dir) /\ r.data = shown
    BY <2>1 DEF shown
  <2>4. Response(IF r.dir THEN 404 ELSE 200, Len(r.data), data, q) = give
    <3>1. data = sent
      BY <2>2, <2>3
    <3>2. r.dir <=> p = Dir
      BY <2>3
    <3>3. (IF r.dir THEN 404 ELSE 200) = status
      BY <3>2
    <3> HIDE DEF data, sent, status
    <3> QED
      BY <2>3, <3>1, <3>3 DEF give
  <2>5. Store!Give(t, give) /\ UNCHANGED <<StoreFile, directory, StoreOwed>>
    BY <1>1, <1>3, <1>7, <2>4, AnswerMaps
  <2>6. Store!Get(t, q)
    BY <1>1, <1>2, <1>4, <1>7, <2>5, GetMeans DEF shown
  <2> QED
    BY <1>2, <1>3, <2>6, RequestMeans
<1> QED
  BY <1>5, <1>6, <1>7

LEMMA DeleteMaps ==
  ASSUME FilesApart, Inv, AloneInv, NEW t \in Threads, OnlyMoves(t), Delete(t)
  PROVE  Store!Next \/ UNCHANGED Store!vars
<1> DEFINE q == job[t].req
           r == job[t].r
           p == TargetOf(q)
<1>1. /\ Ready(t, {"DELETE"}) /\ Alone(t) /\ content' = content /\ readable' = readable
      /\ pc[t] \in {"found", "act"} /\ ~job[t].again /\ q.method = "DELETE"
      /\ link' = [f \in Files |-> IF f = r.loc THEN None ELSE link[f]]
      /\ directory' = (directory /\ (r.loc = Dir => \E f \in Inside : Exists(f)))
      /\ IF r = NoResource THEN SendStatusResponse(t, 404)
         ELSE SendResponse(t, Response(200, 1, <<Text>>, q))
  BY DEF Delete, Ready, AloneInv
<1>2. q \in RequestsOf[t] /\ q \in Request /\ p \in Paths /\ p \in Realm(q.path) /\ (p # Dir => p \in Files)
  BY <1>1, Known, ResultMeans DEF Alone, LooksUp
<1>3. OwedOf(t) = NoAnswer
  BY <1>1, OwedMeans, Known DEF Alone, Writes, Job
<1>4. /\ r = NoResource <=> ~Exists(p)
      /\ Exists(p) => r.loc = p
      /\ ~Exists(p) => r.loc = None
  <2>1. r = Result(p)
    BY <1>1, PathMeans
  <2>2. (Exists(p) <=> Result(p) # NoResource) /\ (Exists(p) => Result(p).loc = p)
    BY <1>2, ResultMeans
  <2>3. NoResource.loc = None
    BY DEF NoResource
  <2> HIDE DEF p, r
  <2> QED
    BY <2>1, <2>2, <2>3
<1>5. CASE r = NoResource
  <2>1. UNCHANGED disk
    BY SMTT(30), <1>1, <1>4, <1>5, Assumed, Own DEF disk, Inv, TypeInv, TypeOK, Paths
  <2>2. CASE "error" \notin readable
    BY <1>1, <1>5, <2>1, <2>2, HangMaps, Known DEF SendStatusResponse, Inv, TypeInv, TypeOK
  <2>3. CASE "error" \in readable
    <3>1. SendResponse(t, Message(404, q))
      BY <1>1, <1>5, <2>3 DEF SendStatusResponse
    <3>2. Store!Give(t, Message(404, q)) /\ UNCHANGED <<StoreFile, directory, StoreOwed>>
      BY <1>1, <1>3, <2>1, <3>1, AnswerMaps
    <3>3. StoreFile' = [f \in Files |-> IF f = p THEN None ELSE StoreFile[f]]
      <4>1. \A f \in Files : StoreFile[f] = IF f = p THEN None ELSE StoreFile[f]
        BY <1>4, <1>5, Assumed DEF StoreFile, FileOf, Exists
      <4>2. StoreFile = [f \in Files |-> StoreFile[f]]
        BY DEF StoreFile
      <4> QED
        BY <3>2, <4>1, <4>2
    <3>4. directory' = (directory /\ (p = Dir => \E f \in Inside : Exists(f)))
      BY <1>4, <1>5, <3>2 DEF Exists, Inv, TypeInv, TypeOK
    <3> QED
      BY <1>1, <1>2, <1>3, <1>4, <1>5, <3>2, <3>3, <3>4, DeleteMeans
  <2> QED
    BY <2>2, <2>3
<1>6. CASE r # NoResource
  <2>1. r.loc = p /\ Exists(p) /\ SendResponse(t, Response(200, 1, <<Text>>, q))
    BY <1>1, <1>4, <1>6
  <2>2. pc'[t] = "idle" /\ job'[t] = NoJob
    BY <2>1, AnsweredAlone
  <2>3. Store!Give(t, Response(200, 1, <<Text>>, q))
    BY <2>1 DEF SendResponse, Store!Give
  <2>4. UNCHANGED StoreOwed
    <3>1. OwedOf(t)' = NoAnswer
      BY <2>2 DEF OwedOf, NoJob, NoAnswer
    <3> QED
      BY <1>3, <3>1, OthersOwed
  <2>5. ASSUME NEW f \in Files PROVE FileOf(f)' = IF f = p THEN None ELSE FileOf(f)
    <3>1. CASE f = p \/ link[f] = None
      BY <1>1, <2>1, <3>1 DEF FileOf
    <3>2. CASE f # p /\ link[f] # None
      <4>1. link'[f] = link[f]
        BY <1>1, <2>1, <3>2
      <4>2. ASSUME NEW i, i = link[f] PROVE Unwritten(i)' = Unwritten(i)
        <5>1. ~WritesTo(t, i) /\ ~WritesTo(t, i)'
          BY <1>1, <2>2 DEF WritesTo
        <5>2. \A u \in Threads : WritesTo(u, i)' <=> WritesTo(u, i)
          BY <5>1, OthersOwed
        <5>3. \A u \in Threads : WritesTo(u, i) => job'[u].rest = job[u].rest
          BY <5>1 DEF OnlyMoves
        <5> QED
          BY <5>2, <5>3, SameWriters
      <4> QED
        BY <1>1, <3>2, <4>1, <4>2 DEF FileOf
    <3> QED
      BY <3>1, <3>2
  <2>6. StoreFile' = [f \in Files |-> IF f = p THEN None ELSE StoreFile[f]]
    <3> HIDE DEF p
    <3> QED
      BY <2>5 DEF StoreFile
  <2> QED
    BY <1>1, <1>2, <1>3, <2>1, <2>3, <2>4, <2>6, DeleteMeans
<1> QED
  BY <1>5, <1>6

LEMMA CannotOpenMaps ==
  ASSUME FilesApart, Inv, AloneInv, NEW t \in Threads, OnlyMoves(t), Alone(t)', CannotOpen(t)
  PROVE  Store!Next \/ UNCHANGED Store!vars
<1> DEFINE q == job[t].req
           p == TargetOf(q)
<1>1. /\ UNCHANGED disk /\ ~Openable(p) /\ Alone(t) /\ job[t].body = Store!Data(t, q)
      /\ ~job[t].append /\ pc[t] \in {"found", "act"} /\ q.method \in {"POST", "PUT"}
      /\ Extends(t) <=> q.method = "POST" /\ Exists(p)
  BY ReadyHolds, PathMeans DEF CannotOpen, AloneInv
<1>2. q \in RequestsOf[t] /\ q \in Request /\ job[t] \in Job
  BY <1>1, Known DEF Alone, LooksUp
<1>3. OwedOf(t) = NoAnswer
  BY <1>1, OwedMeans
<1>4. CASE Extends(t)
  <2>1. /\ job' = [job EXCEPT ![t].again = TRUE] /\ pc' = [pc EXCEPT ![t] = "stat"]
        /\ UNCHANGED <<answer, served>>
    BY <1>4 DEF CannotOpen
  <2>2. pc'[t] = "stat" /\ job'[t].append = job[t].append
    BY <2>1, Own DEF Inv, Job
  <2> QED
    BY <1>1, <1>2, <2>1, <2>2, LookupMaps
<1>5. CASE ~Extends(t)
  <2>1. SendResponse(t, Message(501, q))
    BY <1>5 DEF CannotOpen, SendStatusResponse
  <2>2. Store!Give(t, Message(501, q)) /\ UNCHANGED <<StoreFile, directory, StoreOwed>>
    BY <1>1, <1>3, <2>1, AnswerMaps
  <2>3. Store!Refuse(t, q)
    BY <1>1, <1>2, <1>5, <2>2, RefuseMeans
  <2> QED
    BY <1>2, <1>3, <2>3, RequestMeans
<1> QED
  BY <1>4, <1>5

LEMMA AnswerAppendMaps ==
  ASSUME FilesApart, Inv, AloneInv, NEW t \in Threads, OnlyMoves(t), AnswerAppend(t)
  PROVE  Store!Next
<1> DEFINE q == job[t].req
           p == TargetOf(q)
           a == Response(200, Len(job[t].body), job[t].body, q)
<1>1. /\ pc[t] = "found" /\ job[t].again /\ UNCHANGED disk /\ Alone(t)
      /\ job[t].body = Store!Data(t, q) /\ q.method = "POST"
  BY DEF AnswerAppend, AloneInv, Alone, Holds, Writes
<1>2. /\ job[t].r # NoResource /\ Exists(p) /\ Extends(t) /\ (~job[t].append => p = Dir)
      /\ q \in RequestsOf[t] /\ q \in Request /\ job[t] \in Job
  BY <1>1, AgainFinds, Known DEF Alone, LooksUp
<1>3. Stored(t) = a
  BY <1>2 DEF Stored
<1>4. SendResponse(t, a)
  BY <1>2, <1>3 DEF AnswerAppend
<1>5. CASE job[t].append
  <2>1. OwedOf(t) = a /\ OwedOf(t) # NoAnswer
    BY <1>3, <1>5, StoredIsAnswer DEF OwedOf
  <2>2. Store!Give(t, OwedOf(t)) /\ UNCHANGED <<StoreFile, directory>>
        /\ StoreOwed' = [StoreOwed EXCEPT ![t] = NoAnswer]
    BY <1>1, <1>4, <2>1, AnswerMaps
  <2> QED
    BY <2>1, <2>2, AcknowledgeMeans
<1>6. CASE ~job[t].append
  <2>1. OwedOf(t) = NoAnswer /\ ~Openable(p)
    BY <1>1, <1>2, <1>6, OwedMeans, Assumed DEF Openable
  <2>2. Store!Give(t, a) /\ UNCHANGED <<StoreFile, directory, StoreOwed>>
    BY <1>1, <1>4, <2>1, AnswerMaps
  <2>3. Store!Refuse(t, q)
    BY <1>1, <1>2, <2>1, <2>2, RefuseMeans
  <2> QED
    BY <1>2, <2>1, <2>3, RequestMeans
<1> QED
  BY <1>5, <1>6

LEMMA CloseMaps ==
  ASSUME FilesApart, Inv, AloneInv, NEW t \in Threads, OnlyMoves(t), Alone(t)', Close(t)
  PROVE  Store!Next \/ UNCHANGED Store!vars
<1>1. pc[t] = "write" /\ job[t].rest = <<>> /\ UNCHANGED disk /\ Alone(t)
  BY DEF Close, AloneInv
<1>2. OwedOf(t) = Stored(t) /\ (job[t].append <=> Extends(t)) /\ job[t] \in Job
  BY <1>1, Known DEF OwedOf, Alone, Writes
<1>3. CASE Extends(t)
  <2>1. /\ job' = [job EXCEPT ![t].fd = None, ![t].again = TRUE] /\ pc' = [pc EXCEPT ![t] = "stat"]
        /\ UNCHANGED <<answer, served>>
    BY <1>3 DEF Close
  <2>2. /\ pc'[t] = "stat" /\ job'[t].append = job[t].append /\ job'[t].req = job[t].req
        /\ job'[t].body = job[t].body
    BY <2>1, Own DEF Inv, Job
  <2>3. OwedOf(t)' = Response(200, Len(job[t].body), job[t].body, job[t].req)
    <3>1. job'[t].append /\ Extends(t)'
      BY <1>2, <1>3, <2>2 DEF Alone, Writes, Extends
    <3>2. OwedOf(t)' = Response(200, Len(job'[t].body), job'[t].body, job'[t].req)
      BY <3>1 DEF OwedOf, Stored, Response, Message
    <3> QED
      BY <2>2, <3>2
  <2>4. OwedOf(t) = Response(200, Len(job[t].body), job[t].body, job[t].req)
    BY <1>2, <1>3 DEF Stored
  <2>5. UNCHANGED StoreOwed
    BY <2>3, <2>4, OthersOwed
  <2>6. UNCHANGED <<StoreFile, directory>>
    BY <1>1, <2>2, FilesStay
  <2> QED
    BY <2>1, <2>5, <2>6, StutterMeans
<1>4. CASE ~Extends(t)
  <2>1. SendResponse(t, OwedOf(t)) /\ OwedOf(t) # NoAnswer
    BY <1>2, <1>4, StoredIsAnswer DEF Close
  <2>2. Store!Give(t, OwedOf(t)) /\ UNCHANGED <<StoreFile, directory>>
        /\ StoreOwed' = [StoreOwed EXCEPT ![t] = NoAnswer]
    BY <1>1, <2>1, AnswerMaps
  <2> QED
    BY <2>1, <2>2, AcknowledgeMeans
<1> QED
  BY <1>3, <1>4

\* One write() takes a block from what is unwritten to the end of the file.
LEMMA WriteMaps ==
  ASSUME FilesApart, Inv, AloneInv, NEW t \in Threads, OnlyMoves(t), Write(t)
  PROVE  UNCHANGED Store!vars
<1>0. PICK q \in {job[t].req}, p \in {TargetOf(job[t].req)}, i \in {job[t].fd},
           rest \in {job[t].rest}, body \in {job[t].body} :
        /\ q = job[t].req /\ p = TargetOf(q) /\ i = job[t].fd /\ rest = job[t].rest
        /\ body = job[t].body
  OBVIOUS
<1> DEFINE at == Len(body) - Len(rest) + 1
           b == Head(rest)
           new == IF job[t].append THEN Append(content[i], b) ELSE Overwrite(content[i], at, b)
<1>1. /\ pc[t] = "write" /\ rest # <<>>
      /\ UNCHANGED <<readable, directory, link, pc, answer, served>>
      /\ content' = [content EXCEPT ![i] = new] /\ job' = [job EXCEPT ![t].rest = Tail(@)]
      /\ Alone(t)
  BY <1>0 DEF Write, AloneInv
<1>2. /\ rest \in Seq(Block) /\ body \in Seq(Block) /\ i \in Inodes /\ content[i] \in Seq(Block)
      /\ content \in [Inodes -> Seq(Block)] /\ q \in Request
      /\ p \in Files /\ i = link[p] /\ link[p] # None /\ p \in Realm(q.path)
      /\ ~job[t].append => Len(content[i]) = Len(body) - Len(rest)
  <2>1. job[t] \in Job /\ q \in Request /\ LocalsOf("write", job[t]) /\ content \in [Inodes -> Seq(Block)]
    BY <1>0, <1>1, Own DEF Inv, Job
  <2>2. rest \in Seq(Block) /\ body \in Seq(Block) /\ i \in Inodes /\ content[i] \in Seq(Block)
    BY <1>0, <2>1 DEF LocalsOf, Job
  <2>3. /\ p = job[t].path /\ Exists(p) /\ i = link[p]
        /\ ~job[t].append => Len(content[i]) = Len(body) - Len(rest)
    BY <1>0, <1>1 DEF Alone, Writes
  <2>4. p \in Files /\ p # Dir
    BY <1>0, <2>1, <2>3, Assumed DEF LocalsOf
  <2>5. TargetOf(q) \in Realm(q.path)
    BY <2>1, ResultMeans
  <2> QED
    BY <1>0, <2>1, <2>2, <2>3, <2>4, <2>5 DEF Exists
<1>3. b \in Block /\ Tail(rest) \in Seq(Block) /\ rest = <<b>> \o Tail(rest)
  BY <1>1, <1>2
<1>4. /\ pc'[t] = "write" /\ job'[t].req = q /\ job'[t].body = body /\ job'[t].r = job[t].r
      /\ job'[t].fd = i /\ job'[t].rest = Tail(rest) /\ job'[t].append = job[t].append
  BY <1>0, <1>1, Own DEF Inv, Job
<1>5. new = Append(content[i], b)
  BY <1>2, <1>3, OverwriteAtEnd
<1>6. content'[i] = Append(content[i], b) /\ \A k \in Inodes : k # i => content'[k] = content[k]
  BY <1>1, <1>2, <1>5
<1>7. \A u \in Threads : \A k : WritesTo(u, k)' <=> WritesTo(u, k)
  BY <1>1, <1>4, OthersOwed DEF WritesTo
<1>8. \A u \in Threads : WritesTo(u, i) <=> u = t
  BY <1>0, <1>1, <1>2, AtMostOneWriter DEF WritesTo
<1>9. OwedOf(t)' = OwedOf(t)
  <2>1. OwedOf(t) = Stored(t) /\ OwedOf(t)' = Stored(t)'
    BY <1>1, <1>4 DEF OwedOf
  <2> HIDE DEF b, at, new
  <2>2. Stored(t)' = Stored(t)
    BY <1>0, <1>4 DEF Stored, Extends, Response, Message, NoResource
  <2> QED
    BY <2>1, <2>2
<1> HIDE DEF b, at, new
<1>10. FileOf(p)' = FileOf(p)
  <2>1. Unwritten(i) = rest
    BY <1>0, <1>8, OneWriter
  <2>2. ASSUME NEW k, k = i PROVE Unwritten(k)' = Tail(rest)
    <3>1. \A u \in Threads : WritesTo(u, k)' <=> u = t
      BY <1>7, <1>8, <2>2
    <3> QED
      BY <1>4, <3>1, OneWriter
  <2>3. FileOf(p) = content[i] \o rest
    BY <1>2, <2>1 DEF FileOf
  <2>4. FileOf(p)' = Append(content[i], b) \o Tail(rest)
    BY <1>1, <1>2, <1>6, <2>2 DEF FileOf
  <2>5. \A s, u \in Seq(Block), c \in Block : Append(s, c) \o u = s \o (<<c>> \o u)
    OBVIOUS
  <2>6. Append(content[i], b) \o Tail(rest) = content[i] \o (<<b>> \o Tail(rest))
    BY <1>2, <1>3, <2>5
  <2> QED
    BY <1>3, <2>3, <2>4, <2>6
<1>11. ASSUME NEW f \in Files, f # p PROVE FileOf(f)' = FileOf(f)
  <2>1. CASE link[f] = None
    BY <1>1, <2>1 DEF FileOf
  <2>2. CASE link[f] # None
    <3>1. link[f] # i /\ link[f] \in Inodes
      BY <1>2, <1>11, <2>2 DEF Inv, TypeInv, TypeOK
    <3>2. ASSUME NEW k, k = link[f] PROVE Unwritten(k)' = Unwritten(k)
      <4>1. \A u \in Threads : WritesTo(u, k)' <=> WritesTo(u, k)
        BY <1>7
      <4>2. \A u \in Threads : WritesTo(u, k) => job'[u].rest = job[u].rest
        BY <1>0, <3>1, <3>2 DEF WritesTo, OnlyMoves
      <4> QED
        BY <4>1, <4>2, SameWriters
    <3>3. link'[f] = link[f] /\ content'[link[f]] = content[link[f]]
      BY <1>1, <1>6, <3>1
    <3> QED
      BY <2>2, <3>2, <3>3 DEF FileOf
  <2> QED
    BY <2>1, <2>2
<1>12. UNCHANGED StoreFile
  BY <1>10, <1>11 DEF StoreFile
<1>13. UNCHANGED StoreOwed
  BY <1>9, OthersOwed
<1> QED
  BY <1>1, <1>12, <1>13, StutterMeans

\* The whole of a PUT or a POST is done when the file is opened: from then on
\* nobody else can tell how much of it has been written.
LEMMA OpenToWriteMaps ==
  ASSUME FilesApart, Inv, AloneInv, NEW t \in Threads, OnlyMoves(t), OpenToWrite(t)
  PROVE  Store!Next
<1>0. PICK q \in {job[t].req}, p \in {TargetOf(job[t].req)}, data \in {job[t].body} :
        q = job[t].req /\ p = TargetOf(q) /\ data = job[t].body
  OBVIOUS
<1>1. /\ Alone(t) /\ data = Store!Data(t, q) /\ ~job[t].append /\ q.method \in {"POST", "PUT"}
      /\ pc[t] \in {"found", "act"} /\ Path(t) = p /\ Openable(p)
      /\ Extends(t) <=> q.method = "POST" /\ Exists(p)
      /\ pc' = [pc EXCEPT ![t] = "write"] /\ UNCHANGED <<readable, directory, answer, served>>
  BY <1>0, ReadyHolds, PathMeans DEF OpenToWrite, AloneInv
<1>2. /\ q \in RequestsOf[t] /\ q \in Request /\ p \in Realm(q.path) /\ p \in Files /\ p # Dir
      /\ data \in Seq(Block)
  BY ZenonT(40), <1>0, <1>1, Known, ResultMeans, Assumed DEF Alone, LooksUp, Openable, Job
<1>3. PICK i \in IF Exists(p) THEN {link[p]} ELSE Free :
        /\ link' = [link EXCEPT ![p] = i]
        /\ content' = [content EXCEPT ![i] = IF Extends(t) /\ Exists(p) THEN @ ELSE <<>>]
        /\ job' = [job EXCEPT ![t].fd = i, ![t].rest = job[t].body, ![t].append = Extends(t),
                              ![t].path = p]
  BY <1>1 DEF OpenToWrite, OpensWithApp
<1>4. /\ link \in [Files -> Inodes \cup {None}] /\ content \in [Inodes -> Seq(Block)]
      /\ \A f, g \in Files : link[f] = link[g] /\ link[f] # None => f = g
  BY DEF Inv, TypeInv, TypeOK
<1>5. i \in Inodes /\ i # None /\ \A f \in Files : f # p => link[f] # i
  BY <1>2, <1>3, <1>4, Assumed DEF Exists, Free
<1>6. /\ job'[t].req = q /\ job'[t].body = data /\ job'[t].r = job[t].r
      /\ job'[t].fd = i /\ job'[t].rest = data
  <2> DEFINE app == Extends(t)
  <2>1. job' = [job EXCEPT ![t].fd = i, ![t].rest = job[t].body, ![t].append = app,
                           ![t].path = p]
    BY <1>3
  <2> HIDE DEF app
  <2> QED
    BY <1>0, <2>1, Own DEF Inv, Job
<1>7. OwedOf(t) = NoAnswer
  BY <1>1, OwedMeans
<1>8. pc'[t] = "write" /\ link'[p] = i
  BY <1>1, <1>2, <1>3, <1>4, Own DEF Inv
<1>9. \A u \in Threads : WritesTo(u, i)' <=> u = t
  <2>1. WritesTo(t, i)'
    BY <1>6, <1>8 DEF WritesTo
  <2>2. ASSUME NEW u \in Threads, u # t, WritesTo(u, i) PROVE FALSE
    <3>1. CASE Exists(p)
      <4>1. i = link[p] /\ link[p] # None
        BY <1>2, <1>3, <3>1 DEF Exists
      <4> QED
        BY <1>0, <1>1, <1>2, <2>2, <4>1, AtMostOneWriter
    <3>2. CASE ~Exists(p)
      BY <1>3, <2>2, <3>2 DEF Free, WritesTo
    <3> QED
      BY <3>1, <3>2
  <2> QED
    BY <2>1, <2>2, OthersOwed
<1> DEFINE there == q.method = "POST" /\ Exists(p)
<1>a. PICK new : new = IF there THEN StoreFile[p] \o data ELSE data
  OBVIOUS
<1>b. StoreFile[p] = FileOf(p)
  BY <1>2 DEF StoreFile
<1>10. FileOf(p)' = new
  <2>1. ASSUME NEW k, k = i PROVE Unwritten(k)' = data
    BY <1>6, <1>9, <2>1, OneWriter
  <2>2. FileOf(p)' = content'[i] \o data
    BY <1>5, <1>8, <2>1 DEF FileOf
  <2>3. CASE there
    <3>1. i = link[p] /\ link[p] # None
      BY <1>2, <1>3, <2>3 DEF Exists
    <3>2. FileOf(p) = content[i]
      BY <1>0, <1>1, <1>2, <3>1, Quiet
    <3>3. content'[i] = content[i]
      BY <1>1, <1>3, <1>4, <1>5, <2>3
    <3> QED
      BY <1>a, <1>b, <2>2, <2>3, <3>2, <3>3
  <2>4. CASE ~there
    <3>1. content'[i] = <<>>
      BY <1>1, <1>3, <1>4, <1>5, <2>4
    <3>2. <<>> \o data = data
      BY <1>2
    <3> QED
      BY <1>a, <2>2, <2>4, <3>1, <3>2
  <2> QED
    BY <2>3, <2>4
<1>11. ASSUME NEW f \in Files, f # p PROVE FileOf(f)' = FileOf(f)
  <2>1. link'[f] = link[f] /\ link[f] # i
    BY <1>3, <1>4, <1>5, <1>11
  <2>2. CASE link[f] = None
    BY <2>1, <2>2 DEF FileOf
  <2>3. CASE link[f] # None
    <3>1. content'[link[f]] = content[link[f]]
      BY <1>3, <1>4, <2>1, <2>3
    <3>2. ASSUME NEW k, k = link[f] PROVE Unwritten(k)' = Unwritten(k)
      <4>1. ~WritesTo(t, k) /\ ~WritesTo(t, k)'
        BY <1>1, <1>6, <2>1, <3>2 DEF WritesTo
      <4>2. \A u \in Threads : WritesTo(u, k)' <=> WritesTo(u, k)
        BY <4>1, OthersOwed
      <4>3. \A u \in Threads : WritesTo(u, k) => job'[u].rest = job[u].rest
        BY <4>1 DEF OnlyMoves
      <4> QED
        BY <4>2, <4>3, SameWriters
    <3> QED
      BY <2>1, <2>3, <3>1, <3>2 DEF FileOf
  <2> QED
    BY <2>2, <2>3
<1>12. StoreFile' = [StoreFile EXCEPT ![p] = new]
  <2>1. \A f \in Files : FileOf(f)' = IF f = p THEN new ELSE FileOf(f)
    BY <1>10, <1>11
  <2> QED
    BY <1>2, <2>1 DEF StoreFile
<1> DEFINE a == IF q.method = "POST"
                  THEN Response(IF Exists(p) THEN 200 ELSE 201, Len(data),
                                IF Exists(p) \/ q.cgi THEN data ELSE <<>>, q)
                ELSE Response(IF Exists(p) THEN 204 ELSE 201, 0, <<>>, q)
<1>13. OwedOf(t)' = a
  <2>1. job[t].r = NoResource <=> ~Exists(p)
    BY <1>0, <1>1, <1>2, PathMeans, ResultMeans
  <2>2. Stored(t) = a
    BY <1>0, <1>1, <2>1 DEF Stored
  <2>3. Stored(t)' = Stored(t)
    BY <1>0, <1>6 DEF Stored, Extends, Response, Message, NoResource
  <2>4. OwedOf(t)' = Stored(t)'
    BY <1>8 DEF OwedOf
  <2> QED
    BY <2>2, <2>3, <2>4
<1>14. StoreOwed' = [StoreOwed EXCEPT ![t] = a]
  BY <1>13, OthersOwed
<1>15. Store!Target(q) = p /\ Store!There(p) = Exists(p) /\ Store!Writable(p)
  BY <1>0, <1>1, <1>2, StoreTarget, StoreThere, ResultMeans DEF Store!Writable, Openable
<1>16. StoreFile' = [StoreFile EXCEPT ![p] =
                       IF q.method = "POST" /\ Store!There(p) THEN @ \o data ELSE data]
  BY <1>12, <1>15, <1>a
<1>c. a = IF q.method = "POST"
              THEN Store!Response(IF Store!There(p) THEN 200 ELSE 201, Len(data),
                                  IF Store!There(p) \/ q.cgi THEN data ELSE <<>>, q)
            ELSE Store!Response(IF Store!There(p) THEN 204 ELSE 201, 0, <<>>, q)
  BY <1>15, SameRequests
<1> HIDE DEF there, a
<1>17. StoreOwed' = [StoreOwed EXCEPT ![t] =
                       IF q.method = "POST"
                         THEN Store!Response(IF Store!There(p) THEN 200 ELSE 201, Len(data),
                                             IF Store!There(p) \/ q.cgi THEN data ELSE <<>>, q)
                       ELSE Store!Response(IF Store!There(p) THEN 204 ELSE 201, 0, <<>>, q)]
  BY <1>14, <1>c
<1>18. data = Store!Data(t, q) /\ q.method \in {"POST", "PUT"}
       /\ UNCHANGED <<directory, answer, served>>
  BY <1>1
<1>19. Store!Store(t, q)
  BY <1>15, <1>16, <1>17, <1>18 DEF Store!Store, StoreFile, FileOf, StoreOwed, OwedOf
<1> QED
  BY <1>2, <1>7, <1>19, RequestMeans

\* What a lookup leaves alone of what the thread knows.
LEMMA FoundKeeps ==
  ASSUME Inv, NEW t \in Threads, NEW res, Found(t, res)
  PROVE  /\ pc'[t] = "found" /\ job'[t].append = job[t].append
         /\ job'[t].req = job[t].req /\ job'[t].body = job[t].body
BY Own DEF Found, Inv, Job

LEMMA WillReadKeeps ==
  ASSUME Inv, NEW t \in Threads, NEW p, WillRead(t, p)
  PROVE  /\ pc'[t] = "open" /\ job'[t].append = job[t].append
         /\ job'[t].req = job[t].req /\ job'[t].body = job[t].body
BY Own DEF WillRead, Inv, Job

LEMMA LookupStepKeeps ==
  ASSUME Inv, NEW t \in Threads, Stat(t) \/ StatIndex(t) \/ Open(t) \/ Read(t) \/ EndRead(t)
  PROVE  /\ UNCHANGED <<disk, answer, served>> /\ pc[t] # "write" /\ pc'[t] # "write"
         /\ job'[t].append = job[t].append
         /\ job'[t].req = job[t].req
         /\ job'[t].body = job[t].body
<1> DEFINE KeepsJob == /\ pc'[t] # "write" /\ job'[t].append = job[t].append
                       /\ job'[t].req = job[t].req /\ job'[t].body = job[t].body
<1>1. ASSUME Stat(t) PROVE KeepsJob
  <2>1. CASE job' = [job EXCEPT ![t].path = Dir] /\ pc' = [pc EXCEPT ![t] = "index"]
    BY <2>1, Own DEF Inv, Job
  <2> QED
    BY <1>1, <2>1, FoundKeeps, WillReadKeeps DEF Stat
<1>2. ASSUME StatIndex(t) PROVE KeepsJob
  <2>1. CASE pc' = [pc EXCEPT ![t] = "hung"] /\ UNCHANGED job
    BY <2>1, Own DEF Inv
  <2> QED
    BY <1>2, <2>1, FoundKeeps, WillReadKeeps DEF StatIndex
<1>3. ASSUME Open(t) PROVE KeepsJob
  <2>1. CASE job' = [job EXCEPT ![t].fd = link[job[t].path]] /\ pc' = [pc EXCEPT ![t] = "read"]
    BY <2>1, Own DEF Inv, Job
  <2> QED
    BY <1>3, <2>1, FoundKeeps DEF Open
<1>4. ASSUME Read(t) PROVE KeepsJob
  <2> DEFINE b == content[job[t].fd][Len(job[t].data) + 1]
  <2>1. job' = [job EXCEPT ![t].data = Append(@, b)] /\ pc' = pc /\ pc[t] = "read"
    BY <1>4 DEF Read
  <2> HIDE DEF b
  <2> QED
    BY <2>1, Own DEF Inv, Job
<1>5. ASSUME EndRead(t) PROVE KeepsJob
  BY <1>5, FoundKeeps DEF EndRead
<1>6. UNCHANGED <<disk, answer, served>> /\ pc[t] # "write"
  BY DEF Stat, StatIndex, Open, Read, EndRead
<1>7. KeepsJob
  BY <1>1, <1>2, <1>3, <1>4, <1>5, Zenon
<1> QED
  BY <1>6, <1>7, Zenon

LEMMA StepMaps ==
  ASSUME FilesApart, Inv, AloneInv, NEW t \in Threads, (running /\ HandleRequest(t)) \/ Step(t)
  PROVE  Store!Next \/ UNCHANGED Store!vars
<1>1. OnlyMoves(t) /\ Alone(t) /\ Alone(t)' /\ job[t] \in Job
  BY Moved, OwnStaysAlone, Known DEF AloneInv
<1>2. CASE HandleRequest(t)
  <2>0. PICK q : \E body : job' = [job EXCEPT ![t] = [NoJob EXCEPT !.req = q, !.body = body]]
    BY <1>2 DEF HandleRequest
  <2>1. PICK body : job' = [job EXCEPT ![t] = [NoJob EXCEPT !.req = q, !.body = body]]
    BY <2>0
  <2>2. job'[t].append = FALSE /\ ~job[t].append /\ pc'[t] = "stat"
    BY <1>1, <1>2, <2>1, Own DEF HandleRequest, NoJob, Inv, Alone
  <2>3. job'[t].append = job[t].append
    BY <1>1, <2>2 DEF Job
  <2>4. UNCHANGED <<disk, answer, served>> /\ pc[t] # "write" /\ pc'[t] # "write"
    BY <1>2, <2>2 DEF HandleRequest
  <2> QED
    BY <1>1, <2>2, <2>3, <2>4, LookupMaps
<1>3. CASE Stat(t) \/ StatIndex(t) \/ Open(t) \/ Read(t) \/ EndRead(t)
  <2>1. /\ UNCHANGED <<disk, answer, served>> /\ pc[t] # "write" /\ pc'[t] # "write"
        /\ job'[t].append = job[t].append
        /\ job'[t].req = job[t].req
        /\ job'[t].body = job[t].body
    BY <1>3, LookupStepKeeps, Zenon
  <2> QED
    BY <1>1, <2>1, LookupMaps
<1>4. CASE RunCgi(t)
  <2>1. /\ UNCHANGED <<disk, answer, served>> /\ pc[t] = "found" /\ ~job[t].again
        /\ pc'[t] = "act" /\ job'[t].append = job[t].append
    <3> DEFINE out == Output(t, served[t])
    <3>1. job' = [job EXCEPT ![t].body = out]
      BY <1>4 DEF RunCgi
    <3> HIDE DEF out
    <3> QED
      BY <1>4, <3>1, Own DEF RunCgi, Inv, Job
  <2>2. ~job[t].append
    BY <1>1, <2>1 DEF Alone, Writes
  <2> QED
    BY <1>1, <2>1, <2>2, LookupMaps
<1>5. CASE AnswerGet(t)
  BY <1>1, <1>5, AnswerGetMaps
<1>6. CASE Delete(t)
  BY <1>1, <1>6, DeleteMaps
<1>7. CASE OpenToWrite(t)
  BY <1>1, <1>7, OpenToWriteMaps
<1>8. CASE CannotOpen(t)
  BY <1>1, <1>8, CannotOpenMaps
<1>9. CASE Write(t)
  BY <1>1, <1>9, WriteMaps
<1>10. CASE Close(t)
  BY <1>1, <1>10, CloseMaps
<1>11. CASE AnswerAppend(t)
  BY <1>1, <1>11, AnswerAppendMaps
<1> QED
  BY <1>2, <1>3, <1>4, <1>5, <1>6, <1>7, <1>8, <1>9, <1>10, <1>11 DEF Step

LEMMA UnchangedMaps == UNCHANGED vars => UNCHANGED Store!vars
<1> SUFFICES ASSUME UNCHANGED vars PROVE UNCHANGED Store!vars
  OBVIOUS
<1>1. \A i : Unwritten(i)' = Unwritten(i)
  BY DEF vars, Unwritten
<1>2. UNCHANGED StoreFile
  BY <1>1 DEF vars, StoreFile, FileOf
<1>3. UNCHANGED StoreOwed
  BY DEF vars, StoreOwed, OwedOf, Stored, Extends, Response, Message
<1> QED
  BY <1>2, <1>3, StutterMeans DEF vars

LEMMA InitMaps == Init => Store!Init
<1> SUFFICES ASSUME Init PROVE Store!Init
  OBVIOUS
<1>1. PICK there \in SUBSET Files, f \in [Files -> Inodes] :
        /\ Inside \cap there # {} => directory
        /\ \A p, q \in there : f[p] = f[q] => p = q
        /\ link = [p \in Files |-> IF p \in there THEN f[p] ELSE None]
  BY DEF Init
<1>2. \A i : Unwritten(i) = <<>>
  BY NoWriter DEF Init, WritesTo
<1>3. ASSUME NEW p \in Files
      PROVE  FileOf(p) \in Seq(Block) \cup {None} /\ (FileOf(p) # None <=> p \in there)
  <2>1. CASE p \in there
    <3>1. link[p] = f[p] /\ f[p] \in Inodes /\ f[p] # None
      BY <1>1, <2>1, Assumed
    <3>2. content[link[p]] \in Seq(Block)
      BY <3>1, InitInv DEF Inv, TypeInv, TypeOK
    <3>3. FileOf(p) = content[link[p]]
      BY <1>2, <3>1, <3>2 DEF FileOf
    <3> QED
      BY <2>1, <3>2, <3>3, NoneIsNoFile
  <2>2. CASE p \notin there
    BY <1>1, <2>2 DEF FileOf
  <2> QED
    BY <2>1, <2>2
<1>4. StoreFile \in [Files -> Seq(Block) \cup {None}]
  BY <1>3 DEF StoreFile
<1>5. \A f1 \in Inside : Store!There(f1) => directory
  <2> TAKE f1 \in Inside
  <2>1. f1 \in Files /\ f1 # Dir
    BY Assumed
  <2>2. Store!There(f1) = (StoreFile[f1] # None)
    BY <2>1 DEF Store!There, StoreFile, FileOf
  <2> QED
    BY <1>1, <1>3, <2>1, <2>2 DEF StoreFile
<1>6. StoreOwed = [t \in Threads |-> NoAnswer]
  BY DEF Init, StoreOwed, OwedOf, NoJob
<1> QED
  BY <1>4, <1>5, <1>6, SameRequests DEF Init, Store!Init, Store!Block, Block, StoreFile, FileOf,
     StoreOwed, OwedOf

\* Threads whose files are their own serve each request as a whole: whatever the
\* number of threads, files and inodes, the disk changes as the method says, once,
\* when the file is opened, and the answer tells what was done.
THEOREM ImplementsStore ==
  ASSUME FilesApart
  PROVE  Spec => ImplementsFileStore
<1>1. Init => Store!Init
  BY InitMaps
<1>2. Inv /\ AloneInv /\ [Next]_vars => [Store!Next]_(Store!vars)
  BY StepMaps, UnchangedMaps DEF Next
<1> QED
  BY <1>1, <1>2, AloneHolds, PTL DEF Spec, ImplementsFileStore, Store!Spec
=============================================================================

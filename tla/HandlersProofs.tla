--------------------------- MODULE HandlersProofs ---------------------------
(***************************************************************************)
(* Proofs about Handlers, for any number of threads, files and inodes and  *)
(* any requests: what lookups return, whose blocks survive, and what the   *)
(* process dies of, while the threads change the files under each other.   *)
(***************************************************************************)
EXTENDS Handlers, TLAPS, SequenceTheorems

----------------------------------------------------------------------------
(* The invariant.                                                          *)

Job == [req : Request, r : Resource, body : Seq(Block), path : Paths \cup {None},
        size : Nat, data : Seq(Block), fd : Inodes \cup {None}, rest : Seq(Block),
        append : BOOLEAN, again : BOOLEAN]

\* The path a thread has looked up is the one of its request, or the index file
\* of the directory it asks for.
Sought(j) ==
  j.path # None => j.path = j.req.path \/ (j.req.path = Dir /\ j.path = Index)

\* What the locals of a handler hold at each place.
LocalsOf(place, j) ==
  /\ Sought(j)
  /\ place = "stat" => (j.again <=> j.path # None)
  /\ place # "read" => j.data = <<>>
  /\ place = "index" => j.path = Dir
  /\ place \in {"open", "read"} => j.path \in Files
  /\ place = "read" => j.fd \in Inodes /\ Len(j.data) <= j.size
  /\ place \in {"found", "act"} /\ j.r # NoResource => j.path # None /\ j.path = j.r.loc
  /\ place = "write" =>
       /\ j.req.method \in {"POST", "PUT"}
       /\ j.fd \in Inodes /\ Len(j.rest) <= Len(j.body)
       /\ j.path \in Files
       /\ j.r # NoResource => j.path = j.r.loc

LocalsInv == \A t \in Threads : LocalsOf(pc[t], job[t])

Bounded == \A t \in Threads : pc[t] # "idle" => served[t] < MaxServed[t]

\* What nobody has disturbed is there, with what is being read of it.
Undisturbed(t) ==
  LET j == job[t] IN
  /\ j.path # None => Exists(j.path)
  /\ pc[t] = "open" => j.size <= Len(content[link[j.path]])
  /\ pc[t] = "read" => /\ j.fd = link[j.path]
                       /\ IsPrefix(j.data, content[j.fd])
                       /\ j.size <= Len(content[j.fd])
  /\ pc[t] = "found" /\ j.r.loc \in Files => IsPrefix(j.r.data, content[link[j.r.loc]])
  /\ pc[t] = "found" /\ j.again => j.r # NoResource
  /\ pc[t] # "crashed"

DiskInv == \A t \in Threads : intact[t] => Undisturbed(t)

DeadInv == ~running => \E t \in Threads : pc[t] = "crashed"

TypeInv == TypeOK /\ LocalsInv /\ Bounded
Inv     == TypeInv /\ DiskInv /\ DeadInv

----------------------------------------------------------------------------
(* Sequences.                                                              *)

LEMMA PrefixMeans ==
  ASSUME NEW S, NEW s \in Seq(S), NEW u \in Seq(S)
  PROVE  IsPrefix(s, u) <=> Len(s) <= Len(u) /\ \A k \in 1..Len(s) : s[k] = u[k]
<1>1. SubSeq(s, 1, Len(s)) = s
  OBVIOUS
<1>2. ASSUME Len(s) <= Len(u)
      PROVE  /\ SubSeq(u, 1, Len(s)) \in Seq(S)
             /\ Len(SubSeq(u, 1, Len(s))) = Len(s)
             /\ \A k \in 1..Len(s) : SubSeq(u, 1, Len(s))[k] = u[k]
  BY <1>2
<1>3. ASSUME Len(s) <= Len(u), \A k \in 1..Len(s) : s[k] = u[k]
      PROVE  s = SubSeq(u, 1, Len(s))
  BY <1>2, <1>3, SeqEqual
<1> QED
  BY <1>1, <1>2, <1>3 DEF IsPrefix

LEMMA NothingIsPrefix ==
  ASSUME NEW S, NEW s \in Seq(S)
  PROVE  IsPrefix(<<>>, s)
<1>1. <<>> \in Seq(S) /\ Len(<<>>) = 0 /\ Len(s) \in Nat
  BY EmptySeq
<1>2. SubSeq(<<>>, 1, 0) = SubSeq(s, 1, 0)
  OBVIOUS
<1> QED
  BY <1>1, <1>2 DEF IsPrefix

LEMMA PrefixOfItself ==
  ASSUME NEW S, NEW s \in Seq(S)
  PROVE  IsPrefix(s, s)
BY PrefixMeans

LEMMA PrefixOfMore ==
  ASSUME NEW S, NEW s \in Seq(S), NEW u \in Seq(S), NEW v \in Seq(S), IsPrefix(s, u), IsPrefix(u, v)
  PROVE  IsPrefix(s, v)
BY PrefixMeans

LEMMA AppendExtends ==
  ASSUME NEW S, NEW s \in Seq(S), NEW b \in S
  PROVE  Append(s, b) \in Seq(S) /\ IsPrefix(s, Append(s, b))
<1>1. /\ Append(s, b) \in Seq(S) /\ Len(Append(s, b)) = Len(s) + 1
      /\ \A k \in 1..Len(s) : Append(s, b)[k] = s[k]
  OBVIOUS
<1> DEFINE more == Append(s, b)
<1>2. more \in Seq(S) /\ Len(s) <= Len(more) /\ \A k \in 1..Len(s) : s[k] = more[k]
  BY <1>1
<1> HIDE DEF more
<1>3. IsPrefix(s, more)
  BY <1>2, PrefixMeans
<1> QED
  BY <1>1, <1>3 DEF more

\* Reading one more block.
LEMMA NextBlock ==
  ASSUME NEW S, NEW s \in Seq(S), NEW u \in Seq(S), IsPrefix(s, u), Len(s) < Len(u)
  PROVE  IsPrefix(Append(s, u[Len(s) + 1]), u)
<1> DEFINE b == u[Len(s) + 1]
<1>1. b \in S /\ Append(s, b) \in Seq(S) /\ Len(Append(s, b)) = Len(s) + 1
  OBVIOUS
<1>2. \A k \in 1..(Len(s) + 1) : Append(s, b)[k] = u[k]
  BY PrefixMeans
<1> DEFINE more == Append(s, b)
<1>3. more \in Seq(S) /\ Len(more) <= Len(u) /\ \A k \in 1..Len(more) : more[k] = u[k]
  BY <1>1, <1>2
<1> HIDE DEF more
<1>4. IsPrefix(more, u)
  BY <1>3, PrefixMeans
<1> QED
  BY <1>4 DEF more

LEMMA BlocksType == Old \in Block /\ Zero \in Block /\ Text \in Block
BY DEF Old, Zero, Text, BlockOf, Block

LEMMA BodyType ==
  ASSUME NEW t \in Threads, NEW n \in Nat, NEW q \in Request
  PROVE  Body(t, n, q) \in Seq(Block) /\ Output(t, n) \in Seq(Block)
<1>1. \A k \in 0..q.length : BlockOf(t, n, k) \in Block
  BY DEF BlockOf, Block, Request
<1>2. q.length \in Nat
  BY DEF Request
<1>3. Body(t, n, q) \in [1..q.length -> Block]
  BY <1>1, <1>2 DEF Body
<1> QED
  BY <1>1, <1>2, <1>3, SeqDef DEF Output

LEMMA ResponseType ==
  ASSUME NEW q \in Request, NEW status \in Nat, NEW length \in Nat, NEW data \in Seq(Block)
  PROVE  Message(status, q) \in Answer /\ Response(status, length, data, q) \in Answer
BY BlocksType DEF Message, Response, Answer

LEMMA OverwriteType ==
  ASSUME NEW s \in Seq(Block), NEW k \in Nat \ {0}, NEW b \in Block
  PROVE  Overwrite(s, k, b) \in Seq(Block)
<1> DEFINE n == IF Len(s) < k THEN k ELSE Len(s)
<1>1. n \in Nat
  OBVIOUS
<1>2. \A m \in 1..n : (IF m = k THEN b ELSE IF m <= Len(s) THEN s[m] ELSE Zero) \in Block
  BY BlocksType
<1>3. Overwrite(s, k, b) \in [1..n -> Block]
  BY <1>2 DEF Overwrite
<1> QED
  BY <1>1, <1>3, SeqDef

\* The data of a file has the size that stat() gave.
LEMMA PaddedType ==
  ASSUME NEW got \in Seq(Block), NEW n \in Nat
  PROVE  [k \in 1..n |-> IF k <= Len(got) THEN got[k] ELSE Zero] \in Seq(Block)
<1> DEFINE data == [k \in 1..n |-> IF k <= Len(got) THEN got[k] ELSE Zero]
<1>1. data \in [1..n -> Block]
  BY BlocksType
<1> QED
  BY <1>1, SeqDef

----------------------------------------------------------------------------
(* Every step is one of a thread that moves its own locals.                *)

\* What a step of t does to the locals of all threads, and to their answers.
Moves(t) ==
  /\ job' \in [Threads -> Job] /\ pc' \in [Threads -> Places]
  /\ LocalsOf(pc'[t], job'[t])
  /\ \A u \in Threads \ {t} : job'[u] = job[u] /\ pc'[u] = pc[u]

Answers(t) ==
  /\ answer' \in [Threads -> Answer] /\ served' \in [Threads -> Nat]
  /\ \A u \in Threads \ {t} : served'[u] = served[u]
  /\ served'[t] <= MaxServed[t] /\ (pc'[t] # "idle" => served'[t] < MaxServed[t])

DiskType ==
  /\ readable \subseteq Pages /\ directory \in BOOLEAN
  /\ link \in [Files -> Inodes \cup {None}] /\ content \in [Inodes -> Seq(Block)]
  /\ \A p, q \in Files : link[p] = link[q] /\ link[p] # None => p = q
  /\ \A f \in Inside : link[f] # None => directory

LEMMA Assumed ==
  /\ Dir \notin Files /\ Inside \subseteq Files /\ Index \in Files /\ Index \in Inside
  /\ None \notin Paths /\ None \notin Threads /\ None \notin Inodes
  /\ RequestsOf \in [Threads -> SUBSET Request] /\ MaxServed \in [Threads -> Nat]
  /\ NoResource \in Resource /\ NoJob \in Job /\ LocalsOf("idle", NoJob) /\ NoJob.path = None
  /\ \A S \in Readables : S \subseteq Pages
<1>1. NoRequest \in Request /\ NoResource \in Resource
  BY DEF NoRequest, Request, NoResource, Resource, Methods, Paths
<1>2. NoJob \in Job
  BY <1>1 DEF NoJob, Job
<1>3. LocalsOf("idle", NoJob)
  BY DEF NoJob, LocalsOf, Sought
<1> QED
  BY <1>1, <1>2, <1>3, FileRequestsAssumption, HandlersAssumption DEF Paths, NoJob

LEMMA SendMoves ==
  ASSUME TypeInv, NEW t \in Threads, NEW response \in Answer, SendResponse(t, response), pc[t] # "idle"
  PROVE  Moves(t) /\ Answers(t) /\ pc'[t] = "idle" /\ job'[t] = NoJob
<1>1. job' = [job EXCEPT ![t] = NoJob] /\ pc' = [pc EXCEPT ![t] = "idle"]
  BY DEF SendResponse
<1>2. Moves(t) /\ pc'[t] = "idle" /\ job'[t] = NoJob
  BY <1>1, Assumed DEF Moves, TypeInv, TypeOK, Job, Places
<1>3. answer' \in [Threads -> Answer]
  BY DEF SendResponse, TypeInv, TypeOK
<1>4. served[t] \in Nat /\ served[t] < MaxServed[t] /\ MaxServed[t] \in Nat
  BY Assumed DEF TypeInv, TypeOK, Bounded
<1> QED
  BY <1>1, <1>2, <1>3, <1>4 DEF SendResponse, Answers, TypeInv, TypeOK

\* What holds of a thread's own locals.
LEMMA Own ==
  ASSUME TypeInv, NEW t \in Threads
  PROVE  /\ job \in [Threads -> Job] /\ pc \in [Threads -> Places]
         /\ job[t] \in Job /\ pc[t] \in Places /\ LocalsOf(pc[t], job[t])
         /\ link \in [Files -> Inodes \cup {None}] /\ content \in [Inodes -> Seq(Block)]
         /\ served[t] \in Nat
BY Assumed DEF TypeInv, TypeOK, LocalsInv, Job

\* A thread whose locals become j at place moves; all it needs is j's type.
LEMMA MovesTo ==
  ASSUME TypeInv, NEW t \in Threads, NEW place \in Places, NEW j \in Job, LocalsOf(place, j),
         pc' = [pc EXCEPT ![t] = place], job' = [job EXCEPT ![t] = j]
  PROVE  Moves(t) /\ pc'[t] = place /\ job'[t] = j
BY Own DEF Moves

LEMMA FoundMoves ==
  ASSUME TypeInv, NEW t \in Threads, NEW res \in Resource, Found(t, res),
         res # NoResource => job[t].path # None /\ job[t].path = res.loc
  PROVE  Moves(t) /\ pc'[t] = "found" /\ job'[t].r = res /\ job'[t].path = job[t].path
         /\ job'[t].again = job[t].again
<1> DEFINE j == [job[t] EXCEPT !.r = res, !.size = 0, !.data = <<>>, !.fd = None]
<1>0. j \in Job
  <2>1. <<>> \in Seq(Block) /\ job[t] \in Job
    BY Own, EmptySeq
  <2> QED
    BY <2>1 DEF Job
<1>1. LocalsOf("found", j)
  <2>1. Sought(j)
    BY Own DEF Job, LocalsOf, Sought
  <2>2. j.data = <<>> /\ (j.r # NoResource => j.path # None /\ j.path = j.r.loc)
    BY Own DEF Job
  <2> QED
    BY <2>1, <2>2 DEF LocalsOf
<1>2. job' = [job EXCEPT ![t] = j] /\ pc' = [pc EXCEPT ![t] = "found"]
  BY Own DEF Found, Job
<1>3. j.r = res /\ j.path = job[t].path /\ j.again = job[t].again
  BY Own DEF Job
<1> HIDE DEF j
<1> QED
  BY <1>0, <1>1, <1>2, <1>3, MovesTo DEF Places

LEMMA WillReadMoves ==
  ASSUME TypeInv, NEW t \in Threads, NEW p \in Files, WillRead(t, p), Exists(p), job[t].data = <<>>,
         p = job[t].req.path \/ (job[t].req.path = Dir /\ p = Index)
  PROVE  /\ Moves(t) /\ pc'[t] = "open" /\ job'[t].path = p /\ job'[t].again = job[t].again
         /\ job'[t].size = Len(content[link[p]])
<1> DEFINE j == [job[t] EXCEPT !.path = p, !.size = Len(content[link[p]])]
<1>1. link[p] \in Inodes /\ Len(content[link[p]]) \in Nat
  BY Own, Assumed DEF Exists
<1>2. j \in Job /\ LocalsOf("open", j)
  BY <1>1, Own DEF Job, LocalsOf, Sought, Paths
<1>3. job' = [job EXCEPT ![t] = j] /\ pc' = [pc EXCEPT ![t] = "open"]
  BY Own DEF WillRead, Job
<1>4. j.path = p /\ j.again = job[t].again /\ j.size = Len(content[link[p]])
  BY Own DEF Job
<1> HIDE DEF j
<1> QED
  BY <1>2, <1>3, <1>4, MovesTo DEF Places

\* Without an answer nothing is counted.
LEMMA NoAnswerYet ==
  ASSUME TypeInv, NEW t \in Threads, served[t] < MaxServed[t], UNCHANGED <<answer, served>>
  PROVE  Answers(t)
BY DEF Answers, TypeInv, TypeOK

LEMMA Keeps ==
  ASSUME TypeInv, NEW t \in Threads, Moves(t), Answers(t), DiskType',
         running' \in BOOLEAN, intact' \in [Threads -> BOOLEAN]
  PROVE  TypeInv'
<1>1. TypeOK'
  BY DEF TypeInv, TypeOK, DiskType, Moves, Answers, Job
<1>2. LocalsInv'
  BY DEF TypeInv, LocalsInv, Moves
<1>3. Bounded'
  BY DEF TypeInv, Bounded, Moves, Answers
<1> QED
  BY <1>1, <1>2, <1>3 DEF TypeInv

LEMMA DiskTypeHolds ==
  ASSUME TypeInv
  PROVE  DiskType /\ (UNCHANGED disk => DiskType')
BY DEF TypeInv, TypeOK, DiskType, disk

\* 404 may hang the thread; any other status is answered.
LEMMA StatusMoves ==
  ASSUME TypeInv, NEW t \in Threads, NEW status \in Nat, SendStatusResponse(t, status), pc[t] # "idle",
         pc[t] # "read"
  PROVE  /\ Moves(t) /\ Answers(t)
         /\ \/ job'[t] = NoJob /\ pc'[t] = "idle"
            \/ job'[t] = job[t] /\ pc'[t] = "hung"
<1>1. CASE status = 404 /\ "error" \notin readable
  <2>1. pc' = [pc EXCEPT ![t] = "hung"] /\ UNCHANGED <<job, answer, served>>
    BY <1>1 DEF SendStatusResponse
  <2>2. LocalsOf("hung", job[t])
    BY Own DEF LocalsOf
  <2>3. job' = [job EXCEPT ![t] = job[t]]
    BY <2>1, Own
  <2>4. Moves(t) /\ job'[t] = job[t] /\ pc'[t] = "hung"
    BY <2>1, <2>2, <2>3, Own, MovesTo DEF Places
  <2>5. Answers(t)
    BY <2>1, NoAnswerYet DEF TypeInv, Bounded
  <2> QED
    BY <2>4, <2>5
<1>2. CASE ~(status = 404 /\ "error" \notin readable)
  <2>1. SendResponse(t, Message(status, job[t].req))
    BY <1>2 DEF SendStatusResponse
  <2>2. Message(status, job[t].req) \in Answer
    BY Own, ResponseType, EmptySeq DEF Job
  <2> QED
    BY <2>1, <2>2, SendMoves
<1> QED
  BY <1>1, <1>2

----------------------------------------------------------------------------
(* The steps of the thread itself.                                         *)

\* What a step of t leaves: types, and what t itself relies on.
Good(t) ==
  /\ Moves(t) /\ Answers(t) /\ DiskType'
  /\ intact' \in [Threads -> BOOLEAN] /\ running' \in BOOLEAN
  /\ intact'[t] => Undisturbed(t)'

\* While the disk and the locals that matter stay, so does what t relies on.
LEMMA AnsweredIsGood ==
  ASSUME TypeInv, NEW t \in Threads, Moves(t), job'[t] = NoJob, pc'[t] = "idle"
  PROVE  Undisturbed(t)'
BY Assumed DEF Undisturbed

LEMMA RequestIsGood ==
  ASSUME Inv, NEW t \in Threads, HandleRequest(t), running
  PROVE  Good(t)
<1>1. PICK q \in RequestsOf[t] :
        job' = [job EXCEPT ![t] = [NoJob EXCEPT !.req = q, !.body = Body(t, served[t], q)]]
  BY DEF HandleRequest
<1> DEFINE j == [NoJob EXCEPT !.req = q, !.body = Body(t, served[t], q)]
<1>2. q \in Request /\ Body(t, served[t], q) \in Seq(Block)
  BY Assumed, Own, BodyType DEF Inv
<1>3. j \in Job /\ LocalsOf("stat", j) /\ j.path = None
  BY <1>2, Assumed DEF Job, LocalsOf, Sought, NoJob
<1>4. job' = [job EXCEPT ![t] = j] /\ pc' = [pc EXCEPT ![t] = "stat"]
  BY <1>1 DEF HandleRequest
<1> HIDE DEF j
<1>5. Moves(t) /\ pc'[t] = "stat" /\ job'[t].path = None
  BY <1>3, <1>4, MovesTo DEF Inv, Places
<1>6. Answers(t)
  BY NoAnswerYet DEF HandleRequest, Inv
<1>7. Undisturbed(t)'
  BY <1>5 DEF Undisturbed
<1> QED
  BY <1>5, <1>6, <1>7, DiskTypeHolds DEF Good, HandleRequest, Inv, TypeInv, TypeOK

\* What the steps of a lookup have in common.
LEMMA LookupKeeps ==
  ASSUME Inv, NEW t \in Threads, pc[t] # "idle", UNCHANGED <<disk, answer, served, running>>
  PROVE  Answers(t) /\ DiskType' /\ running' \in BOOLEAN
BY NoAnswerYet, DiskTypeHolds DEF Inv, TypeInv, Bounded, TypeOK

LEMMA WillReadIsGood ==
  ASSUME Inv, NEW t \in Threads, NEW p \in Files, WillRead(t, p), Exists(p), UNCHANGED disk,
         pc[t] # "read", p = job[t].req.path \/ (job[t].req.path = Dir /\ p = Index)
  PROVE  Moves(t) /\ Undisturbed(t)'
<1>1. job[t].data = <<>>
  BY Own DEF Inv, LocalsOf
<1>2. /\ Moves(t) /\ pc'[t] = "open" /\ job'[t].path = p
      /\ job'[t].size = Len(content[link[p]])
  BY <1>1, WillReadMoves DEF Inv
<1>3. Len(content[link[p]]) <= Len(content[link[p]])
  BY Own, Assumed DEF Exists, Inv
<1> QED
  BY <1>2, <1>3 DEF Undisturbed, Exists, disk

LEMMA StatIsGood ==
  ASSUME Inv, NEW t \in Threads, Stat(t)
  PROVE  Good(t)
<1> DEFINE p == job[t].req.path
<1>1. /\ pc[t] = "stat" /\ UNCHANGED <<disk, answer, served, running>>
      /\ intact' = [intact EXCEPT ![t] = @ \/ ~job[t].again]
  BY DEF Stat
<1>2. job[t] \in Job /\ LocalsOf("stat", job[t]) /\ p \in Paths
  BY <1>1, Own DEF Inv, Job, Request
<1>3. intact' \in [Threads -> BOOLEAN] /\ (intact'[t] => intact[t] \/ ~job[t].again)
  BY <1>1 DEF Inv, TypeInv, TypeOK
<1>4. CASE ~Exists(p) /\ Found(t, NoResource)
  <2>1. /\ Moves(t) /\ pc'[t] = "found" /\ job'[t].r = NoResource
        /\ job'[t].path = job[t].path /\ job'[t].again = job[t].again
    BY <1>4, FoundMoves, Assumed DEF Inv
  <2>2. ASSUME intact[t], job[t].again PROVE FALSE
    <3>1. job[t].path # None /\ Exists(job[t].path)
      BY <1>2, <2>2 DEF Inv, DiskInv, Undisturbed, LocalsOf
    <3>2. p = Dir /\ job[t].path = Index
      BY <1>2, <1>4, <3>1 DEF LocalsOf, Sought
    <3>3. link[Index] # None
      BY <3>1, <3>2, Assumed DEF Exists
    <3> QED
      BY <1>4, <3>2, <3>3, Assumed DEF Exists, Inv, TypeInv, TypeOK
  <2>3. intact'[t] => ~job[t].again /\ job'[t].path = None
    BY <1>2, <1>3, <2>1, <2>2 DEF LocalsOf
  <2>4. NoResource.loc \notin Files
    BY Assumed DEF NoResource, Paths
  <2>5. intact'[t] => Undisturbed(t)'
    BY <2>1, <2>3, <2>4 DEF Undisturbed
  <2> QED
    BY <1>1, <1>3, <2>1, <2>5, LookupKeeps DEF Good
<1>5. CASE Exists(p) /\ p = Dir /\ job' = [job EXCEPT ![t].path = Dir] /\ pc' = [pc EXCEPT ![t] = "index"]
  <2> DEFINE j == [job[t] EXCEPT !.path = Dir]
  <2>1. j \in Job /\ LocalsOf("index", j) /\ j.path = Dir
    BY <1>1, <1>2, <1>5 DEF Job, LocalsOf, Sought, Paths
  <2>2. job' = [job EXCEPT ![t] = j]
    BY <1>5, Own DEF Inv, Job
  <2> HIDE DEF j
  <2>3. Moves(t) /\ pc'[t] = "index" /\ job'[t].path = Dir
    BY <1>5, <2>1, <2>2, MovesTo DEF Places, Inv
  <2>4. Undisturbed(t)'
    BY <1>1, <1>5, <2>3 DEF Undisturbed, Exists, disk
  <2> QED
    BY <1>1, <1>3, <2>3, <2>4, LookupKeeps DEF Good
<1>6. CASE Exists(p) /\ p # Dir /\ WillRead(t, p)
  <2>1. p \in Files
    BY <1>2, <1>6 DEF Paths
  <2>2. Moves(t) /\ Undisturbed(t)'
    BY <1>1, <1>6, <2>1, WillReadIsGood
  <2> QED
    BY <1>1, <1>3, <2>2, LookupKeeps DEF Good
<1> QED
  BY <1>4, <1>5, <1>6 DEF Stat

LEMMA StatIndexIsGood ==
  ASSUME Inv, NEW t \in Threads, StatIndex(t)
  PROVE  Good(t)
<1>1. pc[t] = "index" /\ UNCHANGED <<disk, answer, served, running, intact>>
  BY DEF StatIndex
<1>2. /\ job[t] \in Job /\ LocalsOf("index", job[t]) /\ job[t].path = Dir
      /\ job[t].req.path \in Paths /\ intact \in [Threads -> BOOLEAN]
  BY <1>1, Own DEF Inv, Job, Request, LocalsOf, TypeInv, TypeOK
<1>3. intact[t] => Exists(Dir)
  BY <1>2, Assumed DEF Inv, DiskInv, Undisturbed, Paths
<1>4. CASE Exists(Index) /\ WillRead(t, Index)
  <2>1. job[t].req.path = Dir
    BY <1>2, Assumed DEF LocalsOf, Sought, Paths
  <2>2. Moves(t) /\ Undisturbed(t)'
    BY <1>1, <1>4, <2>1, WillReadIsGood, Assumed
  <2> QED
    BY <1>1, <1>2, <2>2, LookupKeeps DEF Good
<1>5. CASE Found(t, [loc |-> Dir, dir |-> TRUE, data |-> <<Text>>])
  <2> DEFINE res == [loc |-> Dir, dir |-> TRUE, data |-> <<Text>>]
  <2>1. res \in Resource /\ res # NoResource /\ res.loc = Dir /\ Dir \notin Files /\ Dir # None
    BY Assumed, BlocksType DEF Resource, NoResource, Paths
  <2> HIDE DEF res
  <2>2. /\ Moves(t) /\ pc'[t] = "found" /\ job'[t].r = res /\ job'[t].path = Dir
    BY <1>2, <1>5, <2>1, FoundMoves DEF Inv, res
  <2>3. intact'[t] => Undisturbed(t)'
    BY <1>1, <1>3, <2>1, <2>2 DEF Undisturbed, Exists, disk
  <2> QED
    BY <1>1, <1>2, <2>2, <2>3, LookupKeeps DEF Good
<1>6. CASE pc' = [pc EXCEPT ![t] = "hung"] /\ UNCHANGED job
  <2>1. LocalsOf("hung", job[t]) /\ job' = [job EXCEPT ![t] = job[t]]
    BY <1>1, <1>2, <1>6, Own DEF LocalsOf, Inv
  <2>2. Moves(t) /\ pc'[t] = "hung" /\ job'[t] = job[t]
    BY <1>2, <1>6, <2>1, MovesTo DEF Places, Inv
  <2>3. intact'[t] => Undisturbed(t)'
    BY <1>1, <1>2, <1>3, <2>2 DEF Undisturbed, Exists, disk
  <2> QED
    BY <1>1, <1>2, <2>2, <2>3, LookupKeeps DEF Good
<1> QED
  BY <1>4, <1>5, <1>6 DEF StatIndex

LEMMA OpenIsGood ==
  ASSUME Inv, NEW t \in Threads, Open(t)
  PROVE  Good(t)
<1>1. pc[t] = "open" /\ UNCHANGED <<disk, answer, served, running, intact>>
  BY DEF Open
<1> DEFINE p == job[t].path
<1>2. /\ job[t] \in Job /\ LocalsOf("open", job[t]) /\ p \in Files /\ p # Dir /\ p # None
      /\ job[t].data = <<>> /\ intact \in [Threads -> BOOLEAN]
  BY <1>1, Own, Assumed DEF Inv, LocalsOf, TypeInv, TypeOK, Paths
<1>3. intact[t] => Exists(p) /\ job[t].size <= Len(content[link[p]])
  BY <1>1, <1>2 DEF Inv, DiskInv, Undisturbed
<1>4. CASE Exists(p)
  <2> DEFINE j == [job[t] EXCEPT !.fd = link[p]]
  <2>1. link[p] \in Inodes /\ content[link[p]] \in Seq(Block)
    BY <1>2, <1>4, Own DEF Exists, Inv
  <2>2. j \in Job
    BY <1>2, <2>1 DEF Job
  <2>3. /\ j.path = p /\ j.size = job[t].size /\ j.data = <<>> /\ j.fd = link[p]
        /\ j.req = job[t].req /\ job[t].size \in Nat
    BY <1>2 DEF Job
  <2>4. job' = [job EXCEPT ![t] = j] /\ pc' = [pc EXCEPT ![t] = "read"]
    BY <1>4, Own DEF Open, Job, Inv
  <2> HIDE DEF j
  <2> HIDE DEF p
  <2>8. LocalsOf("read", j)
    <3>1. Sought(j)
      BY <1>2, <2>3 DEF LocalsOf, Sought, p
    <3>2. Len(<<>>) = 0
      BY EmptySeq
    <3> QED
      BY <1>2, <2>1, <2>3, <3>1, <3>2 DEF LocalsOf
  <2> USE DEF p
  <2>5. Moves(t) /\ pc'[t] = "read" /\ job'[t] = j
    BY <2>2, <2>4, <2>8, MovesTo DEF Places, Inv
  <2>6. IsPrefix(<<>>, content[link[p]])
    BY <2>1, NothingIsPrefix
  <2>7. intact'[t] => Undisturbed(t)'
    BY <1>1, <1>2, <1>3, <2>3, <2>5, <2>6 DEF Undisturbed, Exists, disk
  <2> QED
    BY <1>1, <1>2, <2>5, <2>7, LookupKeeps DEF Good
<1>5. CASE ~Exists(p)
  <2>1. Moves(t)
    BY <1>5, FoundMoves, Assumed DEF Inv, Open
  <2> QED
    BY <1>1, <1>2, <1>3, <1>5, <2>1, LookupKeeps DEF Good
<1> QED
  BY <1>4, <1>5

LEMMA ReadIsGood ==
  ASSUME Inv, NEW t \in Threads, Read(t)
  PROVE  Good(t)
<1>1. /\ pc[t] = "read" /\ UNCHANGED <<disk, pc, answer, served, running, intact>>
      /\ Len(job[t].data) < Len(content[job[t].fd]) /\ Len(job[t].data) # job[t].size
  BY DEF Read, AtEnd
<1> DEFINE got == job[t].data
           all == content[job[t].fd]
           more == Append(got, all[Len(got) + 1])
           j == [job[t] EXCEPT !.data = more]
<1>2. /\ job[t] \in Job /\ LocalsOf("read", job[t]) /\ job[t].fd \in Inodes
      /\ job[t].path \in Files /\ Len(got) <= job[t].size /\ intact \in [Threads -> BOOLEAN]
  BY <1>1, Own DEF Inv, LocalsOf, TypeInv, TypeOK
<1>3. got \in Seq(Block) /\ all \in Seq(Block) /\ job[t].size \in Nat
  BY <1>2, Own DEF Inv, Job
<1>4. more \in Seq(Block) /\ Len(more) <= job[t].size
  BY <1>1, <1>2, <1>3
<1>5. IsPrefix(got, all) => IsPrefix(more, all)
  BY <1>1, <1>3, NextBlock
<1>6. job' = [job EXCEPT ![t] = j] /\ pc' = [pc EXCEPT ![t] = "read"]
  BY <1>1, <1>2, Own DEF Read, Job, Inv
<1> HIDE DEF more
<1>7. j \in Job /\ LocalsOf("read", j)
  BY <1>1, <1>2, <1>3, <1>4 DEF Job, LocalsOf, Sought
<1>8. j.path = job[t].path /\ j.size = job[t].size /\ j.data = more /\ j.fd = job[t].fd
  BY <1>2 DEF Job
<1> HIDE DEF j
<1>9. Moves(t) /\ pc'[t] = "read" /\ job'[t] = j
  BY <1>6, <1>7, MovesTo DEF Places, Inv
<1>10. intact'[t] => Undisturbed(t)
  BY <1>1 DEF Inv, DiskInv
<1>11. intact'[t] => Undisturbed(t)'
  BY <1>1, <1>5, <1>8, <1>9, <1>10 DEF Undisturbed, Exists, disk
<1> QED
  BY <1>1, <1>2, <1>9, <1>11, LookupKeeps DEF Good

LEMMA EndReadIsGood ==
  ASSUME Inv, NEW t \in Threads, EndRead(t)
  PROVE  Good(t)
<1>1. pc[t] = "read" /\ AtEnd(t) /\ UNCHANGED <<disk, answer, served, running, intact>>
  BY DEF EndRead
<1> DEFINE got == job[t].data
           n == job[t].size
           read == [k \in 1..n |-> IF k <= Len(got) THEN got[k] ELSE Zero]
           res == [loc |-> job[t].path, dir |-> FALSE, data |-> read]
<1>2. /\ job[t] \in Job /\ LocalsOf("read", job[t]) /\ job[t].fd \in Inodes
      /\ job[t].path \in Files /\ Len(got) <= n /\ intact \in [Threads -> BOOLEAN]
  BY <1>1, Own DEF Inv, LocalsOf, TypeInv, TypeOK
<1>3. got \in Seq(Block) /\ n \in Nat /\ content[job[t].fd] \in Seq(Block)
  BY <1>2, Own DEF Inv, Job
<1>4. read \in Seq(Block)
  BY <1>3, PaddedType
<1>5. Len(got) = n => read = got
  BY <1>3
<1>6. Found(t, res)
  BY DEF EndRead
<1> HIDE DEF read
<1>7. /\ res \in Resource /\ res # NoResource /\ res.loc = job[t].path /\ res.data = read
      /\ job[t].path # None
  BY <1>2, <1>4, Assumed DEF Resource, NoResource, Paths
<1> HIDE DEF res
<1>8. /\ Moves(t) /\ pc'[t] = "found" /\ job'[t].r = res /\ job'[t].path = job[t].path
  BY <1>6, <1>7, FoundMoves DEF Inv
<1>9. intact'[t] => Undisturbed(t)
  BY <1>1 DEF Inv, DiskInv
<1>10. intact'[t] => IsPrefix(read, content[link[res.loc]])
  <2>1. ASSUME intact'[t] PROVE got = read
    <3>1. Len(got) <= Len(content[job[t].fd]) /\ n <= Len(content[job[t].fd])
      BY <1>1, <1>2, <1>3, <1>9, <2>1, PrefixMeans DEF Undisturbed
    <3> QED
      BY <1>1, <1>2, <1>3, <1>5, <3>1 DEF AtEnd
  <2> QED
    BY <1>1, <1>7, <1>9, <2>1 DEF Undisturbed
<1>11. intact'[t] => Undisturbed(t)'
  BY <1>1, <1>7, <1>8, <1>9, <1>10 DEF Undisturbed, Exists, disk
<1> QED
  BY <1>1, <1>2, <1>8, <1>11, LookupKeeps DEF Good

\* A thread that has answered, or hangs, has disturbed nobody's lookup but its own.
LEMMA AnswerIsGood ==
  ASSUME Inv, NEW t \in Threads, Moves(t), Answers(t), UNCHANGED <<disk, intact>>, running' \in BOOLEAN,
         \/ job'[t] = NoJob /\ pc'[t] = "idle"
         \/ job'[t] = job[t] /\ pc'[t] = "hung"
  PROVE  Good(t)
<1>1. intact'[t] => Undisturbed(t)
  BY DEF Inv, DiskInv
<1>2. intact'[t] => Undisturbed(t)'
  BY <1>1, Assumed DEF Undisturbed, Exists, disk
<1> QED
  BY <1>2, DiskTypeHolds DEF Good, Inv, TypeInv, TypeOK

LEMMA RunCgiIsGood ==
  ASSUME Inv, NEW t \in Threads, RunCgi(t)
  PROVE  Good(t)
<1> DEFINE out == Output(t, served[t])
           j == [job[t] EXCEPT !.body = out]
<1>1. pc[t] = "found" /\ UNCHANGED <<disk, answer, served, running, intact>>
  BY DEF RunCgi
<1>2. job[t] \in Job /\ LocalsOf("found", job[t]) /\ intact \in [Threads -> BOOLEAN]
  BY <1>1, Own DEF Inv, TypeInv, TypeOK
<1>3. out \in Seq(Block)
  BY <1>2, Own, BodyType DEF Inv, Job
<1>4. job' = [job EXCEPT ![t] = j] /\ pc' = [pc EXCEPT ![t] = "act"]
  BY Own DEF RunCgi, Inv, Job
<1> HIDE DEF out
<1>5. j \in Job /\ LocalsOf("act", j) /\ j.path = job[t].path
  BY <1>2, <1>3 DEF Job, LocalsOf, Sought
<1> HIDE DEF j
<1>6. Moves(t) /\ pc'[t] = "act" /\ job'[t].path = job[t].path
  BY <1>4, <1>5, MovesTo DEF Inv, Places
<1>7. intact'[t] => Undisturbed(t)
  BY <1>1 DEF Inv, DiskInv
<1>8. intact'[t] => Undisturbed(t)'
  BY <1>1, <1>6, <1>7 DEF Undisturbed, Exists, disk
<1> QED
  BY <1>1, <1>2, <1>6, <1>8, LookupKeeps DEF Good

LEMMA ReadyIsBusy ==
  ASSUME Inv, NEW t \in Threads, NEW methods, Ready(t, methods)
  PROVE  /\ pc[t] \in {"found", "act"} /\ job[t].req.method \in methods
         /\ LocalsOf(pc[t], job[t]) /\ job[t] \in Job /\ job[t].req \in Request
         /\ job[t].r # NoResource => job[t].path # None /\ job[t].path = job[t].r.loc
BY Own DEF Inv, Ready, Job, LocalsOf

LEMMA AnswerGetIsGood ==
  ASSUME Inv, NEW t \in Threads, AnswerGet(t)
  PROVE  Good(t)
<1> DEFINE q == job[t].req
           r == job[t].r
           data == IF q.method = "HEAD" THEN <<>> ELSE IF q.cgi THEN job[t].body ELSE r.data
           status == IF r.dir THEN 404 ELSE 200
<1>1. pc[t] \in {"found", "act"} /\ UNCHANGED <<disk, running, intact>> /\ job[t] \in Job
  BY ReadyIsBusy DEF AnswerGet
<1>2. \/ SendStatusResponse(t, 404)
      \/ SendResponse(t, Response(status, Len(r.data), data, q))
  BY DEF AnswerGet
<1>3. /\ q \in Request /\ r.data \in Seq(Block) /\ job[t].body \in Seq(Block)
  BY <1>1 DEF Job, Resource
<1>4. data \in Seq(Block) /\ status \in Nat /\ Len(r.data) \in Nat
  BY <1>3, EmptySeq
<1> HIDE DEF data, status
<1>5. Response(status, Len(r.data), data, q) \in Answer
  BY <1>3, <1>4, ResponseType
<1>6. /\ Moves(t) /\ Answers(t)
      /\ \/ job'[t] = NoJob /\ pc'[t] = "idle"
         \/ job'[t] = job[t] /\ pc'[t] = "hung"
  BY <1>1, <1>2, <1>5, StatusMoves, SendMoves DEF Inv
<1> QED
  BY <1>1, <1>6, AnswerIsGood DEF Inv, TypeInv, TypeOK

LEMMA StoredType ==
  ASSUME NEW t \in Threads, job[t] \in Job
  PROVE  Stored(t) \in Answer
<1> DEFINE q == job[t].req
           body == job[t].body
           data == IF q.cgi THEN body ELSE <<>>
<1>1. q \in Request /\ body \in Seq(Block) /\ Len(body) \in Nat /\ <<>> \in Seq(Block)
  BY EmptySeq DEF Job
<1>2. data \in Seq(Block)
  BY <1>1
<1>3. \A status, length \in Nat, d \in Seq(Block) : Response(status, length, d, q) \in Answer
  BY <1>1, ResponseType
<1> HIDE DEF q, body
<1>4. /\ Response(200, Len(body), body, q) \in Answer
      /\ Response(201, Len(body), data, q) \in Answer
      /\ Response(201, 0, <<>>, q) \in Answer
      /\ Response(204, 0, <<>>, q) \in Answer
  BY <1>1, <1>2, <1>3, ZenonT(40)
<1> QED
  BY <1>4 DEF Stored, q, body

\* A POST to what exists looks it up again, whether or not it could be opened.
LEMMA AgainIsGood ==
  ASSUME Inv, NEW t \in Threads, pc[t] \in {"found", "act", "write"}, UNCHANGED <<disk, answer, served, running, intact>>,
         job[t].path # None, pc' = [pc EXCEPT ![t] = "stat"],
         \/ job' = [job EXCEPT ![t].again = TRUE]
         \/ job' = [job EXCEPT ![t].fd = None, ![t].again = TRUE]
  PROVE  Good(t)
<1>1. job[t] \in Job /\ LocalsOf(pc[t], job[t]) /\ intact \in [Threads -> BOOLEAN]
  BY Own DEF Inv, TypeInv, TypeOK
<1>2. PICK j \in Job : job' = [job EXCEPT ![t] = j] /\ j.path = job[t].path /\ LocalsOf("stat", j)
  <2> DEFINE j1 == [job[t] EXCEPT !.again = TRUE]
             j2 == [job[t] EXCEPT !.fd = None, !.again = TRUE]
  <2>1. j1 \in Job /\ LocalsOf("stat", j1) /\ j1.path = job[t].path
    BY <1>1 DEF Job, LocalsOf, Sought
  <2>2. j2 \in Job /\ LocalsOf("stat", j2) /\ j2.path = job[t].path
    BY <1>1 DEF Job, LocalsOf, Sought
  <2>3. job' = [job EXCEPT ![t] = j1] \/ job' = [job EXCEPT ![t] = j2]
    BY Own DEF Job, Inv
  <2> QED
    BY <2>1, <2>2, <2>3
<1>3. Moves(t) /\ pc'[t] = "stat" /\ job'[t].path = job[t].path
  BY <1>2, MovesTo DEF Inv, Places
<1>4. intact'[t] => Undisturbed(t)
  BY DEF Inv, DiskInv
<1>5. intact'[t] => Undisturbed(t)'
  BY <1>3, <1>4 DEF Undisturbed, Exists, disk
<1> QED
  BY <1>1, <1>3, <1>5, LookupKeeps DEF Good

LEMMA CannotOpenIsGood ==
  ASSUME Inv, NEW t \in Threads, CannotOpen(t)
  PROVE  Good(t)
<1>1. /\ pc[t] \in {"found", "act"} /\ UNCHANGED <<disk, running, intact>>
      /\ job[t].r # NoResource => job[t].path # None
  BY ReadyIsBusy DEF CannotOpen
<1>2. CASE Extends(t)
  BY <1>1, <1>2, AgainIsGood DEF CannotOpen, Extends
<1>3. CASE ~Extends(t)
  <2>1. SendStatusResponse(t, 501)
    BY <1>3 DEF CannotOpen
  <2>2. TypeInv /\ 501 \in Nat /\ pc[t] # "idle" /\ pc[t] # "read"
    BY <1>1 DEF Inv
  <2>3. /\ Moves(t) /\ Answers(t)
        /\ \/ job'[t] = NoJob /\ pc'[t] = "idle"
           \/ job'[t] = job[t] /\ pc'[t] = "hung"
    BY <2>1, <2>2, StatusMoves
  <2>4. running' \in BOOLEAN
    BY <1>1 DEF Inv, TypeInv, TypeOK
  <2> QED
    BY <1>1, <2>3, <2>4, AnswerIsGood
<1> QED
  BY <1>2, <1>3

LEMMA CloseIsGood ==
  ASSUME Inv, NEW t \in Threads, Close(t)
  PROVE  Good(t)
<1>1. /\ pc[t] = "write" /\ UNCHANGED <<disk, running, intact>> /\ job[t] \in Job
      /\ job[t].path # None
  BY Own, Assumed DEF Close, Inv, LocalsOf, Paths
<1>2. CASE Extends(t)
  BY <1>1, <1>2, AgainIsGood DEF Close
<1>3. CASE ~Extends(t)
  <2>1. SendResponse(t, Stored(t))
    BY <1>3 DEF Close
  <2> QED
    BY <1>1, <2>1, StoredType, SendMoves, AnswerIsGood DEF Inv, TypeInv, TypeOK
<1> QED
  BY <1>2, <1>3

LEMMA AnswerAppendIsGood ==
  ASSUME Inv, NEW t \in Threads, AnswerAppend(t)
  PROVE  Good(t)
<1>1. pc[t] = "found" /\ job[t].again /\ UNCHANGED <<disk, intact>> /\ job[t] \in Job
  BY Own DEF AnswerAppend, Inv
<1>2. CASE job[t].r = NoResource
  <2>1. running' = FALSE /\ pc' = [pc EXCEPT ![t] = "crashed"] /\ UNCHANGED <<job, answer, served>>
    BY <1>2 DEF AnswerAppend
  <2>2. ~intact[t]
    BY <1>1, <1>2 DEF Inv, DiskInv, Undisturbed
  <2>3. LocalsOf("crashed", job[t]) /\ job' = [job EXCEPT ![t] = job[t]]
    BY <1>1, <2>1, Own DEF LocalsOf, Inv
  <2>4. Moves(t)
    BY <1>1, <2>1, <2>3, MovesTo DEF Places, Inv
  <2>5. Answers(t)
    BY <1>1, <2>1, NoAnswerYet DEF Inv, TypeInv, Bounded
  <2> QED
    BY <1>1, <2>1, <2>2, <2>4, <2>5, DiskTypeHolds DEF Good, Inv, TypeInv, TypeOK
<1>3. CASE job[t].r # NoResource
  <2>1. SendResponse(t, Stored(t)) /\ UNCHANGED running
    BY <1>3 DEF AnswerAppend
  <2> QED
    BY <1>1, <2>1, StoredType, SendMoves, AnswerIsGood DEF Inv, TypeInv, TypeOK
<1> QED
  BY <1>2, <1>3

\* Spoil keeps the types, and says what the step did to the others.
LEMMA SpoilMeans ==
  ASSUME Inv, NEW t \in Threads, NEW own \in BOOLEAN, Spoil(t, own)
  PROVE  /\ intact' \in [Threads -> BOOLEAN] /\ intact'[t] = own
         /\ \A u \in Threads \ {t} :
              intact'[u] => intact[u] /\ (job[u].path = None \/ ~Touches(job[u].path))
<1>1. intact \in [Threads -> BOOLEAN]
  BY DEF Inv, TypeInv, TypeOK
<1>2. \A u \in Threads : (IF u = t THEN own
               ELSE intact[u] /\ (job[u].path = None \/ ~Touches(job[u].path))) \in BOOLEAN
  BY <1>1
<1> QED
  BY <1>1, <1>2 DEF Spoil

LEMMA OpenToWriteIsGood ==
  ASSUME Inv, NEW t \in Threads, OpenToWrite(t)
  PROVE  Good(t)
<1> DEFINE p == Path(t)
<1>1. PICK i \in IF Exists(p) THEN {link[p]} ELSE Free :
        /\ link' = [link EXCEPT ![p] = i]
        /\ content' = [content EXCEPT ![i] = IF OpensWithApp(t) /\ Exists(p) THEN @ ELSE <<>>]
        /\ job' = [job EXCEPT ![t].fd = i, ![t].rest = job[t].body, ![t].append = OpensWithApp(t),
                              ![t].path = p]
  BY DEF OpenToWrite
<1>2. /\ Ready(t, {"POST", "PUT"}) /\ Openable(p) /\ Spoil(t, TRUE)
      /\ pc' = [pc EXCEPT ![t] = "write"] /\ UNCHANGED <<readable, directory, answer, served, running>>
  BY DEF OpenToWrite
<1>3. /\ pc[t] \in {"found", "act"} /\ job[t].req.method \in {"POST", "PUT"}
      /\ LocalsOf(pc[t], job[t]) /\ job[t] \in Job /\ job[t].req \in Request
      /\ job[t].r # NoResource => job[t].path # None /\ job[t].path = job[t].r.loc
  BY <1>2, ReadyIsBusy
<1>4. p \in Files /\ p # Dir /\ p # None /\ (p \in Inside => directory)
  BY <1>2, Assumed DEF Openable, Paths
<1>5. i \in Inodes /\ i # None
  BY <1>4, Own, Assumed DEF Exists, Free, Inv
<1>6. \A x \in Files : link[x] = i => x = p
  <2>1. CASE Exists(p)
    BY <1>4, <1>5, <2>1 DEF Exists, Inv, TypeInv, TypeOK
  <2>2. CASE ~Exists(p)
    BY <2>2 DEF Free
  <2> QED
    BY <2>1, <2>2
<1>7. DiskType'
  <2>1. \A x, y \in Files : link'[x] = link'[y] /\ link'[x] # None => x = y
    BY <1>1, <1>4, <1>5, <1>6, Own DEF Inv, TypeInv, TypeOK
  <2>2. \A f \in Inside : link'[f] # None => directory'
    BY <1>1, <1>2, <1>4, Own, Assumed DEF Inv, TypeInv, TypeOK
  <2>3. link' \in [Files -> Inodes \cup {None}]
    BY <1>1, <1>4, <1>5, Own DEF Inv
  <2>4. content' \in [Inodes -> Seq(Block)]
    BY <1>1, <1>5, Own, EmptySeq DEF Inv
  <2> QED
    BY <1>2, <2>1, <2>2, <2>3, <2>4 DEF DiskType, Inv, TypeInv, TypeOK
<1> DEFINE app == OpensWithApp(t)
           j == [job[t] EXCEPT !.fd = i, !.rest = job[t].body, !.append = app, !.path = p]
<1>8. app \in BOOLEAN
  BY DEF OpensWithApp, Extends
<1>9. job' = [job EXCEPT ![t] = j]
  BY <1>1, Own DEF Inv, Job
<1>10. Path(t) = IF job[t].r = NoResource THEN job[t].req.path ELSE job[t].r.loc
  BY DEF Path
<1> HIDE DEF app, p
<1>11. j \in Job /\ j.path = p
  BY <1>3, <1>4, <1>5, <1>8 DEF Job, Paths
<1>12. LocalsOf("write", j)
  <2>1. /\ j.req = job[t].req /\ j.r = job[t].r /\ j.fd = i /\ j.rest = job[t].body /\ j.body = job[t].body
        /\ j.data = job[t].data
    BY <1>3 DEF Job
  <2>2. job[t].data = <<>> /\ Sought(job[t])
    BY <1>3 DEF LocalsOf
  <2>3. Len(j.body) \in Nat
    BY <1>11 DEF Job
  <2>4. j.r # NoResource => j.path = j.r.loc
    BY <1>10, <1>11, <2>1 DEF p
  <2>5. Sought(j)
    BY <1>3, <1>10, <1>11, <2>1, <2>2 DEF Sought, p
  <2> QED
    BY <1>3, <1>4, <1>5, <1>11, <2>1, <2>2, <2>3, <2>4, <2>5 DEF LocalsOf
<1> HIDE DEF j
<1>13. Moves(t) /\ pc'[t] = "write" /\ job'[t] = j
  BY <1>2, <1>9, <1>11, <1>12, MovesTo DEF Inv, Places
<1>14. Answers(t)
  BY <1>2, <1>3, NoAnswerYet DEF Inv, TypeInv, Bounded
<1>15. link'[p] # None
  BY <1>1, <1>4, <1>5, Own DEF Inv, p
<1>16. Undisturbed(t)'
  BY <1>4, <1>11, <1>13, <1>15 DEF Undisturbed, Exists
<1>17. intact' \in [Threads -> BOOLEAN] /\ running' \in BOOLEAN
  BY <1>2, SpoilMeans DEF Inv, TypeInv, TypeOK
<1> QED
  BY <1>7, <1>13, <1>14, <1>16, <1>17 DEF Good

LEMMA WriteIsGood ==
  ASSUME Inv, NEW t \in Threads, Write(t)
  PROVE  Good(t)
<1> DEFINE at == Len(job[t].body) - Len(job[t].rest) + 1
           b == Head(job[t].rest)
           i == job[t].fd
           new == IF job[t].append THEN Append(content[i], b) ELSE Overwrite(content[i], at, b)
           j == [job[t] EXCEPT !.rest = Tail(job[t].rest)]
<1>1. /\ pc[t] = "write" /\ job[t].rest # <<>>
      /\ UNCHANGED <<readable, directory, link, pc, answer, served, running>> /\ Spoil(t, intact[t])
  BY DEF Write
<1>2. /\ LocalsOf("write", job[t]) /\ job[t] \in Job /\ i \in Inodes /\ job[t].path \in Files
      /\ Len(job[t].rest) <= Len(job[t].body)
  BY <1>1, Own DEF Inv, LocalsOf
<1>3. job[t].rest \in Seq(Block) /\ job[t].body \in Seq(Block) /\ content[i] \in Seq(Block)
  BY <1>2, Own DEF Inv, Job
<1>4. /\ at \in Nat \ {0} /\ b \in Block /\ Tail(job[t].rest) \in Seq(Block)
      /\ Len(Tail(job[t].rest)) <= Len(job[t].body)
  BY <1>1, <1>2, <1>3
<1>5. content' = [content EXCEPT ![i] = new] /\ job' = [job EXCEPT ![t] = j]
  BY <1>2, Own DEF Write, Job, Inv
<1> HIDE DEF at, b
<1>6. new \in Seq(Block)
  <2>1. \A s \in Seq(Block), k \in Nat \ {0}, c \in Block :
          Append(s, c) \in Seq(Block) /\ Overwrite(s, k, c) \in Seq(Block)
    BY OverwriteType
  <2> QED
    BY <1>3, <1>4, <2>1
<1> HIDE DEF new
<1>7. content' \in [Inodes -> Seq(Block)]
  BY <1>2, <1>5, <1>6, Own DEF Inv
<1>8. DiskType'
  BY <1>1, <1>7 DEF DiskType, Inv, TypeInv, TypeOK
<1>9. j \in Job /\ LocalsOf("write", j) /\ j.path = job[t].path
  BY <1>2, <1>4 DEF Job, LocalsOf, Sought
<1> HIDE DEF j
<1>10. Moves(t) /\ pc'[t] = "write" /\ job'[t].path = job[t].path
  <2>1. pc' = [pc EXCEPT ![t] = "write"]
    BY <1>1, Own DEF Inv
  <2> QED
    BY <1>5, <1>9, <2>1, MovesTo DEF Inv, Places
<1>11. Answers(t)
  BY <1>1, NoAnswerYet DEF Inv, TypeInv, Bounded
<1>12. intact[t] \in BOOLEAN
  BY DEF Inv, TypeInv, TypeOK
<1>13. intact' \in [Threads -> BOOLEAN] /\ intact'[t] = intact[t]
  BY <1>1, <1>12, SpoilMeans
<1>14. running' \in BOOLEAN
  BY <1>1 DEF Inv, TypeInv, TypeOK
<1>15. intact[t] => Undisturbed(t)
  BY DEF Inv, DiskInv
<1>16. intact'[t] => Undisturbed(t)'
  BY <1>1, <1>10, <1>13, <1>15 DEF Undisturbed, Exists
<1> QED
  BY <1>8, <1>10, <1>11, <1>13, <1>14, <1>16 DEF Good

LEMMA DeleteIsGood ==
  ASSUME Inv, NEW t \in Threads, Delete(t)
  PROVE  Good(t)
<1> DEFINE p == job[t].r.loc
<1>1. /\ Ready(t, {"DELETE"}) /\ UNCHANGED <<readable, content, running>> /\ Spoil(t, intact[t])
      /\ link' = [f \in Files |-> IF f = p THEN None ELSE link[f]]
      /\ directory' = (directory /\ (p = Dir => \E f \in Inside : Exists(f)))
      /\ \/ job[t].r = NoResource /\ SendStatusResponse(t, 404)
         \/ job[t].r # NoResource /\ SendResponse(t, Response(200, 1, <<Text>>, job[t].req))
  BY DEF Delete
<1>2. /\ pc[t] \in {"found", "act"} /\ job[t] \in Job /\ job[t].req \in Request
  BY <1>1, ReadyIsBusy
<1>3. DiskType'
  <2>1. link' \in [Files -> Inodes \cup {None}]
    BY <1>1, Own DEF Inv
  <2>2. directory' \in BOOLEAN
    BY <1>1
  <2>3. \A f \in Inside : link'[f] # None => directory'
    BY <1>1, Assumed DEF Inv, TypeInv, TypeOK, Exists
  <2>4. \A x, y \in Files : link'[x] = link'[y] /\ link'[x] # None => x = y
    BY <1>1 DEF Inv, TypeInv, TypeOK
  <2> QED
    BY <1>1, <2>1, <2>2, <2>3, <2>4 DEF DiskType, Inv, TypeInv, TypeOK
<1>4. intact[t] \in BOOLEAN
  BY DEF Inv, TypeInv, TypeOK
<1>5. intact' \in [Threads -> BOOLEAN] /\ intact'[t] = intact[t]
  BY <1>1, <1>4, SpoilMeans
<1>6. running' \in BOOLEAN
  BY <1>1 DEF Inv, TypeInv, TypeOK
<1>7. CASE job[t].r = NoResource /\ SendStatusResponse(t, 404)
  <2>1. TypeInv /\ 404 \in Nat /\ pc[t] # "idle" /\ pc[t] # "read"
    BY <1>2 DEF Inv
  <2>2. /\ Moves(t) /\ Answers(t)
        /\ \/ job'[t] = NoJob /\ pc'[t] = "idle"
           \/ job'[t] = job[t] /\ pc'[t] = "hung"
    BY <1>7, <2>1, StatusMoves
  <2>3. p = None
    BY <1>7 DEF NoResource
  <2>4. UNCHANGED <<link, directory>>
    BY <1>1, <2>3, Own, Assumed DEF Inv, TypeInv, TypeOK, Paths
  <2>5. UNCHANGED disk
    BY <1>1, <2>4 DEF disk
  <2>6. intact'[t] => Undisturbed(t)
    BY <1>5 DEF Inv, DiskInv
  <2>7. intact'[t] => Undisturbed(t)'
    BY <2>2, <2>5, <2>6, Assumed DEF Undisturbed, Exists, disk
  <2> QED
    BY <1>3, <1>5, <1>6, <2>2, <2>7 DEF Good
<1>8. CASE job[t].r # NoResource /\ SendResponse(t, Response(200, 1, <<Text>>, job[t].req))
  <2>1. <<Text>> \in Seq(Block)
    BY BlocksType
  <2>2. Response(200, 1, <<Text>>, job[t].req) \in Answer
    BY <1>2, <2>1, ResponseType, ZenonT(40)
  <2>3. Moves(t) /\ Answers(t) /\ job'[t] = NoJob /\ pc'[t] = "idle"
    BY <1>2, <1>8, <2>2, SendMoves DEF Inv
  <2>4. Undisturbed(t)'
    BY <2>3, AnsweredIsGood DEF Inv
  <2> QED
    BY <1>3, <1>5, <1>6, <2>3, <2>4 DEF Good
<1> QED
  BY <1>1, <1>7, <1>8

----------------------------------------------------------------------------
(* The steps of other threads.                                             *)

LEMMA NothingTouched ==
  ASSUME Inv, UNCHANGED disk, NEW p \in Paths
  PROVE  ~Touches(p)
<1>1. link' = link /\ content' = content /\ directory' = directory
  BY DEF disk
<1>2. ASSUME p \in Files, link[p] # None PROVE IsPrefix(content[link[p]], content[link[p]])
  <2>1. content[link[p]] \in Seq(Block)
    BY <1>2 DEF Inv, TypeInv, TypeOK
  <2> QED
    BY <2>1, PrefixOfItself
<1> QED
  BY <1>1, <1>2 DEF Touches, Paths

\* What a step of t does to the lookups of the others.
Spares(t) ==
  \A u \in Threads \ {t} :
    intact'[u] => intact[u] /\ (job[u].path = None \/ ~Touches(job[u].path))

LEMMA UnchangedSpares ==
  ASSUME Inv, UNCHANGED disk, NEW t \in Threads, \A u \in Threads \ {t} : intact'[u] = intact[u]
  PROVE  Spares(t)
<1>1. \A u \in Threads : job[u].path \in Paths \cup {None}
  BY Own DEF Inv, Job
<1> QED
  BY <1>1, NothingTouched DEF Spares

LEMMA StepIsGood ==
  ASSUME Inv, NEW t \in Threads, (running /\ HandleRequest(t)) \/ Step(t)
  PROVE  Good(t) /\ Spares(t)
<1>0. intact \in [Threads -> BOOLEAN]
  BY DEF Inv, TypeInv, TypeOK
<1>1. CASE running /\ HandleRequest(t)
  <2>1. Spares(t)
    BY <1>1, UnchangedSpares DEF HandleRequest
  <2> QED
    BY <1>1, <2>1, RequestIsGood
<1>2. CASE Stat(t)
  <2>1. UNCHANGED disk /\ \A u \in Threads \ {t} : intact'[u] = intact[u]
    BY <1>0, <1>2 DEF Stat
  <2> QED
    BY <1>2, <2>1, UnchangedSpares, StatIsGood
<1>3. CASE StatIndex(t) \/ Open(t) \/ Read(t) \/ EndRead(t) \/ RunCgi(t)
  <2>1. Spares(t)
    BY <1>3, UnchangedSpares DEF StatIndex, Open, Read, EndRead, RunCgi
  <2> QED
    BY <1>3, <2>1, StatIndexIsGood, OpenIsGood, ReadIsGood, EndReadIsGood, RunCgiIsGood
<1>4. CASE AnswerGet(t) \/ CannotOpen(t) \/ Close(t) \/ AnswerAppend(t)
  <2>1. Spares(t)
    BY <1>4, UnchangedSpares DEF AnswerGet, CannotOpen, Close, AnswerAppend
  <2> QED
    BY <1>4, <2>1, AnswerGetIsGood, CannotOpenIsGood, CloseIsGood, AnswerAppendIsGood
<1>5. CASE OpenToWrite(t)
  <2>1. Spares(t)
    BY <1>5, SpoilMeans DEF OpenToWrite, Spares
  <2> QED
    BY <1>5, <2>1, OpenToWriteIsGood
<1>6. CASE Write(t)
  <2>1. Spares(t)
    BY <1>0, <1>6, SpoilMeans DEF Write, Spares
  <2> QED
    BY <1>6, <2>1, WriteIsGood
<1>7. CASE Delete(t)
  <2>1. Spares(t)
    BY <1>0, <1>7, SpoilMeans DEF Delete, Spares
  <2> QED
    BY <1>7, <2>1, DeleteIsGood
<1> QED
  BY <1>1, <1>2, <1>3, <1>4, <1>5, <1>6, <1>7 DEF Step

\* What u has looked up and nobody touches is still as u needs it.
LEMMA OthersStayGood ==
  ASSUME Inv, TypeInv', NEW u \in Threads, job'[u] = job[u], pc'[u] = pc[u], intact[u],
         job[u].path = None \/ ~Touches(job[u].path)
  PROVE  Undisturbed(u)'
<1> DEFINE p == job[u].path
<1>1. /\ Undisturbed(u) /\ LocalsOf(pc[u], job[u]) /\ job[u] \in Job
  BY Own DEF Inv, DiskInv
<1>2. /\ content \in [Inodes -> Seq(Block)] /\ content' \in [Inodes -> Seq(Block)]
      /\ link \in [Files -> Inodes \cup {None}]
  BY DEF Inv, TypeInv, TypeOK
<1>3. p # None => Exists(p)'
  BY <1>1 DEF Undisturbed, Exists, Touches
<1>4. ASSUME p \in Files
      PROVE  /\ link'[p] = link[p] /\ link[p] \in Inodes
             /\ IsPrefix(content[link[p]], content'[link[p]])
  BY <1>1, <1>2, <1>4, Assumed DEF Undisturbed, Exists, Touches, Paths
<1>5. ASSUME p \in Files
      PROVE  /\ content[link[p]] \in Seq(Block) /\ content'[link[p]] \in Seq(Block)
             /\ Len(content[link[p]]) <= Len(content'[link[p]])
             /\ Len(content[link[p]]) \in Nat /\ Len(content'[link[p]]) \in Nat
  BY <1>2, <1>4, <1>5, PrefixMeans
<1>6. \A s \in Seq(Block) : p \in Files /\ IsPrefix(s, content[link[p]]) => IsPrefix(s, content'[link[p]])
  BY <1>4, <1>5, PrefixOfMore
<1>7. job[u].data \in Seq(Block) /\ job[u].r.data \in Seq(Block) /\ job[u].size \in Nat
  BY <1>1 DEF Job, Resource
<1>8. pc[u] = "open" => p \in Files /\ job[u].size <= Len(content'[link'[p]])
  BY <1>1, <1>4, <1>5, <1>7 DEF Undisturbed, LocalsOf
<1>9. pc[u] = "read" => /\ job[u].fd = link'[p]
                        /\ IsPrefix(job[u].data, content'[job[u].fd])
                        /\ job[u].size <= Len(content'[job[u].fd])
  BY <1>1, <1>4, <1>5, <1>6, <1>7 DEF Undisturbed, LocalsOf
<1>10. pc[u] = "found" /\ job[u].r.loc \in Files => IsPrefix(job[u].r.data, content'[link'[job[u].r.loc]])
  <2>1. ASSUME pc[u] = "found", job[u].r.loc \in Files PROVE p = job[u].r.loc
    BY <1>1, <2>1, Assumed DEF LocalsOf, NoResource, Paths
  <2> QED
    BY <1>1, <1>4, <1>6, <1>7, <2>1 DEF Undisturbed
<1>11. (pc[u] = "found" /\ job[u].again => job[u].r # NoResource) /\ pc[u] # "crashed"
  BY <1>1 DEF Undisturbed
<1> QED
  BY <1>3, <1>8, <1>9, <1>10, <1>11 DEF Undisturbed

----------------------------------------------------------------------------
(* The theorems.                                                           *)

LEMMA InitInv == Init => Inv
<1> SUFFICES ASSUME Init PROVE Inv
  OBVIOUS
<1>1. PICK there \in SUBSET Files, f \in [Files -> Inodes] :
        /\ Inside \cap there # {} => directory
        /\ \A p, q \in there : f[p] = f[q] => p = q
        /\ link = [p \in Files |-> IF p \in there THEN f[p] ELSE None]
  BY DEF Init
<1>2. link \in [Files -> Inodes \cup {None}]
  BY <1>1
<1>3. \A p, q \in Files : link[p] = link[q] /\ link[p] # None => p = q
  BY <1>1
<1>4. \A f1 \in Inside : link[f1] # None => directory
  BY <1>1, Assumed
<1>5. content \in [Inodes -> Seq(Block)]
  <2>1. <<Old, Old>> \in Seq(Block) /\ <<>> \in Seq(Block)
    BY BlocksType, EmptySeq
  <2> QED
    BY <2>1 DEF Init
<1>6. job \in [Threads -> Job] /\ pc \in [Threads -> Places] /\ answer \in [Threads -> Answer]
  <2>1. NoAnswer \in Answer
    BY EmptySeq DEF NoAnswer, Answer
  <2> QED
    BY <2>1, Assumed DEF Init, Places
<1>7. /\ served \in [Threads -> Nat] /\ \A t \in Threads : served[t] <= MaxServed[t]
      /\ readable \subseteq Pages /\ directory \in BOOLEAN /\ running \in BOOLEAN
      /\ intact \in [Threads -> BOOLEAN]
  BY Assumed DEF Init
<1>8. TypeOK
  BY <1>2, <1>3, <1>4, <1>5, <1>6, <1>7 DEF TypeOK, Job
<1>9. LocalsInv /\ Bounded /\ DeadInv
  BY Assumed DEF Init, LocalsInv, Bounded, DeadInv
<1>10. DiskInv
  <2>1. \A t \in Threads : pc[t] = "idle" /\ job[t].path = None
    BY Assumed DEF Init
  <2> QED
    BY <2>1 DEF DiskInv, Undisturbed
<1> QED
  BY <1>8, <1>9, <1>10 DEF Inv, TypeInv

LEMMA StepKeepsInv ==
  ASSUME Inv, NEW t \in Threads, (running /\ HandleRequest(t)) \/ Step(t)
  PROVE  Inv'
<1>1. Good(t) /\ Spares(t)
  BY StepIsGood
<1>2. TypeInv'
  BY <1>1, Keeps DEF Good, Inv
<1>3. DiskInv'
  <2>1. ASSUME NEW u \in Threads, intact'[u], u # t PROVE Undisturbed(u)'
    <3>1. job'[u] = job[u] /\ pc'[u] = pc[u]
      BY <1>1, <2>1 DEF Good, Moves
    <3>2. intact[u] /\ (job[u].path = None \/ ~Touches(job[u].path))
      BY <1>1, <2>1 DEF Spares
    <3> QED
      BY <1>2, <3>1, <3>2, OthersStayGood
  <2>2. intact'[t] => Undisturbed(t)'
    BY <1>1 DEF Good
  <2> QED
    BY <2>1, <2>2 DEF DiskInv
<1>4. DeadInv'
  <2>1. running
    BY DEF Step
  <2>2. CASE AnswerAppend(t)
    BY <2>1, <2>2, Own DEF AnswerAppend, DeadInv, Inv
  <2>3. CASE ~AnswerAppend(t)
    <3>1. running' = running
      BY <2>3 DEF Step, HandleRequest, Stat, StatIndex, Open, Read, EndRead, RunCgi, AnswerGet,
                  OpenToWrite, CannotOpen, Write, Close, Delete
    <3> QED
      BY <2>1, <3>1 DEF DeadInv
  <2> QED
    BY <2>2, <2>3
<1> QED
  BY <1>2, <1>3, <1>4 DEF Inv

LEMMA InvStep == Inv /\ [Next]_vars => Inv'
<1> SUFFICES ASSUME Inv, [Next]_vars PROVE Inv'
  OBVIOUS
<1>1. CASE Next
  BY <1>1, StepKeepsInv DEF Next
<1>2. CASE UNCHANGED vars
  BY <1>2 DEF vars, Inv, TypeInv, TypeOK, LocalsInv, Bounded, DiskInv, Undisturbed, Exists, DeadInv
<1> QED
  BY <1>1, <1>2

LEMMA InvHolds == Spec => []Inv
  BY InitInv, InvStep, PTL DEF Spec

\* In every behaviour every variable has its type, no two paths share an inode,
\* and no file is in a directory that is not there.
THEOREM TypeCorrect == Spec => []TypeOK
  BY InvHolds, PTL DEF Inv, TypeInv

\* What getResource() returns is what the file held when stat() saw it, unless
\* another thread emptied, overwrote or removed the file meanwhile.
THEOREM LookupsStayUndisturbed == Spec => []LookupsUndisturbed
<1>1. Inv => LookupsUndisturbed
  <2> SUFFICES ASSUME Inv, NEW t \in Threads, pc[t] = "found", intact[t], job[t].r.loc \in Files
               PROVE  /\ link[job[t].r.loc] # None
                      /\ IsPrefix(job[t].r.data, content[link[job[t].r.loc]])
    BY DEF LookupsUndisturbed
  <2>1. Undisturbed(t) /\ LocalsOf("found", job[t])
    BY Own DEF Inv, DiskInv
  <2>2. job[t].path = job[t].r.loc /\ job[t].path # None /\ job[t].path # Dir
    BY <2>1, Assumed DEF LocalsOf, NoResource, Paths
  <2> QED
    BY <2>1, <2>2 DEF Undisturbed, Exists
<1> QED
  BY <1>1, InvHolds, PTL

\* handlePost() dies of its second lookup only when another thread has touched
\* what the first one found.
THEOREM CrashHasCause == Spec => []CrashOnlyIfDisturbed
<1>1. Inv => CrashOnlyIfDisturbed
  BY DEF Inv, DeadInv, DiskInv, Undisturbed, CrashOnlyIfDisturbed
<1> QED
  BY <1>1, InvHolds, PTL

----------------------------------------------------------------------------
(* Whose blocks survive.                                                   *)

\* The part of AppendsSurvive that is about one inode and one step.
Survives(i) ==
  \/ IsPrefix(content[i], content'[i])
  \/ \E t \in Threads : MayOverwrite(t, i)

LEMMA SameSurvives ==
  ASSUME Inv, NEW i \in Inodes, content'[i] = content[i]
  PROVE  Survives(i)
<1>1. content[i] \in Seq(Block)
  BY DEF Inv, TypeInv, TypeOK
<1> QED
  BY <1>1, PrefixOfItself DEF Survives

LEMMA OpenSurvives ==
  ASSUME Inv, NEW t \in Threads, OpenToWrite(t), NEW i \in Inodes, i \notin Free
  PROVE  Survives(i)
<1>1. PICK k \in IF Exists(Path(t)) THEN {link[Path(t)]} ELSE Free :
        content' = [content EXCEPT ![k] = IF OpensWithApp(t) /\ Exists(Path(t)) THEN @ ELSE <<>>]
  BY DEF OpenToWrite
<1>2. content \in [Inodes -> Seq(Block)]
  BY Own DEF Inv
<1>3. CASE i # k
  BY <1>1, <1>2, <1>3, SameSurvives
<1>4. CASE i = k /\ Extends(t)
  <2>1. Exists(Path(t))
    BY <1>1, <1>4
  <2> QED
    BY <1>1, <1>2, <1>4, <2>1, SameSurvives DEF OpensWithApp
<1>5. CASE i = k /\ ~Extends(t)
  <2>1. /\ pc[t] \in {"found", "act"} /\ job[t].req.method \in {"POST", "PUT"}
        /\ Path(t) \in Files /\ Path(t) # Dir
    BY ReadyIsBusy, Assumed DEF OpenToWrite, Openable
  <2>2. link[Path(t)] = i
    BY <1>1, <1>5, <2>1 DEF Exists
  <2> QED
    BY <1>5, <2>1, <2>2 DEF Survives, MayOverwrite
<1> QED
  BY <1>3, <1>4, <1>5

LEMMA WriteSurvives ==
  ASSUME Inv, NEW t \in Threads, Write(t), NEW i \in Inodes
  PROVE  Survives(i)
<1> DEFINE b == Head(job[t].rest)
<1>1. /\ pc[t] = "write" /\ job[t].req.method \in {"POST", "PUT"} /\ job[t] \in Job
      /\ job[t].rest # <<>>
  BY Own DEF Inv, Write, LocalsOf
<1>2. content \in [Inodes -> Seq(Block)] /\ b \in Block
  <2>1. job[t].rest \in Seq(Block)
    BY <1>1 DEF Job
  <2> QED
    BY <1>1, <2>1, Own DEF Inv
<1>3. CASE i # job[t].fd
  BY <1>2, <1>3, SameSurvives DEF Write
<1>4. CASE i = job[t].fd /\ job[t].append
  <2>1. content'[i] = Append(content[i], b)
    BY <1>2, <1>4 DEF Write
  <2> QED
    BY <1>2, <2>1, AppendExtends DEF Survives
<1>5. CASE i = job[t].fd /\ ~job[t].append
  BY <1>1, <1>5 DEF Survives, MayOverwrite
<1> QED
  BY <1>3, <1>4, <1>5

\* Blocks of a file are lost only to a PUT, or to a POST that did not find the
\* file when it looked.
THEOREM AppendsDoSurvive == Spec => AppendsSurvive
<1>1. Inv /\ [Next]_vars => [\A i \in Inodes : i \notin Free =>
                                \/ IsPrefix(content[i], content'[i])
                                \/ \E t \in Threads : MayOverwrite(t, i)]_vars
  <2> SUFFICES ASSUME Inv, Next, NEW i \in Inodes, i \notin Free PROVE Survives(i)
    BY DEF Survives
  <2>1. PICK t \in Threads : (running /\ HandleRequest(t)) \/ Step(t)
    BY DEF Next
  <2>2. CASE OpenToWrite(t)
    BY <2>2, OpenSurvives
  <2>3. CASE Write(t)
    BY <2>3, WriteSurvives
  <2>4. CASE ~OpenToWrite(t) /\ ~Write(t)
    <3>1. content' = content
      BY <2>1, <2>4 DEF Step, HandleRequest, Stat, StatIndex, Open, Read, EndRead, RunCgi, AnswerGet,
                  CannotOpen, Close, AnswerAppend, Delete, disk
    <3> QED
      BY <3>1, SameSurvives
  <2> QED
    BY <2>2, <2>3, <2>4
<1> QED
  BY <1>1, InvHolds, PTL DEF Spec, AppendsSurvive
=============================================================================

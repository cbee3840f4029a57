----------------------------- MODULE CgiProofs -----------------------------
(***************************************************************************)
(* Proofs about Cgi, for any number of threads, runs and descriptors: the  *)
(* types, that the numbers a thread knows are its own, what can kill the   *)
(* process, and whose output a request gets.                               *)
(***************************************************************************)
EXTENDS Cgi, TLAPS, FiniteSetTheorems, LibraryLemmas

USE DEF transfer

----------------------------------------------------------------------------
(* The numbers the kernel gives.                                           *)

\* The number open() and accept() get is free.
LEMMA LowestIsFree ==
  ASSUME FreeNumbers # {}
  PROVE  Lowest \in Numbers /\ table[Lowest] = Closed
<1>1. FreeNumbers \in SUBSET Nat /\ IsFiniteSet(FreeNumbers)
  BY CgiAssumption, FS_Subset DEF FreeNumbers
<1>2. Lowest \in FreeNumbers
  BY <1>1, LeastIsMember DEF Lowest
<1> QED
  BY <1>2 DEF FreeNumbers

\* The two numbers pipe() gets are free and different.
LEMMA NextLowestIsFree ==
  ASSUME Cardinality(FreeNumbers) > 1
  PROVE  /\ Lowest \in Numbers /\ table[Lowest] = Closed
         /\ NextLowest \in Numbers /\ table[NextLowest] = Closed
         /\ NextLowest # Lowest
<1>1. FreeNumbers \in SUBSET Nat /\ IsFiniteSet(FreeNumbers)
  BY CgiAssumption, FS_Subset DEF FreeNumbers
<1>2. FreeNumbers # {}
  BY <1>1, FS_EmptySet
<1>3. FreeNumbers \ {Lowest} # {}
  <2>1. SUFFICES ASSUME FreeNumbers \subseteq {Lowest} PROVE FALSE
    OBVIOUS
  <2>2. IsFiniteSet({Lowest}) /\ Cardinality({Lowest}) = 1
    BY FS_Singleton
  <2>3. Cardinality(FreeNumbers) <= 1
    BY <2>1, <2>2, FS_Subset
  <2>4. Cardinality(FreeNumbers) \in Nat
    BY <1>1, FS_CardinalityType
  <2> QED
    BY <2>3, <2>4
<1>4. FreeNumbers \ {Lowest} \in SUBSET Nat /\ IsFiniteSet(FreeNumbers \ {Lowest})
  BY <1>1, FS_Subset
<1>5. NextLowest \in FreeNumbers \ {Lowest}
  BY <1>3, <1>4, LeastIsMember DEF NextLowest
<1> QED
  BY <1>2, <1>5, LowestIsFree DEF FreeNumbers

----------------------------------------------------------------------------
(* Types.                                                                  *)

\* Inside executeCgi() the locals used from there on are descriptor numbers, and
\* the run has its number; a write() that has begun writes to a pipe.
LocalsSet ==
  \A t \in Threads :
    /\ pc[t] # "idle" =>
         runs[t] >= 1 /\ mine[t].sock \in Numbers /\ mine[t].tmp_fd \in Numbers
    /\ pc[t] \notin {"idle", "pipe"} => mine[t].in \in Numbers /\ mine[t].out \in Numbers
    /\ pc[t] = "writing" =>
         rest[t] >= 1 /\ \E r \in Run : target[t] = WriteEnd(r)

TypeInv == TypeOK /\ LocalsSet

LEMMA TypeInit == Init => TypeInv
BY CgiAssumption DEF Init, TypeInv, TypeOK, LocalsSet, Places, NoLocals, NoChild, File, NoFile, Run

\* The run of a thread inside executeCgi().
LEMMA CurrentIsRun ==
  ASSUME TypeInv, NEW t \in Threads, pc[t] # "idle"
  PROVE  Current(t) \in Run
BY CgiAssumption DEF TypeInv, TypeOK, LocalsSet, Current, Run

LEMMA AcceptKeepsTypes ==
  ASSUME TypeInv, NEW t \in Threads, Accept(t)
  PROVE  TypeInv'
<1>1. Lowest \in Numbers
  BY LowestIsFree DEF Accept
<1>2. table' \in [Numbers -> Opened \cup {Closed}]
  BY <1>1 DEF Accept, TypeInv, TypeOK, Opened
<1>3. clients' \in [Threads -> SUBSET Numbers]
  BY <1>1 DEF Accept, TypeInv, TypeOK
<1> QED
  BY <1>2, <1>3 DEF Accept, TypeInv, TypeOK, LocalsSet

LEMMA DisconnectKeepsTypes ==
  ASSUME TypeInv, NEW t \in Threads, Disconnect(t)
  PROVE  TypeInv'
BY DEF Disconnect, TypeInv, TypeOK, LocalsSet

LEMMA OpenTmpKeepsTypes ==
  ASSUME TypeInv, NEW t \in Threads, OpenTmp(t)
  PROVE  TypeInv'
<1>1. Lowest \in Numbers
  BY LowestIsFree DEF OpenTmp
<1>2. PICK c \in clients[t] :
        /\ table' = [table EXCEPT ![Lowest] = Tmp(c)]
        /\ tmp' = [tmp EXCEPT ![c] = Empty]
        /\ mine' = [mine EXCEPT ![t] = [NoLocals EXCEPT !.sock = c, !.tmp_fd = Lowest]]
  BY DEF OpenTmp
<1>3. c \in Numbers
  BY DEF TypeInv, TypeOK
<1>4. table' \in [Numbers -> Opened \cup {Closed}]
  BY <1>1, <1>2, <1>3 DEF TypeInv, TypeOK, Opened
<1>5. tmp' \in [Numbers -> File]
  BY <1>2, <1>3 DEF TypeInv, TypeOK, File
<1>6. mine' \in [Threads -> [sock : Numbers \cup {0}, tmp_fd : Numbers \cup {0},
                            in : Numbers \cup {0}, out : Numbers \cup {0}]]
  BY <1>1, <1>2, <1>3 DEF TypeInv, TypeOK, NoLocals
<1>7. runs' \in [Threads -> 0..MaxRuns] /\ runs'[t] >= 1
  BY CgiAssumption DEF OpenTmp, TypeInv, TypeOK
<1>8. pc' = [pc EXCEPT ![t] = "pipe"] /\ pc[t] = "idle"
  BY DEF OpenTmp, Go
<1>9. LocalsSet'
  <2> SUFFICES ASSUME NEW u \in Threads
               PROVE  /\ pc'[u] # "idle" =>
                           runs'[u] >= 1 /\ mine'[u].sock \in Numbers
                             /\ mine'[u].tmp_fd \in Numbers
                      /\ pc'[u] \notin {"idle", "pipe"} =>
                           mine'[u].in \in Numbers /\ mine'[u].out \in Numbers
                      /\ pc'[u] = "writing" =>
                           rest'[u] >= 1 /\ \E r \in Run : target'[u] = WriteEnd(r)
    BY DEF LocalsSet
  <2>1. CASE u = t
    BY <2>1, <1>1, <1>2, <1>3, <1>7, <1>8 DEF TypeInv, TypeOK, NoLocals
  <2>2. CASE u # t
    BY <2>2, <1>2, <1>8 DEF OpenTmp, TypeInv, TypeOK, LocalsSet
  <2> QED
    BY <2>1, <2>2
<1>10. pc' \in [Threads -> Places]
  BY <1>8 DEF TypeInv, TypeOK, Places
<1> QED
  BY <1>4, <1>5, <1>6, <1>7, <1>9, <1>10 DEF OpenTmp, TypeInv, TypeOK

LEMMA PipeKeepsTypes ==
  ASSUME TypeInv, NEW t \in Threads, Pipe(t)
  PROVE  TypeInv'
<1>1. Lowest \in Numbers /\ NextLowest \in Numbers
  BY NextLowestIsFree DEF Pipe
<1>2. Current(t) \in Run
  BY CurrentIsRun DEF Pipe, Go
<1>3. table' \in [Numbers -> Opened \cup {Closed}]
  BY <1>1, <1>2 DEF Pipe, TypeInv, TypeOK, Opened, PipeEnds
<1>4. mine' \in [Threads -> [sock : Numbers \cup {0}, tmp_fd : Numbers \cup {0},
                            in : Numbers \cup {0}, out : Numbers \cup {0}]]
  <2> DEFINE Locals == [sock : Numbers \cup {0}, tmp_fd : Numbers \cup {0},
                        in : Numbers \cup {0}, out : Numbers \cup {0}]
             after  == [mine[t] EXCEPT !.in = Lowest, !.out = NextLowest]
  <2>1. mine \in [Threads -> Locals]
    BY DEF TypeInv, TypeOK
  <2>2. mine[t] \in Locals
    BY <2>1
  <2>3. after \in Locals
    BY <1>1, <2>2
  <2>4. mine' = [mine EXCEPT ![t] = after]
    BY <2>1, <2>2 DEF Pipe
  <2> HIDE DEF Locals, after
  <2> QED
    BY <2>1, <2>3, <2>4 DEF Locals
<1>5. pc' \in [Threads -> Places]
  BY DEF Pipe, Go, TypeInv, TypeOK, Places
<1>6. LocalsSet'
  BY <1>1 DEF Pipe, Go, TypeInv, TypeOK, LocalsSet
<1> QED
  BY <1>3, <1>4, <1>5, <1>6 DEF Pipe, TypeInv, TypeOK

LEMMA ForkKeepsTypes ==
  ASSUME TypeInv, NEW t \in Threads, Fork(t)
  PROVE  TypeInv'
<1>1. Current(t) \in Run /\ mine[t].in \in Numbers /\ mine[t].tmp_fd \in Numbers
  BY CurrentIsRun DEF Fork, Go, TypeInv, LocalsSet
<1>2. table[mine[t].in] \in Opened \cup {Closed} /\ table[mine[t].tmp_fd] \in Opened \cup {Closed}
  BY <1>1 DEF TypeInv, TypeOK
<1>3. Inherited(t) \in SUBSET PipeEnds
  BY DEF Inherited
<1>4. child' \in [Run -> [state : {"none", "reading", "failing", "done", "failed"},
                         stdin : Opened \cup {Closed}, stdout : Opened \cup {Closed},
                         holds : SUBSET PipeEnds]]
  BY <1>1, <1>2, <1>3 DEF Fork, TypeInv, TypeOK
<1>5. pc' \in [Threads -> Places] /\ LocalsSet'
  BY DEF Fork, Go, TypeInv, TypeOK, LocalsSet, Places
<1> QED
  BY <1>4, <1>5 DEF Fork, TypeInv, TypeOK

LEMMA CloseInKeepsTypes ==
  ASSUME TypeInv, NEW t \in Threads, CloseIn(t)
  PROVE  TypeInv'
BY DEF CloseIn, Go, TypeInv, TypeOK, LocalsSet, Places

\* What kind says is what the number is open on.
LEMMA KindTells ==
  ASSUME NEW e \in Opened \cup {Closed}
  PROVE  /\ e.kind = "write" => \E r \in Run : e = WriteEnd(r)
         /\ e.kind = "read" => \E r \in Run : e = ReadEnd(r)
<1>1. CASE \E r \in Run : e = ReadEnd(r)
  BY <1>1 DEF ReadEnd
<1>2. CASE \E r \in Run : e = WriteEnd(r)
  BY <1>2 DEF WriteEnd
<1>3. CASE e \notin PipeEnds
  BY <1>3 DEF Opened, Client, Tmp, Stdin, Closed
<1> QED
  BY <1>1, <1>2, <1>3 DEF PipeEnds

LEMMA WriteKeepsTypes ==
  ASSUME TypeInv, NEW t \in Threads, Write(t)
  PROVE  TypeInv'
<1> DEFINE e == table[mine[t].out]
<1>1. mine[t].out \in Numbers /\ e \in Opened \cup {Closed}
  BY DEF Write, TypeInv, TypeOK, LocalsSet
<1>2. e.kind = "write" => \E r \in Run : e = WriteEnd(r)
  BY <1>1, KindTells
<1>3. /\ target' \in [Threads -> Opened \cup {Closed}]
      /\ rest' \in [Threads -> 0..BodyBlocks]
      /\ pc' \in [Threads -> Places]
  <2>1. CASE e.kind = "write"
    <3>1. target' = [target EXCEPT ![t] = e] /\ rest' = [rest EXCEPT ![t] = BodyBlocks]
      BY <2>1 DEF Write
    <3>2. target' \in [Threads -> Opened \cup {Closed}]
      <4> HIDE DEF e
      <4> QED
        BY <1>1, <3>1 DEF TypeInv, TypeOK
    <3>3. rest' \in [Threads -> 0..BodyBlocks]
      BY <3>1, CgiAssumption DEF TypeInv, TypeOK
    <3>4. pc' \in [Threads -> Places]
      BY <2>1 DEF Write, TypeInv, TypeOK, Places
    <3> QED
      BY <3>2, <3>3, <3>4
  <2>2. CASE e.kind # "write"
    BY <2>2 DEF Write, TypeInv, TypeOK, Places
  <2> QED
    BY <2>1, <2>2
<1>4. LocalsSet'
  <2>1. CASE e.kind = "write"
    <3>1. pc'[t] = "writing" /\ target'[t] = e /\ rest'[t] = BodyBlocks
      BY <2>1 DEF Write, TypeInv, TypeOK
    <3>2. \A u \in Threads : u # t => pc'[u] = pc[u] /\ target'[u] = target[u] /\ rest'[u] = rest[u]
      BY <2>1 DEF Write, TypeInv, TypeOK
    <3>3. pc[t] = "write" /\ UNCHANGED <<runs, mine>>
      BY DEF Write
    <3> QED
      BY <3>1, <3>2, <3>3, <2>1, <1>2, CgiAssumption DEF TypeInv, LocalsSet
  <2>2. CASE e.kind # "write"
    BY <2>2 DEF Write, TypeInv, TypeOK, LocalsSet
  <2> QED
    BY <2>1, <2>2
<1> QED
  BY <1>3, <1>4 DEF Write, TypeInv, TypeOK

LEMMA WriteBlockKeepsTypes ==
  ASSUME TypeInv, NEW t \in Threads, WriteBlock(t)
  PROVE  TypeInv'
<1>1. PICK r \in Run : target[t] = WriteEnd(r)
  BY DEF WriteBlock, TypeInv, LocalsSet
<1>2. target[t].of = r /\ Current(t) \in Run
  BY <1>1, CurrentIsRun DEF WriteBlock, WriteEnd
<1>3. rest[t] \in 1..BodyBlocks
  BY CgiAssumption DEF WriteBlock, TypeInv, TypeOK, LocalsSet
<1>4. written' \in [Run -> SUBSET Run]
  BY SMTT(30), <1>2 DEF WriteBlock, TypeInv, TypeOK
<1>5. unread' \in [Run -> 0..Capacity]
  BY <1>2, CgiAssumption DEF WriteBlock, TypeInv, TypeOK
<1>6. rest' \in [Threads -> 0..BodyBlocks]
  BY <1>3, CgiAssumption DEF WriteBlock, TypeInv, TypeOK
<1>7. target' \in [Threads -> Opened \cup {Closed}] /\ running' \in BOOLEAN
  BY DEF WriteBlock, TypeInv, TypeOK
<1>8. pc' \in [Threads -> Places]
  BY SMTT(30) DEF WriteBlock, TypeInv, TypeOK, Places
<1>9. LocalsSet'
  <2>1. \A u \in Threads : u # t => pc'[u] = pc[u] /\ target'[u] = target[u] /\ rest'[u] = rest[u]
    BY DEF WriteBlock, TypeInv, TypeOK
  <2>2. pc'[t] = "writing" => target'[t] = target[t] /\ rest'[t] = rest[t] - 1 /\ rest[t] # 1
    BY DEF WriteBlock, TypeInv, TypeOK
  <2>3. pc[t] = "writing" /\ pc'[t] \in {"writing", "closeOut"} /\ UNCHANGED <<runs, mine>>
    BY DEF WriteBlock, TypeInv, TypeOK
  <2> QED
    BY <1>1, <1>3, <2>1, <2>2, <2>3, CgiAssumption DEF TypeInv, LocalsSet
<1> QED
  BY <1>4, <1>5, <1>6, <1>7, <1>8, <1>9 DEF WriteBlock, TypeInv, TypeOK

LEMMA CloseOutKeepsTypes ==
  ASSUME TypeInv, NEW t \in Threads, CloseOut(t)
  PROVE  TypeInv'
BY DEF CloseOut, Go, TypeInv, TypeOK, LocalsSet, Places

LEMMA CloseTmpKeepsTypes ==
  ASSUME TypeInv, NEW t \in Threads, CloseTmp(t)
  PROVE  TypeInv'
BY DEF CloseTmp, Go, TypeInv, TypeOK, LocalsSet, Places

LEMMA WaitKeepsTypes ==
  ASSUME TypeInv, NEW t \in Threads, Wait(t)
  PROVE  TypeInv'
BY DEF Wait, Go, TypeInv, TypeOK, LocalsSet, Places, NoChild

LEMMA DupKeepsTypes ==
  ASSUME TypeInv, NEW t \in Threads, Dup(t)
  PROVE  TypeInv'
<1>1. mine[t].in \in Numbers
  BY DEF Dup, Go, TypeInv, LocalsSet
<1>2. table' \in [Numbers -> Opened \cup {Closed}]
  BY DEF Dup, TypeInv, TypeOK, Opened
<1>3. lost' \subseteq Opened
  BY <1>1 DEF Dup, TypeInv, TypeOK
<1>4. pc' \in [Threads -> Places] /\ LocalsSet'
  BY DEF Dup, Go, TypeInv, TypeOK, LocalsSet, Places
<1> QED
  BY <1>2, <1>3, <1>4 DEF Dup, TypeInv, TypeOK

LEMMA ParseCgiKeepsTypes ==
  ASSUME TypeInv, NEW t \in Threads, ParseCgi(t)
  PROVE  TypeInv'
<1>1. CASE pc' = pc
  <2>1. /\ UNCHANGED <<table, clients, runs, mine, child, written, tmp, transfer, lost>>
        /\ running' \in BOOLEAN
    BY <1>1 DEF ParseCgi, Go, TypeInv, TypeOK
  <2> QED
    BY <1>1, <2>1 DEF transfer, TypeInv, TypeOK, LocalsSet
<1>2. CASE pc' # pc
  <2>1. /\ pc[t] = "parse" /\ pc' = [pc EXCEPT ![t] = "idle"]
        /\ tmp' = [tmp EXCEPT ![mine[t].sock] = NoFile]
        /\ mine' = [mine EXCEPT ![t] = NoLocals]
        /\ UNCHANGED <<table, clients, runs, child, written, transfer, lost, running>>
    BY <1>2 DEF ParseCgi, Go
  <2>2. pc' \in [Threads -> Places] /\ tmp' \in [Numbers -> File]
    BY <2>1 DEF TypeInv, TypeOK, Places, File
  <2>3. /\ mine' \in [Threads -> [sock : Numbers \cup {0}, tmp_fd : Numbers \cup {0},
                                  in : Numbers \cup {0}, out : Numbers \cup {0}]]
        /\ LocalsSet'
    BY <2>1 DEF TypeInv, TypeOK, NoLocals, LocalsSet
  <2> QED
    BY <2>1, <2>2, <2>3 DEF transfer, TypeInv, TypeOK
<1> QED
  BY <1>1, <1>2

LEMMA ExitKeepsTypes ==
  ASSUME TypeInv, NEW r \in Run, NEW state \in {"done", "failed"}, NEW text \in File,
         Exit(r, state, text)
  PROVE  TypeInv'
BY ZenonT(40) DEF Exit, TypeInv, TypeOK, LocalsSet

LEMMA ChildrenKeepTypes ==
  ASSUME TypeInv, NEW r \in Run, ReadBlock(r) \/ Compute(r) \/ ExecveFails(r)
  PROVE  TypeInv'
<1>0. CASE ReadBlock(r)
  <2>1. child[r].stdin \in Opened \cup {Closed} /\ child[r].stdin.kind = "read"
    BY <1>0 DEF ReadBlock, TypeInv, TypeOK
  <2>2. child[r].stdin.of \in Run
    BY <2>1, KindTells DEF ReadEnd
  <2>3. unread' \in [Run -> 0..Capacity]
    BY <1>0, <2>2, CgiAssumption DEF ReadBlock, TypeInv, TypeOK
  <2> QED
    BY <1>0, <2>3 DEF ReadBlock, TypeInv, TypeOK, LocalsSet
<1>1. CASE ExecveFails(r)
  BY <1>1, ExitKeepsTypes DEF ExecveFails, File
<1>2. CASE Compute(r)
  <2>1. child[r].stdin \in Opened \cup {Closed}
    BY DEF TypeInv, TypeOK
  <2>2. child[r].stdin.kind = "read" => child[r].stdin.of \in Run
    BY <2>1 DEF Opened, PipeEnds, ReadEnd, WriteEnd, Client, Tmp, Stdin, Closed
  <2>3. \A bodies \in SUBSET Run : Outputs(bodies) \subseteq File
    BY DEF Outputs, File
  <2>4. child[r].stdin.kind = "read" => written[child[r].stdin.of] \in SUBSET Run
    BY <2>2 DEF TypeInv, TypeOK
  <2>5. \E text \in File : Exit(r, "done", text)
    BY <1>2, <2>3, <2>4 DEF Compute
  <2> QED
    BY <2>5, ExitKeepsTypes
<1> QED
  BY <1>0, <1>1, <1>2

LEMMA TypeStep == TypeInv /\ [Next]_vars => TypeInv'
<1> SUFFICES ASSUME TypeInv, [Next]_vars PROVE TypeInv'
  OBVIOUS
<1>1. CASE UNCHANGED vars
  BY <1>1 DEF vars, TypeInv, TypeOK, LocalsSet
<1>2. CASE Next
  <2>1. ASSUME NEW t \in Threads, Accept(t) \/ Disconnect(t) \/ OpenTmp(t)
        PROVE  TypeInv'
    BY <2>1, AcceptKeepsTypes, DisconnectKeepsTypes, OpenTmpKeepsTypes
  <2>2. ASSUME NEW t \in Threads, ExecuteCgi(t)
        PROVE  TypeInv'
    BY <2>2, PipeKeepsTypes, ForkKeepsTypes, CloseInKeepsTypes, WriteKeepsTypes,
       WriteBlockKeepsTypes, CloseOutKeepsTypes, CloseTmpKeepsTypes, WaitKeepsTypes, DupKeepsTypes,
       ParseCgiKeepsTypes DEF ExecuteCgi
  <2> QED
    BY <1>2, <2>1, <2>2, ChildrenKeepTypes DEF Next
<1> QED
  BY <1>1, <1>2

\* Every variable of Cgi keeps its type, for any number of threads and runs.
THEOREM TypeCorrect == Spec => []TypeOK
<1>1. Spec => []TypeInv
  BY TypeInit, TypeStep, PTL DEF Spec
<1> QED
  BY <1>1, PTL DEF TypeInv

----------------------------------------------------------------------------
(* The numbers of a thread.                                                *)

HasTmp(t) ==
  pc[t] \in {"pipe", "fork", "closeIn", "write", "writing", "closeOut", "closeTmp"}
HasIn(t)  == pc[t] \in {"fork", "closeIn"}
HasOut(t) == pc[t] \in {"fork", "closeIn", "write", "writing", "closeOut"}

\* Thread t takes the number n to be open on e.
OpenOn(t, n, e) ==
  \/ n \in clients[t] /\ e = Client(t)
  \/ HasTmp(t) /\ n = mine[t].tmp_fd /\ e = Tmp(mine[t].sock)
  \/ HasIn(t) /\ n = mine[t].in /\ e = ReadEnd(Current(t))
  \/ HasOut(t) /\ n = mine[t].out /\ e = WriteEnd(Current(t))

\* What a thread takes to be open is: on this, or a dup2() has replaced it.  No
\* two uses share a number, in one thread or in two.
OwnNumbers ==
  \A t \in Threads, n \in Numbers, e \in Opened :
    OpenOn(t, n, e) =>
      /\ table[n] # Closed
      /\ Keeps(n, e)
      /\ \A u \in Threads, d \in Opened : OpenOn(u, n, d) => u = t /\ d = e

\* What OpenOn() speaks of is never the standard input, nor nothing.
LEMMA OpenOnSomething ==
  ASSUME NEW t, NEW n, NEW e, OpenOn(t, n, e)
  PROVE  e # Stdin /\ e # Closed
BY DEF OpenOn, Client, Tmp, ReadEnd, WriteEnd, Stdin, Closed

LEMMA OwnInit == Init => OwnNumbers
BY DEF Init, OwnNumbers, OpenOn, HasTmp, HasIn, HasOut

\* Steps that open free numbers, and only for thread t.
LEMMA OpeningKeepsOwn ==
  ASSUME OwnNumbers, NEW t \in Threads, lost' = lost,
         \A n \in Numbers : table[n] # Closed => table'[n] = table[n],
         \A u \in Threads, n \in Numbers, e \in Opened :
           OpenOn(u, n, e)' =>
             OpenOn(u, n, e) \/ (u = t /\ table[n] = Closed /\ table'[n] = e)
  PROVE  OwnNumbers'
<1> SUFFICES ASSUME NEW u \in Threads, NEW n \in Numbers, NEW e \in Opened,
                    OpenOn(u, n, e)'
             PROVE  /\ table'[n] # Closed
                    /\ Keeps(n, e)'
                    /\ \A v \in Threads, d \in Opened : OpenOn(v, n, d)' => v = u /\ d = e
  BY DEF OwnNumbers
<1>1. CASE OpenOn(u, n, e)
  BY <1>1 DEF OwnNumbers, Keeps
<1>2. CASE u = t /\ table[n] = Closed /\ table'[n] = e
  <2>1. e # Closed
    BY DEF Opened, PipeEnds, ReadEnd, WriteEnd, Client, Tmp, Stdin, Closed
  <2>2. \A v \in Threads, d \in Opened : ~OpenOn(v, n, d)
    BY <1>2 DEF OwnNumbers
  <2> QED
    BY <1>2, <2>1, <2>2 DEF Keeps
<1> QED
  BY <1>1, <1>2

\* Steps that close one number, which then is no thread's any more.
LEMMA ClosingKeepsOwn ==
  ASSUME OwnNumbers, NEW c, lost' = lost,
         \A n \in Numbers : n # c => table'[n] = table[n],
         \A u \in Threads, n \in Numbers, e \in Opened :
           OpenOn(u, n, e)' => OpenOn(u, n, e) /\ n # c
  PROVE  OwnNumbers'
BY DEF OwnNumbers, Keeps

\* Steps after which each thread takes the same or fewer numbers for its own, and
\* that replace what a number is open on only when they record it.
LEMMA StayingKeepsOwn ==
  ASSUME OwnNumbers, lost \subseteq lost',
         \A n \in Numbers : table[n] # Closed =>
           \/ table'[n] = table[n]
           \/ table'[n] # Closed /\ table[n] \in lost' \cup {Stdin},
         \A u \in Threads, n \in Numbers, e \in Opened :
           OpenOn(u, n, e)' => OpenOn(u, n, e)
  PROVE  OwnNumbers'
<1> SUFFICES ASSUME NEW u \in Threads, NEW n \in Numbers, NEW e \in Opened,
                    OpenOn(u, n, e)'
             PROVE  /\ table'[n] # Closed
                    /\ Keeps(n, e)'
                    /\ \A v \in Threads, d \in Opened : OpenOn(v, n, d)' => v = u /\ d = e
  BY DEF OwnNumbers
<1>1. OpenOn(u, n, e) /\ table[n] # Closed /\ Keeps(n, e) /\ e # Stdin
  BY OpenOnSomething DEF OwnNumbers
<1>2. \A v \in Threads, d \in Opened : OpenOn(v, n, d)' => v = u /\ d = e
  BY <1>1 DEF OwnNumbers
<1> QED
  BY <1>1, <1>2 DEF Keeps

LEMMA LoopKeepsOwn ==
  ASSUME TypeInv, OwnNumbers, NEW t \in Threads, Accept(t) \/ Disconnect(t) \/ OpenTmp(t)
  PROVE  OwnNumbers'
<1> USE DEF OpenOn, HasTmp, HasIn, HasOut
<1>1. CASE Accept(t)
  <2>1. Lowest \in Numbers /\ table[Lowest] = Closed
    BY <1>1, LowestIsFree DEF Accept
  <2>2. table'[Lowest] = Client(t) /\ \A n \in Numbers : n # Lowest => table'[n] = table[n]
    BY <1>1, <2>1 DEF Accept, TypeInv, TypeOK
  <2>3. \A u \in Threads, n \in Numbers, e \in Opened :
          OpenOn(u, n, e)' =>
            OpenOn(u, n, e) \/ (u = t /\ table[n] = Closed /\ table'[n] = e)
    BY <1>1, <2>1, <2>2 DEF Accept, TypeInv, TypeOK, Current
  <2> QED
    BY <1>1, <2>1, <2>2, <2>3, OpeningKeepsOwn DEF Accept
<1>2. CASE Disconnect(t)
  <2>1. PICK c \in clients[t] : /\ table' = [table EXCEPT ![c] = Closed]
                                /\ clients' = [clients EXCEPT ![t] = @ \ {c}]
    BY <1>2 DEF Disconnect
  <2>2. c \in Numbers /\ OpenOn(t, c, Client(t)) /\ Client(t) \in Opened
    BY <2>1 DEF TypeInv, TypeOK, Opened
  <2>3. \A u \in Threads, n \in Numbers, e \in Opened : OpenOn(u, n, e)' => OpenOn(u, n, e)
    BY <1>2, <2>1 DEF Disconnect, TypeInv, TypeOK, Current
  <2>4. \A u \in Threads, e \in Opened : ~OpenOn(u, c, e)'
    <3> SUFFICES ASSUME NEW u \in Threads, NEW e \in Opened, OpenOn(u, c, e)'
                 PROVE  FALSE
      OBVIOUS
    <3>1. u = t /\ e = Client(t)
      <4> HIDE DEF OpenOn, HasTmp, HasIn, HasOut
      <4>1. OpenOn(u, c, e)
        BY <2>2, <2>3
      <4> QED
        BY <2>2, <4>1, Zenon DEF OwnNumbers
    <3>2. c \in clients'[t]
      BY <3>1 DEF Client, Tmp, ReadEnd, WriteEnd
    <3> QED
      BY <3>2, <2>1 DEF TypeInv, TypeOK
  <2>5. lost' = lost /\ \A n \in Numbers : n # c => table'[n] = table[n]
    BY <1>2, <2>1 DEF Disconnect, TypeInv, TypeOK
  <2> HIDE DEF OpenOn, HasTmp, HasIn, HasOut
  <2> QED
    BY <2>3, <2>4, <2>5, ClosingKeepsOwn
<1>3. CASE OpenTmp(t)
  <2>1. PICK c \in clients[t] :
          /\ table' = [table EXCEPT ![Lowest] = Tmp(c)]
          /\ mine' = [mine EXCEPT ![t] = [NoLocals EXCEPT !.sock = c, !.tmp_fd = Lowest]]
    BY <1>3 DEF OpenTmp
  <2>2. Lowest \in Numbers /\ table[Lowest] = Closed
    BY <1>3, LowestIsFree DEF OpenTmp
  <2>3. table'[Lowest] = Tmp(c) /\ \A n \in Numbers : n # Lowest => table'[n] = table[n]
    BY <2>1, <2>2 DEF TypeInv, TypeOK
  <2>4. mine'[t].sock = c /\ mine'[t].tmp_fd = Lowest
    BY <2>1 DEF TypeInv, TypeOK, NoLocals
  <2>5. pc' = [pc EXCEPT ![t] = "pipe"] /\ clients' = clients /\ lost' = lost
    BY <1>3 DEF OpenTmp, Go
  <2>6. \A u \in Threads \ {t} : mine'[u] = mine[u] /\ Current(u)' = Current(u)
    BY <1>3, <2>1 DEF OpenTmp, Current, TypeInv, TypeOK
  <2>7. \A u \in Threads, n \in Numbers, e \in Opened :
          OpenOn(u, n, e)' =>
            OpenOn(u, n, e) \/ (u = t /\ table[n] = Closed /\ table'[n] = e)
    <3> TAKE u \in Threads, n \in Numbers, e \in Opened
    <3>1. CASE u = t
      BY <3>1, <2>2, <2>3, <2>4, <2>5 DEF TypeInv, TypeOK
    <3>2. CASE u # t
      BY <3>2, <2>5, <2>6 DEF TypeInv, TypeOK
    <3> QED
      BY <3>1, <3>2
  <2> QED
    BY <2>2, <2>3, <2>5, <2>7, OpeningKeepsOwn
<1> QED
  BY <1>1, <1>2, <1>3

LEMMA PipeKeepsOwn ==
  ASSUME TypeInv, OwnNumbers, NEW t \in Threads, Pipe(t)
  PROVE  OwnNumbers'
<1> USE DEF OpenOn, HasTmp, HasIn, HasOut
<1>1. /\ Lowest \in Numbers /\ table[Lowest] = Closed
      /\ NextLowest \in Numbers /\ table[NextLowest] = Closed /\ NextLowest # Lowest
  BY NextLowestIsFree DEF Pipe
<1>2. /\ table'[Lowest] = ReadEnd(Current(t)) /\ table'[NextLowest] = WriteEnd(Current(t))
      /\ \A n \in Numbers : n \notin {Lowest, NextLowest} => table'[n] = table[n]
  BY <1>1 DEF Pipe, TypeInv, TypeOK
<1>3. /\ mine'[t].in = Lowest /\ mine'[t].out = NextLowest
      /\ mine'[t].sock = mine[t].sock /\ mine'[t].tmp_fd = mine[t].tmp_fd
      /\ \A u \in Threads \ {t} : mine'[u] = mine[u]
  BY DEF Pipe, TypeInv, TypeOK
<1>4. pc[t] = "pipe" /\ pc' = [pc EXCEPT ![t] = "fork"] /\ clients' = clients /\ lost' = lost
  BY DEF Pipe, Go
<1>5. \A u \in Threads : Current(u)' = Current(u)
  BY DEF Pipe, Current
<1>6. \A u \in Threads, n \in Numbers, e \in Opened :
        OpenOn(u, n, e)' =>
          OpenOn(u, n, e) \/ (u = t /\ table[n] = Closed /\ table'[n] = e)
  <2> TAKE u \in Threads, n \in Numbers, e \in Opened
  <2>1. CASE u = t
    BY <2>1, <1>1, <1>2, <1>3, <1>4, <1>5 DEF TypeInv, TypeOK
  <2>2. CASE u # t
    BY <2>2, <1>3, <1>4, <1>5 DEF TypeInv, TypeOK
  <2> QED
    BY <2>1, <2>2
<1> QED
  BY <1>1, <1>2, <1>4, <1>6, OpeningKeepsOwn

\* close() of a number that the thread has for one use only.
LEMMA CloseKeepsOwn ==
  ASSUME TypeInv, OwnNumbers, NEW t \in Threads, NEW c \in Numbers, NEW e \in Opened,
         OpenOn(t, c, e), table' = [table EXCEPT ![c] = Closed], lost' = lost,
         ~OpenOn(t, c, e)',
         \A u \in Threads, n \in Numbers, d \in Opened : OpenOn(u, n, d)' => OpenOn(u, n, d)
  PROVE  OwnNumbers'
<1>1. \A u \in Threads, d \in Opened : ~OpenOn(u, c, d)'
  BY DEF OwnNumbers
<1>2. \A n \in Numbers : n # c => table'[n] = table[n]
  BY DEF TypeInv, TypeOK
<1>3. \A u \in Threads, n \in Numbers, d \in Opened :
        OpenOn(u, n, d)' => OpenOn(u, n, d) /\ n # c
  BY <1>1
<1> QED
  BY <1>2, <1>3, ClosingKeepsOwn

\* The clauses of OpenOn that speak of other variables than pc.
LEMMA FewerUses ==
  ASSUME TypeInv, NEW t \in Threads, UNCHANGED <<clients, runs, mine>>,
         pc' = [pc EXCEPT ![t] = pc'[t]],
         HasTmp(t)' => HasTmp(t), HasIn(t)' => HasIn(t), HasOut(t)' => HasOut(t)
  PROVE  \A u \in Threads, n \in Numbers, e \in Opened : OpenOn(u, n, e)' => OpenOn(u, n, e)
<1> TAKE u \in Threads, n \in Numbers, e \in Opened
<1>1. (HasTmp(u)' => HasTmp(u)) /\ (HasIn(u)' => HasIn(u)) /\ (HasOut(u)' => HasOut(u))
  <2>1. CASE u = t
    BY <2>1
  <2>2. CASE u # t
    BY <2>2 DEF TypeInv, TypeOK, HasTmp, HasIn, HasOut
  <2> QED
    BY <2>1, <2>2
<1> QED
  BY <1>1 DEF OpenOn, Current

LEMMA ClosesKeepOwn ==
  ASSUME TypeInv, OwnNumbers, NEW t \in Threads, CloseIn(t) \/ CloseOut(t) \/ CloseTmp(t)
  PROVE  OwnNumbers'
<1> Current(t) \in Run /\ pc[t] # "idle"
  BY CurrentIsRun DEF CloseIn, CloseOut, CloseTmp, Go
<1> \A u \in Threads, n \in Numbers, e \in Opened : OpenOn(u, n, e)' => OpenOn(u, n, e)
  <2>1. UNCHANGED <<clients, runs, mine>> /\ pc' = [pc EXCEPT ![t] = pc'[t]]
    BY DEF CloseIn, CloseOut, CloseTmp, Go, TypeInv, TypeOK
  <2>2. (HasTmp(t)' => HasTmp(t)) /\ (HasIn(t)' => HasIn(t)) /\ (HasOut(t)' => HasOut(t))
    BY DEF CloseIn, CloseOut, CloseTmp, Go, TypeInv, TypeOK, HasTmp, HasIn, HasOut
  <2> QED
    BY <2>1, <2>2, FewerUses
<1>1. CASE CloseIn(t)
  <2>1. mine[t].in \in Numbers /\ ReadEnd(Current(t)) \in Opened
    BY <1>1 DEF CloseIn, Go, TypeInv, LocalsSet, Opened, PipeEnds
  <2>2. OpenOn(t, mine[t].in, ReadEnd(Current(t)))
    BY <1>1 DEF CloseIn, Go, OpenOn, HasIn
  <2>3. ~OpenOn(t, mine[t].in, ReadEnd(Current(t)))'
    BY <1>1 DEF CloseIn, Go, TypeInv, TypeOK, OpenOn, HasIn, Client, Tmp, ReadEnd, WriteEnd
  <2>4. /\ table' = [table EXCEPT ![mine[t].in] = Closed] /\ lost' = lost
        /\ mine' = mine /\ Current(t)' = Current(t)
    BY <1>1 DEF CloseIn, Current
  <2> QED
    BY <2>1, <2>2, <2>3, <2>4, CloseKeepsOwn
<1>2. CASE CloseOut(t)
  <2>1. mine[t].out \in Numbers /\ WriteEnd(Current(t)) \in Opened
    BY <1>2 DEF CloseOut, Go, TypeInv, LocalsSet, Opened, PipeEnds
  <2>2. OpenOn(t, mine[t].out, WriteEnd(Current(t)))
    BY <1>2 DEF CloseOut, Go, OpenOn, HasOut
  <2>3. ~OpenOn(t, mine[t].out, WriteEnd(Current(t)))'
    BY <1>2 DEF CloseOut, Go, TypeInv, TypeOK, OpenOn, HasOut, Client, Tmp, ReadEnd, WriteEnd
  <2>4. /\ table' = [table EXCEPT ![mine[t].out] = Closed] /\ lost' = lost
        /\ mine' = mine /\ Current(t)' = Current(t)
    BY <1>2 DEF CloseOut, Current
  <2> QED
    BY <2>1, <2>2, <2>3, <2>4, CloseKeepsOwn
<1>3. CASE CloseTmp(t)
  <2>1. mine[t].tmp_fd \in Numbers /\ Tmp(mine[t].sock) \in Opened
    BY <1>3 DEF CloseTmp, Go, TypeInv, LocalsSet, Opened
  <2>2. OpenOn(t, mine[t].tmp_fd, Tmp(mine[t].sock))
    BY <1>3 DEF CloseTmp, Go, OpenOn, HasTmp
  <2>3. ~OpenOn(t, mine[t].tmp_fd, Tmp(mine[t].sock))'
    BY <1>3 DEF CloseTmp, Go, TypeInv, TypeOK, OpenOn, HasTmp, Client, Tmp, ReadEnd, WriteEnd
  <2> QED
    BY <1>3, <2>1, <2>2, <2>3, CloseKeepsOwn DEF CloseTmp
<1> QED
  BY <1>1, <1>2, <1>3

\* The steps that close and open nothing, and dup2(), which records what it closes.
LEMMA OthersKeepOwn ==
  ASSUME TypeInv, OwnNumbers, NEW t \in Threads,
         Fork(t) \/ Write(t) \/ WriteBlock(t) \/ Wait(t) \/ Dup(t)
  PROVE  OwnNumbers'
<1>1. \A u \in Threads, n \in Numbers, e \in Opened : OpenOn(u, n, e)' => OpenOn(u, n, e)
  <2>1. UNCHANGED <<clients, runs, mine>> /\ pc' = [pc EXCEPT ![t] = pc'[t]]
    BY DEF Fork, Write, WriteBlock, Wait, Dup, Go, TypeInv, TypeOK
  <2>2. (HasTmp(t)' => HasTmp(t)) /\ (HasIn(t)' => HasIn(t)) /\ (HasOut(t)' => HasOut(t))
    BY DEF Fork, Write, WriteBlock, Wait, Dup, Go, TypeInv, TypeOK, HasTmp, HasIn, HasOut
  <2> QED
    BY <2>1, <2>2, FewerUses
<1>2. CASE Fork(t) \/ Write(t) \/ WriteBlock(t) \/ Wait(t)
  <2>1. table' = table /\ lost' = lost
    BY <1>2 DEF Fork, Write, WriteBlock, Wait
  <2> QED
    BY <1>1, <2>1, StayingKeepsOwn
<1>3. CASE Dup(t)
  <2>1. \A n \in Numbers : n # mine[t].in => table'[n] = table[n]
    BY <1>3 DEF Dup, TypeInv, TypeOK
  <2>2. mine[t].in \in Numbers => table'[mine[t].in] = Stdin /\ Stdin # Closed
    BY <1>3 DEF Dup, TypeInv, TypeOK, Stdin, Closed
  <2>3. table[mine[t].in] \notin {Closed, Stdin} => table[mine[t].in] \in lost'
    BY <1>3 DEF Dup
  <2>4. lost \subseteq lost'
    BY <1>3 DEF Dup
  <2> QED
    BY <1>1, <2>1, <2>2, <2>3, <2>4, StayingKeepsOwn
<1> QED
  BY <1>2, <1>3

LEMMA ParseCgiKeepsOwn ==
  ASSUME TypeInv, OwnNumbers, NEW t \in Threads, ParseCgi(t)
  PROVE  OwnNumbers'
<1>0. CASE pc' = pc
  <2>1. UNCHANGED <<table, clients, pc, runs, mine, lost>>
    BY <1>0 DEF ParseCgi, Go, TypeInv, TypeOK
  <2>2. \A u \in Threads, n \in Numbers, e \in Opened : OpenOn(u, n, e)' => OpenOn(u, n, e)
    BY <2>1 DEF OpenOn, HasTmp, HasIn, HasOut, Current
  <2> QED
    BY <2>1, <2>2, StayingKeepsOwn
<1> SUFFICES ASSUME pc' # pc PROVE OwnNumbers'
  BY <1>0
<1>1. /\ pc' = [pc EXCEPT ![t] = "idle"] /\ mine' = [mine EXCEPT ![t] = NoLocals]
      /\ UNCHANGED <<clients, runs, table, lost>>
  BY DEF ParseCgi, Go
<1>2. \A u \in Threads, n \in Numbers, e \in Opened : OpenOn(u, n, e)' => OpenOn(u, n, e)
  <2> TAKE u \in Threads, n \in Numbers, e \in Opened
  <2>1. CASE u = t
    BY <2>1, <1>1 DEF OpenOn, HasTmp, HasIn, HasOut, TypeInv, TypeOK
  <2>2. CASE u # t
    <3>1. pc'[u] = pc[u] /\ mine'[u] = mine[u] /\ Current(u)' = Current(u)
      BY <2>2, <1>1 DEF TypeInv, TypeOK, Current
    <3> QED
      BY <3>1, <1>1 DEF OpenOn, HasTmp, HasIn, HasOut
  <2> QED
    BY <2>1, <2>2
<1> QED
  BY <1>1, <1>2, StayingKeepsOwn

LEMMA OwnStep == TypeInv /\ OwnNumbers /\ [Next]_vars => OwnNumbers'
<1> SUFFICES ASSUME TypeInv, OwnNumbers, [Next]_vars PROVE OwnNumbers'
  OBVIOUS
<1>1. CASE UNCHANGED <<table, clients, pc, runs, mine, lost>>
  <2>1. \A u \in Threads, n \in Numbers, e \in Opened : OpenOn(u, n, e)' => OpenOn(u, n, e)
    BY <1>1 DEF OpenOn, HasTmp, HasIn, HasOut, Current
  <2> QED
    BY <1>1, <2>1, StayingKeepsOwn
<1>2. ASSUME NEW r \in Run, ReadBlock(r) \/ Compute(r) \/ ExecveFails(r)
      PROVE  OwnNumbers'
  BY <1>1, <1>2 DEF ReadBlock, Compute, ExecveFails, Exit
<1>3. ASSUME NEW t \in Threads, ExecuteCgi(t)
      PROVE  OwnNumbers'
  BY <1>3, PipeKeepsOwn, ClosesKeepOwn, OthersKeepOwn, ParseCgiKeepsOwn DEF ExecuteCgi
<1>4. CASE UNCHANGED vars
  BY <1>1, <1>4 DEF vars
<1>5. CASE Next
  BY <1>2, <1>3, <1>5, LoopKeepsOwn DEF Next
<1> QED
  BY <1>4, <1>5

\* OwnNumbers says more than NumbersKept.
LEMMA OwnIsKept == TypeInv /\ OwnNumbers => NumbersKept
<1> SUFFICES ASSUME TypeInv, OwnNumbers, NEW t \in Threads
             PROVE  /\ \A c \in clients[t] : Keeps(c, Client(t))
                    /\ HasTmp(t) => Keeps(mine[t].tmp_fd, Tmp(mine[t].sock))
                    /\ HasIn(t) => Keeps(mine[t].in, ReadEnd(Current(t)))
                    /\ HasOut(t) => Keeps(mine[t].out, WriteEnd(Current(t)))
  BY DEF NumbersKept, HasTmp, HasIn, HasOut
<1>0. \A n \in Numbers, e \in Opened : OpenOn(t, n, e) => Keeps(n, e)
  BY DEF OwnNumbers
<1>1. \A c \in clients[t] : Keeps(c, Client(t))
  <2> TAKE c \in clients[t]
  <2>1. c \in Numbers /\ Client(t) \in Opened
    BY DEF TypeInv, TypeOK, Opened
  <2> QED
    BY <1>0, <2>1 DEF OpenOn
<1>2. ASSUME HasTmp(t) PROVE Keeps(mine[t].tmp_fd, Tmp(mine[t].sock))
  <2>1. mine[t].tmp_fd \in Numbers /\ Tmp(mine[t].sock) \in Opened
    BY <1>2 DEF HasTmp, TypeInv, LocalsSet, Opened
  <2> QED
    BY <1>0, <1>2, <2>1 DEF OpenOn
<1>3. ASSUME HasIn(t) PROVE Keeps(mine[t].in, ReadEnd(Current(t)))
  <2>1. pc[t] # "idle" /\ mine[t].in \in Numbers
    BY <1>3 DEF HasIn, TypeInv, LocalsSet
  <2>2. ReadEnd(Current(t)) \in Opened
    BY <2>1, CurrentIsRun DEF Opened, PipeEnds
  <2> QED
    BY <1>0, <1>3, <2>1, <2>2 DEF OpenOn
<1>4. ASSUME HasOut(t) PROVE Keeps(mine[t].out, WriteEnd(Current(t)))
  <2>1. pc[t] # "idle" /\ mine[t].out \in Numbers
    BY <1>4 DEF HasOut, TypeInv, LocalsSet
  <2>2. WriteEnd(Current(t)) \in Opened
    BY <2>1, CurrentIsRun DEF Opened, PipeEnds
  <2> QED
    BY <1>0, <1>4, <2>1, <2>2 DEF OpenOn
<1> QED
  BY <1>1, <1>2, <1>3, <1>4

\* However many threads accept, close and run CGIs at the same time, each number a
\* thread knows stays open on what it opened, until a dup2() at the end of an
\* executeCgi() takes it.
THEOREM NumbersAreKept == Spec => []NumbersKept
<1>1. Init => TypeInv /\ OwnNumbers
  BY TypeInit, OwnInit
<1>2. TypeInv /\ OwnNumbers /\ [Next]_vars => (TypeInv /\ OwnNumbers)'
  BY TypeStep, OwnStep
<1> QED
  BY <1>1, <1>2, OwnIsKept, PTL DEF Spec

----------------------------------------------------------------------------
(* CGI runs: what can kill the process, and whose output a request gets.  *)

----------------------------------------------------------------------------
(* What one step does to the descriptors and to the threads.               *)

\* A step opens what is closed, closes, or leaves the standard input behind.
LEMMA TableStep ==
  ASSUME TypeInv, Next
  PROVE  /\ \A n \in Numbers : table[n] = Closed \/ table'[n] \in {table[n], Stdin, Closed}
         /\ lost \subseteq lost'
<1> DEFINE Small == /\ \A n \in Numbers : table[n] = Closed \/ table'[n] \in {table[n], Stdin, Closed}
                    /\ lost \subseteq lost'
<1>1. ASSUME NEW t \in Threads, Accept(t) \/ Disconnect(t) \/ OpenTmp(t)
      PROVE  Small
  <2>1. CASE Accept(t)
    BY <2>1, LowestIsFree DEF Accept, TypeInv, TypeOK
  <2>2. CASE Disconnect(t)
    BY <2>2 DEF Disconnect, TypeInv, TypeOK
  <2>3. CASE OpenTmp(t)
    BY <2>3, LowestIsFree DEF OpenTmp, TypeInv, TypeOK
  <2> QED
    BY <1>1, <2>1, <2>2, <2>3
<1>2. ASSUME NEW t \in Threads, ExecuteCgi(t)
      PROVE  Small
  <2>1. CASE Pipe(t)
    BY <2>1, NextLowestIsFree DEF Pipe, TypeInv, TypeOK
  <2>2. CASE Fork(t) \/ Write(t) \/ WriteBlock(t) \/ Wait(t) \/ ParseCgi(t)
    BY <2>2 DEF Fork, Write, WriteBlock, Wait, ParseCgi
  <2>3. CASE CloseIn(t) \/ CloseOut(t) \/ CloseTmp(t)
    BY <2>3 DEF CloseIn, CloseOut, CloseTmp, TypeInv, TypeOK
  <2>4. CASE Dup(t)
    BY <2>4 DEF Dup, TypeInv, TypeOK
  <2> QED
    BY <1>2, <2>1, <2>2, <2>3, <2>4 DEF ExecuteCgi
<1>3. ASSUME NEW r \in Run, ReadBlock(r) \/ Compute(r) \/ ExecveFails(r)
      PROVE  Small
  BY <1>3 DEF ReadBlock, Compute, ExecveFails, Exit
<1> QED
  BY <1>1, <1>2, <1>3 DEF Next

\* What thread t has of its own: only its own steps change it.
Own(t) == <<pc[t], runs[t], mine[t], clients[t], target[t]>>

LEMMA OnlyOwnSteps ==
  ASSUME TypeInv, NEW t \in Threads, NEW u \in Threads, u # t,
         Accept(u) \/ Disconnect(u) \/ OpenTmp(u) \/ ExecuteCgi(u)
  PROVE  /\ Own(t)' = Own(t)
         /\ pc[t] # "idle" => child'[Current(t)] = child[Current(t)]
<1>1. Own(t)' = Own(t)
  BY DEF Own, Accept, Disconnect, OpenTmp, ExecuteCgi, Pipe, Fork, CloseIn, Write, WriteBlock,
         CloseOut, CloseTmp, Wait, Dup, ParseCgi, Go, TypeInv, TypeOK
<1>2. Current(u) # Current(t)
  BY DEF Current
<1>3. child' = child \/ \E c : child' = [child EXCEPT ![Current(u)] = c]
  BY DEF Accept, Disconnect, OpenTmp, ExecuteCgi, Pipe, Fork, CloseIn, Write, WriteBlock,
         CloseOut, CloseTmp, Wait, Dup, ParseCgi
<1> QED
  BY <1>1, <1>2, <1>3, CurrentIsRun DEF TypeInv, TypeOK

LEMMA ChildSteps ==
  ASSUME TypeInv, NEW r \in Run, Compute(r) \/ ExecveFails(r)
  PROVE  /\ UNCHANGED <<table, clients, pc, runs, mine, written, target, lost, running>>
         /\ \E state \in {"done", "failed"} : child' = [child EXCEPT ![r].state = state]
         /\ ExecveFails(r) => child'[r].state = "failed"
BY DEF Compute, ExecveFails, Exit, TypeInv, TypeOK

LEMMA ReadBlockSteps ==
  ASSUME NEW r \in Run, ReadBlock(r)
  PROVE  UNCHANGED <<table, clients, pc, runs, mine, child, written, target, tmp, lost, running>>
BY DEF ReadBlock

----------------------------------------------------------------------------
(* The pipe of a run and its child.                                        *)

HasChild(t) == pc[t] \in {"closeIn", "write", "writing", "closeOut", "closeTmp", "wait"}
TheChild(t) == child[Current(t)]

\* The ends of the pipe are where the thread left them, or the standard input is;
\* a write() that has begun goes to the write end.
EndsInPlace(t) ==
  /\ HasIn(t) => table[mine[t].in] \in {ReadEnd(Current(t)), Stdin}
  /\ HasOut(t) => table[mine[t].out] \in {WriteEnd(Current(t)), Stdin}
  /\ pc[t] = "writing" => target[t] = WriteEnd(Current(t))

\* The child reads from the pipe and can be written to, unless a dup2() has taken
\* the read end; it is not done while the thread has the write end.
ChildReads(t) ==
  HasChild(t) =>
    LET end == ReadEnd(Current(t)) IN
    /\ TheChild(t).state # "none"
    /\ TheChild(t).stdin \in {end, Stdin}
    /\ TheChild(t).stdin = Stdin => end \in lost
    /\ TheChild(t).state \in {"reading", "failing"} => end \in TheChild(t).holds \/ end \in lost
    /\ TheChild(t).state = "done" /\ HasOut(t) =>
         (table[mine[t].out] = Stdin /\ pc[t] # "writing") \/ end \in lost

PipeInv == \A t \in Threads : EndsInPlace(t) /\ ChildReads(t)

LEMMA PipeInvInit == Init => PipeInv
BY DEF Init, PipeInv, EndsInPlace, ChildReads, HasIn, HasOut, HasChild

\* A number that t keeps is left alone, or becomes the standard input.
LEMMA NumberStays ==
  ASSUME TypeInv, OwnNumbers, OwnNumbers', Next, NEW t \in Threads, NEW n \in Numbers,
         NEW e \in Opened, OpenOn(t, n, e), OpenOn(t, n, e)'
  PROVE  table'[n] \in {table[n], Stdin}
<1>1. table[n] # Closed
  BY DEF OwnNumbers
<1>2. table'[n] # Closed
  BY DEF OwnNumbers
<1> QED
  BY <1>1, <1>2, TableStep

\* The ends of t's pipe are things that can be open.
LEMMA EndsAreOpened ==
  ASSUME TypeInv, NEW t \in Threads, pc[t] # "idle"
  PROVE  ReadEnd(Current(t)) \in Opened /\ WriteEnd(Current(t)) \in Opened
BY CurrentIsRun DEF Opened, PipeEnds

\* Steps that are not t's: its pipe and its child stay as they are.
LEMMA PipeUndisturbed ==
  ASSUME TypeInv, OwnNumbers, OwnNumbers', Next, PipeInv, NEW t \in Threads,
         Own(t)' = Own(t),
         pc[t] # "idle" => \/ child'[Current(t)] = child[Current(t)]
                           \/ /\ UNCHANGED <<table, lost>>
                              /\ Current(t) \in Run
                              /\ Compute(Current(t)) \/ ExecveFails(Current(t))
  PROVE  EndsInPlace(t)' /\ ChildReads(t)'
<1>1. /\ pc'[t] = pc[t] /\ mine'[t] = mine[t] /\ Current(t)' = Current(t)
      /\ target'[t] = target[t]
      /\ (HasIn(t)' <=> HasIn(t)) /\ (HasOut(t)' <=> HasOut(t)) /\ (HasChild(t)' <=> HasChild(t))
  BY DEF Own, Current, HasIn, HasOut, HasChild
<1>2. EndsInPlace(t) /\ ChildReads(t) /\ lost \subseteq lost'
  BY TableStep DEF PipeInv
<1>3. HasIn(t) => table'[mine[t].in] \in {table[mine[t].in], Stdin}
  <2> SUFFICES ASSUME HasIn(t) PROVE table'[mine[t].in] \in {table[mine[t].in], Stdin}
    OBVIOUS
  <2>1. mine[t].in \in Numbers /\ ReadEnd(Current(t)) \in Opened
    BY EndsAreOpened DEF HasIn, TypeInv, LocalsSet
  <2>2. OpenOn(t, mine[t].in, ReadEnd(Current(t)))
    BY DEF OpenOn
  <2>3. OpenOn(t, mine[t].in, ReadEnd(Current(t)))'
    BY <1>1 DEF OpenOn
  <2> QED
    BY <1>1, <2>1, <2>2, <2>3, NumberStays
<1>4. HasOut(t) => table'[mine[t].out] \in {table[mine[t].out], Stdin}
  <2> SUFFICES ASSUME HasOut(t) PROVE table'[mine[t].out] \in {table[mine[t].out], Stdin}
    OBVIOUS
  <2>1. mine[t].out \in Numbers /\ WriteEnd(Current(t)) \in Opened
    BY EndsAreOpened DEF HasOut, TypeInv, LocalsSet
  <2>2. OpenOn(t, mine[t].out, WriteEnd(Current(t)))
    BY DEF OpenOn
  <2>3. OpenOn(t, mine[t].out, WriteEnd(Current(t)))'
    BY <1>1 DEF OpenOn
  <2> QED
    BY <1>1, <2>1, <2>2, <2>3, NumberStays
<1>5. EndsInPlace(t)'
  BY <1>1, <1>2, <1>3, <1>4 DEF EndsInPlace
<1>6. ChildReads(t)'
  <2> SUFFICES ASSUME HasChild(t) PROVE ChildReads(t)'
    BY <1>1 DEF ChildReads
  <2>0. pc[t] # "idle"
    BY DEF HasChild
  <2>1. CASE child'[Current(t)] = child[Current(t)]
    BY <2>1, <1>1, <1>2, <1>4 DEF ChildReads, TheChild
  <2>2. CASE /\ UNCHANGED <<table, lost>> /\ Current(t) \in Run
             /\ Compute(Current(t)) \/ ExecveFails(Current(t))
    <3>1. PICK state \in {"done", "failed"} :
            child' = [child EXCEPT ![Current(t)].state = state]
      BY <2>2, ChildSteps
    <3>2. /\ child'[Current(t)].state = state
          /\ child'[Current(t)].stdin = child[Current(t)].stdin
          /\ child'[Current(t)].holds = child[Current(t)].holds
      BY <2>2, <3>1 DEF TypeInv, TypeOK
    <3>3. state = "done" /\ HasOut(t) =>
            \/ table[mine[t].out] = Stdin /\ pc[t] # "writing"
            \/ ReadEnd(Current(t)) \in lost
      <4> SUFFICES ASSUME state = "done", HasOut(t), ReadEnd(Current(t)) \notin lost
                   PROVE  table[mine[t].out] = Stdin /\ pc[t] # "writing"
        OBVIOUS
      <4>1. child[Current(t)].stdin = ReadEnd(Current(t))
        BY <1>2 DEF ChildReads, TheChild
      <4>2. Compute(Current(t))
        BY <2>2, <3>2, ChildSteps
      <4>3. ~Held(WriteEnd(Current(t)))
        BY <4>1, <4>2 DEF Compute, ReadEnd
      <4>4. mine[t].out \in Numbers
        BY DEF HasOut, TypeInv, LocalsSet
      <4> QED
        BY <4>3, <4>4, <1>2 DEF Held, EndsInPlace
    <3> QED
      BY <3>2, <3>3, <2>2, <1>1, <1>2 DEF ChildReads, TheChild
  <2> QED
    BY <2>0, <2>1, <2>2
<1> QED
  BY <1>5, <1>6

\* The two ends of a pipe have different numbers.
LEMMA EndsDiffer ==
  ASSUME TypeInv, OwnNumbers, NEW t \in Threads, HasIn(t)
  PROVE  mine[t].in # mine[t].out
<1>1. mine[t].in \in Numbers /\ mine[t].out \in Numbers /\ pc[t] # "idle" /\ HasOut(t)
  BY DEF HasIn, HasOut, TypeInv, LocalsSet
<1>2. /\ OpenOn(t, mine[t].in, ReadEnd(Current(t)))
      /\ OpenOn(t, mine[t].out, WriteEnd(Current(t)))
  BY <1>1 DEF OpenOn
<1>3. ReadEnd(Current(t)) # WriteEnd(Current(t))
  BY DEF ReadEnd, WriteEnd
<1> QED
  BY <1>1, <1>2, <1>3, EndsAreOpened DEF OwnNumbers

\* The steps of executeCgi() keep the pipe of their own run.
LEMMA ForkKeepsPipe ==
  ASSUME TypeInv, OwnNumbers, PipeInv, NEW t \in Threads, Fork(t)
  PROVE  EndsInPlace(t)' /\ ChildReads(t)'
<1> DEFINE end == ReadEnd(Current(t))
<1>1. /\ HasIn(t) /\ HasOut(t) /\ pc[t] # "idle" /\ pc'[t] = "closeIn" /\ Current(t) \in Run
      /\ UNCHANGED <<table, mine, lost>> /\ Current(t)' = Current(t)
  BY CurrentIsRun DEF Fork, Go, HasIn, HasOut, TypeInv, TypeOK, Current
<1>2. mine[t].in \in Numbers /\ mine[t].out \in Numbers /\ mine[t].in # mine[t].out
  BY <1>1, EndsDiffer DEF HasIn, TypeInv, LocalsSet
<1>3. table[mine[t].in] \in {end, Stdin} /\ EndsInPlace(t)
  BY <1>1 DEF PipeInv, EndsInPlace
<1>4. EndsInPlace(t)'
  BY <1>1, <1>3 DEF EndsInPlace, HasIn, HasOut
<1>5. table[mine[t].in] = Stdin => end \in lost
  <2>1. OpenOn(t, mine[t].in, end)
    BY <1>1 DEF OpenOn
  <2>2. Keeps(mine[t].in, end)
    BY <2>1, <1>1, <1>2, EndsAreOpened DEF OwnNumbers
  <2> QED
    BY <2>2 DEF Keeps, ReadEnd, Stdin
<1>6. table[mine[t].in] = end => end \in Inherited(t)
  BY <1>1, <1>2 DEF Inherited, PipeEnds
<1>7. PICK runs_it \in Outcomes :
        child' = [child EXCEPT ![Current(t)] =
          [state |-> IF runs_it THEN "reading" ELSE "failing",
           stdin |-> table[mine[t].in], stdout |-> table[mine[t].tmp_fd],
           holds |-> Inherited(t)]]
  BY DEF Fork
<1>8. /\ child'[Current(t)].state \in {"reading", "failing"}
      /\ child'[Current(t)].stdin = table[mine[t].in]
      /\ child'[Current(t)].holds = Inherited(t)
  BY <1>1, <1>7 DEF TypeInv, TypeOK
<1> QED
  BY <1>1, <1>3, <1>4, <1>5, <1>6, <1>8 DEF ChildReads, TheChild

LEMMA ExecuteCgiKeepsPipe ==
  ASSUME TypeInv, OwnNumbers, PipeInv, NEW t \in Threads, ExecuteCgi(t)
  PROVE  EndsInPlace(t)' /\ ChildReads(t)'
<1>0. EndsInPlace(t) /\ ChildReads(t)
  BY DEF PipeInv
<1>1. CASE Pipe(t)
  <2>1. /\ Lowest \in Numbers /\ NextLowest \in Numbers /\ NextLowest # Lowest
        /\ pc'[t] = "fork" /\ Current(t)' = Current(t)
    BY <1>1, NextLowestIsFree DEF Pipe, Go, TypeInv, TypeOK, Current
  <2>2. mine'[t].in = Lowest /\ mine'[t].out = NextLowest
    BY <1>1 DEF Pipe, TypeInv, TypeOK
  <2>3. table'[Lowest] = ReadEnd(Current(t)) /\ table'[NextLowest] = WriteEnd(Current(t))
    BY <1>1, <2>1 DEF Pipe, TypeInv, TypeOK
  <2> QED
    BY <2>1, <2>2, <2>3 DEF EndsInPlace, ChildReads, HasChild
<1>2. CASE CloseIn(t)
  <2>1. /\ pc[t] = "closeIn" /\ pc'[t] = "write" /\ Current(t)' = Current(t)
        /\ mine[t].in # mine[t].out /\ mine[t].out \in Numbers
    BY <1>2, EndsDiffer DEF CloseIn, Go, TypeInv, TypeOK, LocalsSet, Current, HasIn
  <2>2. table'[mine[t].out] = table[mine[t].out] /\ UNCHANGED <<mine, child, lost>>
    BY <1>2, <2>1 DEF CloseIn, TypeInv, TypeOK
  <2> QED
    BY <1>0, <2>1, <2>2 DEF EndsInPlace, ChildReads, HasIn, HasOut, HasChild, TheChild
<1>3. CASE Write(t)
  <2>1. /\ pc[t] = "write" /\ Current(t)' = Current(t)
        /\ UNCHANGED <<table, mine, child, lost>>
    BY <1>3 DEF Write, Current
  <2>2. table[mine[t].out] \in {WriteEnd(Current(t)), Stdin}
    BY <1>0, <2>1 DEF EndsInPlace, HasOut
  <2>3. CASE pc'[t] = "closeOut"
    BY <1>0, <2>1, <2>3 DEF EndsInPlace, ChildReads, HasIn, HasOut, HasChild, TheChild
  <2>4. CASE pc'[t] # "closeOut"
    <3>1. pc'[t] = "writing" /\ target'[t] = table[mine[t].out] /\ table[mine[t].out].kind = "write"
      BY <1>3, <2>4 DEF Write, TypeInv, TypeOK
    <3>2. table[mine[t].out] = WriteEnd(Current(t)) /\ table[mine[t].out] # Stdin
      BY <2>2, <3>1 DEF Stdin
    <3> QED
      BY <1>0, <2>1, <3>1, <3>2 DEF EndsInPlace, ChildReads, HasIn, HasOut, HasChild, TheChild
  <2> QED
    BY <2>3, <2>4
<1>6. CASE WriteBlock(t)
  <2>1. /\ pc[t] = "writing" /\ pc'[t] \in {"writing", "closeOut"} /\ Current(t)' = Current(t)
        /\ pc'[t] = "writing" => target'[t] = target[t]
        /\ UNCHANGED <<table, mine, child, lost>>
    BY <1>6 DEF WriteBlock, TypeInv, TypeOK, Current
  <2> QED
    BY <1>0, <2>1 DEF EndsInPlace, ChildReads, HasIn, HasOut, HasChild, TheChild
<1>4. CASE CloseOut(t) \/ CloseTmp(t)
  <2>1. /\ pc[t] \in {"closeOut", "closeTmp"} /\ pc'[t] \in {"closeTmp", "wait"}
        /\ Current(t)' = Current(t) /\ UNCHANGED <<mine, child, lost>>
    BY <1>4 DEF CloseOut, CloseTmp, Go, TypeInv, TypeOK, Current
  <2> QED
    BY <1>0, <2>1 DEF EndsInPlace, ChildReads, HasIn, HasOut, HasChild, TheChild
<1>5. CASE Wait(t) \/ Dup(t) \/ ParseCgi(t)
  <2>1. pc'[t] \in {"dup", "parse", "idle"}
    BY <1>5 DEF Wait, Dup, ParseCgi, Go, TypeInv, TypeOK
  <2> QED
    BY <2>1 DEF EndsInPlace, ChildReads, HasIn, HasOut, HasChild
<1> QED
  BY <1>1, <1>2, <1>3, <1>4, <1>5, <1>6, ForkKeepsPipe DEF ExecuteCgi

LEMMA PipeStep == TypeInv /\ OwnNumbers /\ OwnNumbers' /\ PipeInv /\ [Next]_vars => PipeInv'
<1> SUFFICES ASSUME TypeInv, OwnNumbers, OwnNumbers', PipeInv, [Next]_vars,
                    NEW t \in Threads
             PROVE  EndsInPlace(t)' /\ ChildReads(t)'
  BY DEF PipeInv
<1>1. CASE UNCHANGED vars
  BY <1>1 DEF vars, PipeInv, EndsInPlace, ChildReads, HasIn, HasOut, HasChild, TheChild, Current
<1>2. ASSUME Next, Accept(t) \/ Disconnect(t) \/ OpenTmp(t)
      PROVE  EndsInPlace(t)' /\ ChildReads(t)'
  <2>1. pc'[t] \in {"idle", "pipe"}
    BY <1>2 DEF Accept, Disconnect, OpenTmp, Go, TypeInv, TypeOK
  <2> QED
    BY <2>1 DEF EndsInPlace, ChildReads, HasIn, HasOut, HasChild
<1>3. ASSUME Next, NEW u \in Threads, u # t,
             Accept(u) \/ Disconnect(u) \/ OpenTmp(u) \/ ExecuteCgi(u)
      PROVE  EndsInPlace(t)' /\ ChildReads(t)'
  BY <1>3, OnlyOwnSteps, PipeUndisturbed
<1>4. ASSUME Next, NEW r \in Run, Compute(r) \/ ExecveFails(r)
      PROVE  EndsInPlace(t)' /\ ChildReads(t)'
  <2>1. UNCHANGED <<table, clients, pc, runs, mine, target, lost>>
    BY <1>4, ChildSteps
  <2>2. Own(t)' = Own(t)
    BY <2>1 DEF Own
  <2>3. r # Current(t) /\ pc[t] # "idle" => child'[Current(t)] = child[Current(t)]
    BY <1>4, CurrentIsRun DEF Compute, ExecveFails, Exit, TypeInv, TypeOK
  <2> QED
    BY <1>4, <2>1, <2>2, <2>3, PipeUndisturbed
<1>6. ASSUME NEW r \in Run, ReadBlock(r)
      PROVE  EndsInPlace(t)' /\ ChildReads(t)'
  BY <1>6, ReadBlockSteps DEF PipeInv, EndsInPlace, ChildReads, HasIn, HasOut, HasChild,
     TheChild, Current
<1>5. CASE Next
  BY <1>2, <1>3, <1>4, <1>5, <1>6, ExecuteCgiKeepsPipe DEF Next
<1> QED
  BY <1>1, <1>5

\* write() meets a pipe without a reader only for a reason.
LEMMA WriteKills ==
  ASSUME TypeInv, PipeInv, NEW t \in Threads, WriteBlock(t), running, ~running'
  PROVE  child[Current(t)].state = "failed" \/ ReadEnd(Current(t)) \in lost
<1> DEFINE end == ReadEnd(Current(t))
<1>1. /\ HasOut(t) /\ HasChild(t) /\ pc[t] = "writing" /\ EndsInPlace(t) /\ ChildReads(t)
      /\ pc[t] # "idle"
  BY DEF WriteBlock, HasOut, HasChild, PipeInv
<1>2. ~Held(ReadEnd(target[t].of))
  BY DEF WriteBlock
<1>3. target[t] = WriteEnd(Current(t))
  BY <1>1 DEF EndsInPlace
<1>4. ~Held(end)
  BY <1>2, <1>3 DEF WriteEnd
<1>5. end \notin TheChild(t).holds \/ TheChild(t).state \notin {"reading", "failing"}
  BY <1>1, <1>4, CurrentIsRun DEF Held, TheChild
<1>6. TheChild(t).state \in {"none", "reading", "failing", "done", "failed"}
  BY <1>1, CurrentIsRun DEF TheChild, TypeInv, TypeOK
<1> QED
  BY <1>1, <1>5, <1>6 DEF ChildReads, TheChild

----------------------------------------------------------------------------
(* Whose output a request gets.                                            *)

\* The client a run is for is one of its thread; a child is that of the run its
\* thread is in; a pipe is given the body of its own run only.
SockOwn    == \A t \in Threads : pc[t] # "idle" => mine[t].sock \in clients[t]
ChildOfRun == \A r \in Run : child[r].state # "none" => HasChild(r[1]) /\ r = Current(r[1])
WrittenOwn == \A r \in Run : written[r] \subseteq {r}

\* The way of a body to the file of its client.
OutputOnItsWay(t) ==
  /\ HasChild(t) => TheChild(t).stdout = Tmp(mine[t].sock)
  /\ running /\ pc[t] \in {"closeOut", "closeTmp", "wait"} =>
       Current(t) \in written[Current(t)]
  /\ HasChild(t) /\ TheChild(t).state = "done" => tmp[mine[t].sock] \in Outputs({Current(t)})
  /\ HasChild(t) /\ TheChild(t).state = "failed" => tmp[mine[t].sock] = Junk
  /\ pc[t] \in {"dup", "parse"} => tmp[mine[t].sock] \in Outputs({Current(t)}) \cup {Junk}

OutputInv ==
  /\ SockOwn /\ ChildOfRun /\ WrittenOwn
  /\ lost = {} => \A t \in Threads : OutputOnItsWay(t)

LEMMA OutputInvInit == Init => OutputInv
BY DEF Init, OutputInv, SockOwn, ChildOfRun, WrittenOwn, OutputOnItsWay, HasChild, NoChild

LEMMA SockStep ==
  ASSUME TypeInv, SockOwn, Next
  PROVE  SockOwn'
<1>1. ASSUME NEW t \in Threads, Accept(t) \/ Disconnect(t)
      PROVE  SockOwn'
  BY <1>1 DEF SockOwn, Accept, Disconnect, TypeInv, TypeOK
<1>2. ASSUME NEW t \in Threads, OpenTmp(t)
      PROVE  SockOwn'
  <2>1. PICK c \in clients[t] :
          mine' = [mine EXCEPT ![t] = [NoLocals EXCEPT !.sock = c, !.tmp_fd = Lowest]]
    BY <1>2 DEF OpenTmp
  <2>2. mine'[t].sock = c /\ \A u \in Threads \ {t} : mine'[u] = mine[u]
    BY <2>1 DEF NoLocals, TypeInv, TypeOK
  <2> QED
    BY <1>2, <2>2 DEF OpenTmp, Go, SockOwn, TypeInv, TypeOK
<1>3. ASSUME NEW t \in Threads, Pipe(t)
      PROVE  SockOwn'
  <2>1. \A u \in Threads : mine'[u].sock = mine[u].sock
    BY <1>3 DEF Pipe, TypeInv, TypeOK
  <2> QED
    BY <1>3, <2>1 DEF Pipe, Go, SockOwn, TypeInv, TypeOK
<1>4. ASSUME NEW t \in Threads, ExecuteCgi(t), ~Pipe(t)
      PROVE  SockOwn'
  BY <1>4 DEF ExecuteCgi, Fork, CloseIn, Write, WriteBlock, CloseOut, CloseTmp, Wait,
     Dup, ParseCgi, Go, SockOwn, TypeInv, TypeOK
<1>5. ASSUME NEW r \in Run, ReadBlock(r) \/ Compute(r) \/ ExecveFails(r)
      PROVE  SockOwn'
  BY <1>5, ReadBlockSteps, ChildSteps DEF SockOwn
<1> QED
  BY <1>1, <1>2, <1>3, <1>4, <1>5 DEF Next

LEMMA ChildOfRunStep ==
  ASSUME TypeInv, ChildOfRun, Next
  PROVE  ChildOfRun'
<1>1. ASSUME NEW t \in Threads, Accept(t) \/ Disconnect(t)
      PROVE  ChildOfRun'
  BY <1>1 DEF ChildOfRun, Accept, Disconnect, HasChild, Current
<1>2. ASSUME NEW t \in Threads, OpenTmp(t)
      PROVE  ChildOfRun'
  BY <1>2 DEF OpenTmp, Go, ChildOfRun, HasChild, Current, TypeInv, TypeOK, Run
<1>3. ASSUME NEW t \in Threads, Fork(t)
      PROVE  ChildOfRun'
  <2>1. pc[t] = "fork" /\ pc' = [pc EXCEPT ![t] = "closeIn"] /\ runs' = runs
    BY <1>3 DEF Fork, Go
  <2>2. \A r \in Run : r # Current(t) => child'[r] = child[r]
    BY <1>3 DEF Fork, TypeInv, TypeOK
  <2> QED
    BY <2>1, <2>2 DEF ChildOfRun, HasChild, Current, TypeInv, TypeOK, Run
<1>4. ASSUME NEW t \in Threads, Wait(t)
      PROVE  ChildOfRun'
  <2>1. pc[t] = "wait" /\ pc' = [pc EXCEPT ![t] = "dup"] /\ runs' = runs
    BY <1>4 DEF Wait, Go
  <2>2. /\ \A r \in Run : r # Current(t) => child'[r] = child[r]
        /\ Current(t) \in Run => child'[Current(t)].state = "none"
    BY <1>4 DEF Wait, TypeInv, TypeOK, NoChild
  <2> QED
    BY <2>1, <2>2 DEF ChildOfRun, HasChild, Current, TypeInv, TypeOK, Run
<1>5. ASSUME NEW t \in Threads, ExecuteCgi(t), ~Fork(t), ~Wait(t)
      PROVE  ChildOfRun'
  <2>1. child' = child /\ runs' = runs
    BY <1>5 DEF ExecuteCgi, Pipe, CloseIn, Write, WriteBlock, CloseOut, CloseTmp, Dup, ParseCgi
  <2>2. \A u \in Threads : HasChild(u) => HasChild(u)'
    BY <1>5 DEF ExecuteCgi, Pipe, CloseIn, Write, WriteBlock, CloseOut, CloseTmp, Dup, ParseCgi, Go,
       HasChild, TypeInv, TypeOK
  <2> QED
    BY <2>1, <2>2 DEF ChildOfRun, Current, Run
<1>6. ASSUME NEW r \in Run, Compute(r) \/ ExecveFails(r)
      PROVE  ChildOfRun'
  <2>1. child[r].state # "none" /\ UNCHANGED <<pc, runs>>
    BY <1>6, ChildSteps DEF Compute, ExecveFails
  <2>2. \A s \in Run : s # r => child'[s] = child[s]
    BY <1>6, ChildSteps DEF TypeInv, TypeOK
  <2> QED
    BY <2>1, <2>2 DEF ChildOfRun, HasChild, Current
<1>7. ASSUME NEW r \in Run, ReadBlock(r)
      PROVE  ChildOfRun'
  BY <1>7, ReadBlockSteps DEF ChildOfRun, HasChild, Current
<1> QED
  BY <1>1, <1>2, <1>3, <1>4, <1>5, <1>6, <1>7 DEF Next

LEMMA WrittenStep ==
  ASSUME TypeInv, PipeInv, WrittenOwn, Next
  PROVE  WrittenOwn' /\ \A r \in Run : written[r] \subseteq written'[r]
<1>1. ASSUME NEW t \in Threads, WriteBlock(t)
      PROVE  WrittenOwn' /\ \A r \in Run : written[r] \subseteq written'[r]
  <2>1. target[t] = WriteEnd(Current(t))
    BY <1>1 DEF WriteBlock, PipeInv, EndsInPlace
  <2>2. target[t].of = Current(t)
    BY <2>1 DEF WriteEnd
  <2>3. \/ written' = written
        \/ written' = [written EXCEPT ![Current(t)] = @ \cup {Current(t)}]
    BY <1>1, <2>2 DEF WriteBlock
  <2>4. \A r \in Run : written'[r] \in {written[r], written[r] \cup {Current(t)}}
                      /\ (r # Current(t) => written'[r] = written[r])
    BY <2>3 DEF TypeInv, TypeOK
  <2> QED
    BY <2>4 DEF WrittenOwn
<1>2. ASSUME written' = written
      PROVE  WrittenOwn' /\ \A r \in Run : written[r] \subseteq written'[r]
  BY <1>2 DEF WrittenOwn
<1> QED
  BY <1>1, <1>2 DEF Next, Accept, Disconnect, OpenTmp, ExecuteCgi, Pipe, Fork, CloseIn,
     Write, CloseOut, CloseTmp, Wait, Dup, ParseCgi, ReadBlock, Compute, ExecveFails, Exit

\* Two threads are never busy with the same number of a client.
LEMMA SocksDiffer ==
  ASSUME TypeInv, OwnNumbers, SockOwn, NEW t \in Threads, NEW u \in Threads, u # t,
         pc[t] # "idle", NEW c \in clients[u]
  PROVE  c # mine[t].sock
<1>1. mine[t].sock \in clients[t] /\ mine[t].sock \in Numbers /\ c \in Numbers
  BY DEF SockOwn, TypeInv, TypeOK
<1>2. OpenOn(t, mine[t].sock, Client(t)) /\ OpenOn(u, c, Client(u))
  BY <1>1 DEF OpenOn
<1>3. Client(t) \in Opened /\ Client(u) \in Opened
  BY DEF Opened
<1> QED
  BY <1>1, <1>2, <1>3 DEF OwnNumbers

\* The steps of another thread, and of the children of others, leave the file alone.
LEMMA OthersLeaveFile ==
  ASSUME TypeInv, OwnNumbers, SockOwn, NEW t \in Threads, NEW u \in Threads, u # t,
         pc[t] # "idle", Accept(u) \/ Disconnect(u) \/ OpenTmp(u) \/ ExecuteCgi(u)
  PROVE  tmp'[mine[t].sock] = tmp[mine[t].sock]
<1>0. mine[t].sock \in Numbers /\ \A c \in clients[u] : c # mine[t].sock
  BY SocksDiffer DEF TypeInv, LocalsSet
<1>1. CASE OpenTmp(u)
  BY <1>0, <1>1 DEF OpenTmp, TypeInv, TypeOK
<1>2. CASE ParseCgi(u)
  <2>1. pc[u] # "idle" /\ mine[u].sock \in clients[u]
    BY <1>2 DEF ParseCgi, Go, SockOwn
  <2> QED
    BY <1>0, <1>2, <2>1 DEF ParseCgi, TypeInv, TypeOK
<1> QED
  BY <1>1, <1>2 DEF Accept, Disconnect, ExecuteCgi, Pipe, Fork, CloseIn, Write, WriteBlock,
         CloseOut, CloseTmp, Wait, Dup

LEMMA ChildrenLeaveFile ==
  ASSUME TypeInv, OwnNumbers, OutputInv, lost = {}, NEW t \in Threads, pc[t] # "idle",
         NEW r \in Run, r # Current(t), Compute(r) \/ ExecveFails(r)
  PROVE  tmp'[mine[t].sock] = tmp[mine[t].sock]
<1> DEFINE u == r[1]
<1>1. u \in Threads /\ HasChild(u) /\ r = Current(u)
  BY DEF OutputInv, ChildOfRun, Compute, ExecveFails, Run
<1>2. u # t /\ child[r].stdout = Tmp(mine[u].sock)
  BY <1>1 DEF OutputInv, OutputOnItsWay, TheChild
<1>3. mine[u].sock \in clients[u]
  BY <1>1 DEF OutputInv, SockOwn, HasChild
<1>4. mine[u].sock # mine[t].sock /\ mine[t].sock \in Numbers
  BY <1>1, <1>2, <1>3, SocksDiffer DEF OutputInv, TypeInv, LocalsSet
<1>5. PICK text : tmp' = [tmp EXCEPT ![mine[u].sock] = text]
  <2>1. child[r].stdout.kind = "tmp" /\ child[r].stdout.of = mine[u].sock
    BY <1>2 DEF Tmp
  <2> QED
    BY <2>1 DEF Compute, ExecveFails, Exit
<1> QED
  BY <1>4, <1>5 DEF TypeInv, TypeOK

\* Undisturbed by the step, the output stays on its way.
LEMMA OutputUndisturbed ==
  ASSUME TypeInv, running, NEW t \in Threads, Own(t)' = Own(t), OutputOnItsWay(t),
         \A r \in Run : written[r] \subseteq written'[r],
         pc[t] # "idle" => /\ child'[Current(t)] = child[Current(t)]
                           /\ tmp'[mine[t].sock] = tmp[mine[t].sock]
  PROVE  OutputOnItsWay(t)'
<1>1. /\ pc'[t] = pc[t] /\ mine'[t] = mine[t] /\ Current(t)' = Current(t)
      /\ (HasChild(t)' <=> HasChild(t))
  BY DEF Own, Current, HasChild
<1>2. HasChild(t) => pc[t] # "idle"
  BY DEF HasChild
<1>3. pc[t] # "idle" => written[Current(t)] \subseteq written'[Current(t)]
  BY CurrentIsRun
<1> QED
  BY <1>1, <1>2, <1>3 DEF OutputOnItsWay, TheChild

\* While no dup2() has taken anything, the ends and the file are open on what they were.
LEMMA NothingLost ==
  ASSUME TypeInv, OwnNumbers, NEW t \in Threads, lost = {}
  PROVE  /\ HasTmp(t) => table[mine[t].tmp_fd] = Tmp(mine[t].sock)
         /\ HasOut(t) => table[mine[t].out] = WriteEnd(Current(t))
BY OwnIsKept DEF NumbersKept, Keeps, HasTmp, HasOut

\* The own child: it ends when its input has, and leaves its output in the file.
LEMMA OwnChildEnds ==
  ASSUME TypeInv, OwnNumbers, PipeInv, OutputInv, running, lost = {}, NEW t \in Threads,
         pc[t] # "idle", Compute(Current(t)) \/ ExecveFails(Current(t))
  PROVE  OutputOnItsWay(t)'
<1> DEFINE r == Current(t)
<1>1. r \in Run
  BY CurrentIsRun
<1>2. HasChild(t) /\ OutputOnItsWay(t) /\ ChildReads(t)
  BY <1>1 DEF OutputInv, ChildOfRun, PipeInv, Compute, ExecveFails, Current
<1>3. UNCHANGED <<table, clients, pc, runs, mine, written, lost>>
  BY <1>1, ChildSteps
<1>4. child[r].stdout = Tmp(mine[t].sock) /\ mine[t].sock \in Numbers
  BY <1>2 DEF OutputOnItsWay, TheChild, TypeInv, LocalsSet
<1>5. \A state \in {"done", "failed"}, text \in File :
        Exit(r, state, text) => /\ child'[r].state = state
                                /\ child'[r].stdout = child[r].stdout
                                /\ tmp'[mine[t].sock] = text
  <2>1. child[r].stdout.kind = "tmp" /\ child[r].stdout.of = mine[t].sock
    BY <1>4 DEF Tmp
  <2> QED
    BY <1>1, <1>4, <2>1 DEF Exit, TypeInv, TypeOK
<1>6. \E state \in {"done", "failed"} :
        /\ child'[r].state = state /\ child'[r].stdout = child[r].stdout
        /\ state = "done" => tmp'[mine[t].sock] \in Outputs({r})
        /\ state = "failed" => tmp'[mine[t].sock] = Junk
  <2>1. CASE ExecveFails(r)
    <3>1. Junk \in File /\ Exit(r, "failed", Junk)
      BY <2>1 DEF ExecveFails, File
    <3> QED
      BY <3>1, <1>5
  <2>2. CASE Compute(r)
    <3>1. child[r].stdin = ReadEnd(r)
      BY <1>2 DEF ChildReads, TheChild
    <3>2. ~Held(WriteEnd(r)) /\ \E text \in Outputs(written[r]) : Exit(r, "done", text)
      BY <2>2, <3>1 DEF Compute, ReadEnd
    <3>3. ~HasOut(t)
      BY <3>2, NothingLost DEF Held, HasOut, TypeInv, LocalsSet
    <3>4. r \in written[r] /\ written[r] \subseteq {r}
      BY <1>1, <1>2, <3>3 DEF OutputOnItsWay, HasChild, HasOut, OutputInv, WrittenOwn
    <3>5. written[r] = {r} /\ Outputs({r}) \subseteq File
      BY <1>1, <3>4 DEF Outputs, File
    <3>6. PICK text \in Outputs({r}) : Exit(r, "done", text)
      BY <3>2, <3>5
    <3> QED
      BY <3>5, <3>6, <1>5
  <2> QED
    BY <2>1, <2>2
<1>7. /\ Current(t)' = r /\ (HasChild(t)' <=> HasChild(t)) /\ mine'[t] = mine[t] /\ pc'[t] = pc[t]
  BY <1>3 DEF Current, HasChild
<1>8. pc[t] \notin {"dup", "parse"}
  BY <1>2 DEF HasChild
<1> QED
  BY <1>2, <1>3, <1>4, <1>6, <1>7, <1>8 DEF OutputOnItsWay, TheChild

\* The steps of executeCgi(), for the run they are of.
LEMMA ExecuteCgiKeepsOutput ==
  ASSUME TypeInv, OwnNumbers, PipeInv, OutputInv, running, lost = {}, NEW t \in Threads,
         ExecuteCgi(t)
  PROVE  OutputOnItsWay(t)'
<1>0. OutputOnItsWay(t) /\ ChildReads(t) /\ EndsInPlace(t) /\ pc[t] # "idle" /\ Current(t) \in Run
  BY CurrentIsRun DEF OutputInv, PipeInv, ExecuteCgi, Pipe, Fork, CloseIn, Write, WriteBlock,
         CloseOut, CloseTmp, Wait, Dup, ParseCgi, Go
<1>8. CASE ParseCgi(t) /\ pc'[t] # "idle"
  <2>1. UNCHANGED <<pc, mine, child, written, tmp>> /\ Current(t)' = Current(t) /\ pc[t] = "parse"
    BY <1>8 DEF ParseCgi, Go, Current, TypeInv, TypeOK
  <2> QED
    BY <1>0, <2>1 DEF OutputOnItsWay, HasChild
<1>1. CASE Pipe(t) \/ (ParseCgi(t) /\ pc'[t] = "idle")
  <2>1. pc'[t] \in {"fork", "idle"}
    BY <1>1 DEF Pipe, Go, TypeInv, TypeOK
  <2> QED
    BY <2>1 DEF OutputOnItsWay, HasChild
<1>2. CASE Fork(t)
  <2>1. pc'[t] = "closeIn" /\ Current(t)' = Current(t) /\ mine'[t] = mine[t]
    BY <1>2 DEF Fork, Go, TypeInv, TypeOK, Current
  <2>2. PICK runs_it \in Outcomes :
          child' = [child EXCEPT ![Current(t)] =
            [state |-> IF runs_it THEN "reading" ELSE "failing",
             stdin |-> table[mine[t].in], stdout |-> table[mine[t].tmp_fd],
             holds |-> Inherited(t)]]
    BY <1>2 DEF Fork
  <2>3. /\ child'[Current(t)].stdout = table[mine[t].tmp_fd]
        /\ child'[Current(t)].state \in {"reading", "failing"}
    BY <1>0, <2>2 DEF TypeInv, TypeOK
  <2>4. table[mine[t].tmp_fd] = Tmp(mine[t].sock)
    BY <1>2, NothingLost DEF Fork, Go, HasTmp
  <2> QED
    BY <2>1, <2>3, <2>4 DEF OutputOnItsWay, TheChild, HasChild
<1>3. CASE Write(t)
  <2>1. pc[t] = "write" /\ Current(t)' = Current(t) /\ UNCHANGED <<mine, child, tmp>>
    BY <1>3 DEF Write, Current
  <2>2. table[mine[t].out].kind = "write"
    <3>1. table[mine[t].out] = WriteEnd(Current(t))
      BY <2>1, NothingLost DEF HasOut
    <3>2. WriteEnd(Current(t)).kind = "write"
      BY DEF WriteEnd
    <3> QED
      BY <3>1, <3>2
  <2>3. pc'[t] = "writing"
    BY <1>3, <2>2 DEF Write, TypeInv, TypeOK
  <2> QED
    BY <1>0, <2>1, <2>3 DEF OutputOnItsWay, TheChild, HasChild
<1>7. CASE WriteBlock(t)
  <2>1. /\ pc[t] = "writing" /\ pc'[t] \in {"writing", "closeOut"} /\ Current(t)' = Current(t)
        /\ UNCHANGED <<mine, child, tmp>>
    BY <1>7 DEF WriteBlock, TypeInv, TypeOK, Current
  <2>2. target[t].of = Current(t)
    BY <1>0, <2>1 DEF EndsInPlace, WriteEnd
  <2>3. running' => Current(t) \in written'[Current(t)]
    BY <1>0, <1>7, <2>2 DEF WriteBlock, TypeInv, TypeOK
  <2> QED
    BY <1>0, <2>1, <2>3 DEF OutputOnItsWay, TheChild, HasChild
<1>4. CASE CloseIn(t) \/ CloseOut(t) \/ CloseTmp(t)
  <2>1. /\ UNCHANGED <<mine, child, tmp, written>> /\ Current(t)' = Current(t)
        /\ \/ pc[t] = "closeIn" /\ pc'[t] = "write"
           \/ pc[t] = "closeOut" /\ pc'[t] = "closeTmp"
           \/ pc[t] = "closeTmp" /\ pc'[t] = "wait"
    BY <1>4 DEF CloseIn, CloseOut, CloseTmp, Go, TypeInv, TypeOK, Current
  <2> QED
    BY <1>0, <2>1 DEF OutputOnItsWay, TheChild, HasChild
<1>5. CASE Wait(t)
  <2>1. /\ pc[t] = "wait" /\ pc'[t] = "dup" /\ UNCHANGED <<mine, tmp>>
        /\ Current(t)' = Current(t) /\ TheChild(t).state \in {"done", "failed"}
    BY <1>5 DEF Wait, Go, TypeInv, TypeOK, Current, TheChild
  <2> QED
    BY <1>0, <2>1 DEF OutputOnItsWay, HasChild
<1>6. CASE Dup(t)
  <2>1. /\ pc[t] = "dup" /\ pc'[t] = "parse" /\ UNCHANGED <<mine, tmp>>
        /\ Current(t)' = Current(t)
    BY <1>6 DEF Dup, Go, TypeInv, TypeOK, Current
  <2> QED
    BY <1>0, <2>1 DEF OutputOnItsWay, HasChild
<1> QED
  BY <1>1, <1>2, <1>3, <1>4, <1>5, <1>6, <1>7, <1>8 DEF ExecuteCgi

LEMMA OutputStep ==
  TypeInv /\ OwnNumbers /\ PipeInv /\ OutputInv /\ [Next]_vars => OutputInv'
<1> SUFFICES ASSUME TypeInv, OwnNumbers, PipeInv, OutputInv, [Next]_vars
             PROVE  OutputInv'
  OBVIOUS
<1>1. CASE UNCHANGED vars
  BY <1>1 DEF vars, OutputInv, SockOwn, ChildOfRun, WrittenOwn, OutputOnItsWay, HasChild,
     TheChild, Current
<1>2. CASE Next
  <2>1. /\ SockOwn' /\ ChildOfRun' /\ WrittenOwn' /\ lost \subseteq lost'
        /\ \A r \in Run : written[r] \subseteq written'[r]
    BY <1>2, SockStep, ChildOfRunStep, WrittenStep, TableStep DEF OutputInv
  <2>2. ASSUME lost' = {}, NEW t \in Threads
        PROVE  OutputOnItsWay(t)'
    <3>0. lost = {} /\ OutputOnItsWay(t) /\ SockOwn /\ running
      BY <1>2, <2>1, <2>2 DEF OutputInv, Next
    <3>1. CASE Accept(t) \/ Disconnect(t) \/ OpenTmp(t)
      <4>1. pc'[t] \in {"idle", "pipe"}
        BY <3>1 DEF Accept, Disconnect, OpenTmp, Go, TypeInv, TypeOK
      <4> QED
        BY <4>1 DEF OutputOnItsWay, HasChild
    <3>2. ASSUME NEW u \in Threads, u # t,
                 Accept(u) \/ Disconnect(u) \/ OpenTmp(u) \/ ExecuteCgi(u)
          PROVE  OutputOnItsWay(t)'
      BY <3>0, <3>2, <2>1, OnlyOwnSteps, OthersLeaveFile, OutputUndisturbed
    <3>3. ASSUME NEW r \in Run, Compute(r) \/ ExecveFails(r)
          PROVE  OutputOnItsWay(t)'
      <4>1. UNCHANGED <<clients, pc, runs, mine, target>>
        BY <3>3, ChildSteps
      <4>2. Own(t)' = Own(t)
        BY <4>1 DEF Own
      <4>3. CASE pc[t] # "idle" /\ r = Current(t)
        BY <3>0, <3>3, <4>3, OwnChildEnds
      <4>4. CASE pc[t] = "idle"
        BY <4>2, <4>4, <3>0, <2>1, OutputUndisturbed
      <4>5. CASE pc[t] # "idle" /\ r # Current(t)
        <5>1. child'[Current(t)] = child[Current(t)]
          BY <3>3, <4>5, ChildSteps, CurrentIsRun DEF TypeInv, TypeOK
        <5> QED
          BY <5>1, <3>0, <3>3, <4>2, <4>5, <2>1, ChildrenLeaveFile, OutputUndisturbed
      <4> QED
        BY <4>3, <4>4, <4>5
    <3>4. ASSUME NEW r \in Run, ReadBlock(r)
          PROVE  OutputOnItsWay(t)'
      BY <3>0, <3>4, ReadBlockSteps DEF OutputOnItsWay, TheChild, HasChild, Current
    <3> QED
      BY <1>2, <3>0, <3>1, <3>2, <3>3, <3>4, ExecuteCgiKeepsOutput DEF Next
  <2> QED
    BY <2>1, <2>2 DEF OutputInv
<1> QED
  BY <1>1, <1>2

\* However many threads run CGIs, each request gets the output computed from its own
\* body, or what its own child says, until a dup2() has taken a descriptor.
THEOREM OutputIsOfOwnRun == Spec => []OutputIsOwn
<1>1. Init => TypeInv /\ OwnNumbers /\ PipeInv /\ OutputInv
  BY TypeInit, OwnInit, PipeInvInit, OutputInvInit
<1>2. TypeInv /\ OwnNumbers /\ PipeInv /\ OutputInv /\ [Next]_vars
        => (TypeInv /\ OwnNumbers /\ PipeInv /\ OutputInv)'
  BY TypeStep, OwnStep, PipeStep, OutputStep
<1>3. OutputInv => OutputIsOwn
  BY DEF OutputInv, OutputIsOwn, OutputOnItsWay
<1> QED
  BY <1>1, <1>2, <1>3, PTL DEF Spec

----------------------------------------------------------------------------
(* What kills the process.                                                 *)

LEMMA KilledStep ==
  TypeInv /\ PipeInv /\ OutputInv /\ KilledOnlyForCause /\ [Next]_vars => KilledOnlyForCause'
<1> SUFFICES ASSUME TypeInv, PipeInv, OutputInv, KilledOnlyForCause, [Next]_vars, ~running'
             PROVE  KilledOnlyForCause'
  BY DEF KilledOnlyForCause
<1>1. CASE UNCHANGED vars
  BY <1>1 DEF vars, KilledOnlyForCause, Current
<1>2. CASE Next
  <2>0. running
    BY <1>2 DEF Next
  <2>1. PICK t \in Threads : WriteBlock(t) \/ ParseCgi(t)
    BY <1>2, <2>0 DEF Next, Accept, Disconnect, OpenTmp, ExecuteCgi, Pipe, Fork, CloseIn,
       Write, CloseOut, CloseTmp, Wait, Dup, ReadBlock, Compute, ExecveFails, Exit
  <2>2. CASE WriteBlock(t)
    <3>1. pc'[t] = "closeOut" /\ child' = child /\ Current(t)' = Current(t) /\ lost' = lost
      BY <2>0, <2>2 DEF WriteBlock, TypeInv, TypeOK, Current
    <3> QED
      BY <2>0, <2>2, <3>1, WriteKills DEF KilledOnlyForCause
  <2>3. CASE ParseCgi(t)
    <3>1. /\ pc[t] = "parse" /\ tmp[mine[t].sock].kind # "output"
          /\ UNCHANGED <<pc, mine, tmp, lost>> /\ Current(t)' = Current(t)
      BY <2>0, <2>3 DEF ParseCgi, Current
    <3>2. lost = {} => tmp[mine[t].sock] \in Outputs({Current(t)}) \cup {Junk}
      BY <3>1 DEF OutputInv, OutputOnItsWay
    <3>3. OutputFor({Current(t)}).kind = "output"
      BY DEF OutputFor
    <3>4. lost = {} => tmp[mine[t].sock] \in {Junk, Unheaded({Current(t)})}
      BY <3>1, <3>2, <3>3 DEF Outputs
    <3> QED
      BY <3>1, <3>4 DEF KilledOnlyForCause
  <2> QED
    BY <2>1, <2>2, <2>3
<1> QED
  BY <1>1, <1>2

\* However many threads run CGIs, one kills the process only in its write(), when its
\* child could not execute the program or a dup2() had taken the read end of the pipe,
\* and in parseCGI(), when what its own child left has no proper Status line or a
\* dup2() had taken a descriptor.
THEOREM KilledForCause == Spec => []KilledOnlyForCause
<1> DEFINE IInv == TypeInv /\ OwnNumbers /\ PipeInv /\ OutputInv /\ KilledOnlyForCause
<1>1. Init => IInv
  BY TypeInit, OwnInit, PipeInvInit, OutputInvInit DEF Init, KilledOnlyForCause
<1>2. IInv /\ [Next]_vars => IInv'
  BY TypeStep, OwnStep, PipeStep, OutputStep, KilledStep
<1> QED
  BY <1>1, <1>2, PTL DEF Spec

----------------------------------------------------------------------------
(* What a CGI run leaves open.                                             *)

\* Copies of the standard input, and the runs that have left theirs.
Left == {n \in Numbers : table[n] = Stdin}
Over == {r \in Run : r[2] < runs[r[1]] \/ (r[2] = runs[r[1]] /\ pc[r[1]] \in {"parse", "idle"})}

\* Every open number is such a copy or somebody's own.
Accounted ==
  lost = {} =>
    \A n \in Numbers : table[n] \notin {Closed, Stdin} =>
      \E t \in Threads, e \in Opened : OpenOn(t, n, e)

LeftInv ==
  /\ Accounted
  /\ lost = {} /\ Over # {} => Left # {}
  /\ Cardinality(Left) <= Cardinality(Over)

LEMMA LeftFinite ==
  ASSUME TypeInv
  PROVE  /\ IsFiniteSet(Left) /\ Cardinality(Left) \in Nat
         /\ IsFiniteSet(Over) /\ Cardinality(Over) \in Nat
<1>1. IsFiniteSet(Run)
  <2>1. IsFiniteSet(Threads) /\ IsFiniteSet(1..MaxRuns)
    BY CgiAssumption, FS_Interval
  <2> QED
    BY <2>1, FS_Product DEF Run
<1>2. IsFiniteSet(Left) /\ IsFiniteSet(Over)
  BY <1>1, CgiAssumption, FS_Subset DEF Left, Over
<1> QED
  BY <1>2, FS_CardinalityType

LEMMA LeftInit == Init => LeftInv
<1> SUFFICES ASSUME Init PROVE LeftInv
  OBVIOUS
<1>1. Left = {} /\ Over = {}
  BY CgiAssumption DEF Init, Left, Over, Run, Stdin, Closed
<1>2. Accounted
  BY DEF Init, Accounted
<1>3. Cardinality(Left) = 0 /\ Cardinality(Over) = 0
  BY <1>1, FS_EmptySet
<1>4. Cardinality(Left) <= Cardinality(Over)
  BY <1>3
<1> QED
  BY <1>1, <1>2, <1>4 DEF LeftInv

\* Numbers that are open stay somebody's unless they are closed; what is opened
\* is opened for somebody.
LEMMA AccountedStays ==
  ASSUME Accounted, NEW t \in Threads, lost \subseteq lost',
         \A u \in Threads, n \in Numbers, e \in Opened :
           OpenOn(u, n, e) => OpenOn(u, n, e)' \/ table'[n] = Closed,
         \A n \in Numbers : \/ table'[n] = table[n] \/ table'[n] \in {Closed, Stdin}
                            \/ \E e \in Opened : OpenOn(t, n, e)'
  PROVE  Accounted'
<1> SUFFICES ASSUME lost' = {}, NEW n \in Numbers, table'[n] \notin {Closed, Stdin}
             PROVE  \E u \in Threads, e \in Opened : OpenOn(u, n, e)'
  BY DEF Accounted
<1>1. CASE table'[n] = table[n]
  <2>1. PICK u \in Threads, e \in Opened : OpenOn(u, n, e)
    BY <1>1 DEF Accounted
  <2> QED
    BY <2>1
<1> QED
  BY <1>1

\* The steps of the loop, and open() and pipe() in executeCgi().
LEMMA LoopKeepsAccounted ==
  ASSUME TypeInv, Accounted, NEW t \in Threads,
         Accept(t) \/ Disconnect(t) \/ OpenTmp(t) \/ Pipe(t)
  PROVE  Accounted'
<1> USE DEF OpenOn, HasTmp, HasIn, HasOut
<1>0. PICK l \in {Lowest}, m \in {NextLowest} : l = Lowest /\ m = NextLowest
  OBVIOUS
<1>1. CASE Accept(t)
  <2>1. /\ l \in Numbers /\ table[l] = Closed /\ Client(t) \in Opened /\ l \in clients'[t]
        /\ lost' = lost /\ \A n \in Numbers : n # l => table'[n] = table[n]
    BY <1>0, <1>1, LowestIsFree DEF Accept, TypeInv, TypeOK, Opened
  <2>2. \A u \in Threads, n \in Numbers, e \in Opened : OpenOn(u, n, e) => OpenOn(u, n, e)'
    BY <1>1 DEF Accept, TypeInv, TypeOK, Current
  <2>3. OpenOn(t, l, Client(t))'
    BY <2>1 DEF Client
  <2> HIDE DEF OpenOn
  <2>4. \A n \in Numbers : table'[n] = table[n] \/ \E e \in Opened : OpenOn(t, n, e)'
    BY <2>1, <2>3
  <2> QED
    BY <2>1, <2>2, <2>4, AccountedStays
<1>2. CASE Disconnect(t)
  <2>1. PICK c \in clients[t] : /\ table' = [table EXCEPT ![c] = Closed]
                                /\ clients' = [clients EXCEPT ![t] = @ \ {c}]
    BY <1>2 DEF Disconnect
  <2>2. c \in Numbers /\ table'[c] = Closed /\ lost' = lost
        /\ \A n \in Numbers : n # c => table'[n] = table[n]
    BY <1>2, <2>1 DEF Disconnect, TypeInv, TypeOK
  <2>3. \A u \in Threads, n \in Numbers, e \in Opened :
          OpenOn(u, n, e) => OpenOn(u, n, e)' \/ n = c
    BY <1>2, <2>1 DEF Disconnect, TypeInv, TypeOK, Current
  <2> HIDE DEF OpenOn
  <2> QED
    BY <2>2, <2>3, AccountedStays
<1>3. CASE OpenTmp(t)
  <2>1. PICK c \in clients[t] :
          /\ table' = [table EXCEPT ![Lowest] = Tmp(c)]
          /\ mine' = [mine EXCEPT ![t] = [NoLocals EXCEPT !.sock = c, !.tmp_fd = Lowest]]
    BY <1>3 DEF OpenTmp
  <2>2. l \in Numbers /\ table[l] = Closed /\ Tmp(c) \in Opened
        /\ \A n \in Numbers : n # l => table'[n] = table[n]
    BY <1>0, <1>3, <2>1, LowestIsFree DEF OpenTmp, TypeInv, TypeOK, Opened
  <2>3. mine'[t].sock = c /\ mine'[t].tmp_fd = l
    BY <1>0, <2>1 DEF TypeInv, TypeOK, NoLocals
  <2>4. pc[t] = "idle" /\ pc' = [pc EXCEPT ![t] = "pipe"] /\ clients' = clients /\ lost' = lost
    BY <1>3 DEF OpenTmp, Go
  <2>5. \A u \in Threads \ {t} : mine'[u] = mine[u] /\ Current(u)' = Current(u) /\ pc'[u] = pc[u]
    BY <1>3, <2>1, <2>4 DEF OpenTmp, Current, TypeInv, TypeOK
  <2>6. \A u \in Threads, n \in Numbers, e \in Opened : OpenOn(u, n, e) => OpenOn(u, n, e)'
    <3> TAKE u \in Threads, n \in Numbers, e \in Opened
    <3>1. CASE u = t
      BY <3>1, <2>4
    <3>2. CASE u # t
      BY <3>2, <2>4, <2>5
    <3> QED
      BY <3>1, <3>2
  <2>7. OpenOn(t, l, Tmp(c))'
    <3>1. pc'[t] = "pipe"
      BY <2>4 DEF TypeInv, TypeOK
    <3> QED
      BY <2>3, <3>1 DEF Tmp
  <2> HIDE DEF OpenOn
  <2>8. \A n \in Numbers : table'[n] = table[n] \/ \E e \in Opened : OpenOn(t, n, e)'
    BY <2>2, <2>7
  <2> QED
    BY <2>4, <2>6, <2>8, AccountedStays
<1>4. CASE Pipe(t)
  <2>1. PICK r : r = Current(t)
    OBVIOUS
  <2>2. /\ l \in Numbers /\ m \in Numbers
        /\ \A n \in Numbers : n \notin {l, m} => table'[n] = table[n]
    BY <1>0, <1>4, NextLowestIsFree DEF Pipe, TypeInv, TypeOK
  <2>3. /\ mine'[t].in = l /\ mine'[t].out = m
        /\ mine'[t].sock = mine[t].sock /\ mine'[t].tmp_fd = mine[t].tmp_fd
        /\ \A u \in Threads \ {t} : mine'[u] = mine[u]
    BY <1>0, <1>4 DEF Pipe, TypeInv, TypeOK
  <2>4. pc[t] = "pipe" /\ pc' = [pc EXCEPT ![t] = "fork"] /\ clients' = clients /\ lost' = lost
    BY <1>4 DEF Pipe, Go
  <2>5. \A u \in Threads : Current(u)' = Current(u)
    BY <1>4 DEF Pipe, Current
  <2>6. \A u \in Threads, n \in Numbers, e \in Opened : OpenOn(u, n, e) => OpenOn(u, n, e)'
    <3> TAKE u \in Threads, n \in Numbers, e \in Opened
    <3>1. CASE u = t
      BY <3>1, <2>3, <2>4, <2>5 DEF TypeInv, TypeOK
    <3>2. CASE u # t
      BY <3>2, <2>3, <2>4, <2>5 DEF TypeInv, TypeOK
    <3> QED
      BY <3>1, <3>2
  <2>7. r \in Run /\ ReadEnd(r) \in Opened /\ WriteEnd(r) \in Opened
    BY <2>1, <2>4, CurrentIsRun DEF Opened, PipeEnds
  <2>8. OpenOn(t, l, ReadEnd(r))' /\ OpenOn(t, m, WriteEnd(r))'
    <3>1. pc'[t] = "fork" /\ Current(t)' = r
      BY <2>1, <2>4, <2>5 DEF TypeInv, TypeOK
    <3> QED
      BY <2>3, <3>1 DEF ReadEnd, WriteEnd
  <2> HIDE DEF OpenOn
  <2>9. \A n \in Numbers : table'[n] = table[n] \/ \E e \in Opened : OpenOn(t, n, e)'
    BY <2>2, <2>7, <2>8
  <2> QED
    BY <2>4, <2>6, <2>9, AccountedStays
<1> QED
  BY <1>1, <1>2, <1>3, <1>4

\* The other steps of executeCgi(): what they do not need any more they close.
LEMMA CgiKeepsAccounted ==
  ASSUME TypeInv, Accounted, NEW t \in Threads,
         \/ Fork(t) \/ CloseIn(t) \/ Write(t) \/ WriteBlock(t) \/ CloseOut(t) \/ CloseTmp(t)
         \/ Wait(t) \/ Dup(t) \/ ParseCgi(t)
  PROVE  Accounted'
<1>1. /\ clients' = clients /\ runs' = runs /\ lost \subseteq lost'
      /\ \A u \in Threads \ {t} : pc'[u] = pc[u] /\ mine'[u] = mine[u]
      /\ mine'[t] = mine[t] \/ pc[t] = "parse"
  BY DEF Fork, CloseIn, Write, WriteBlock, CloseOut, CloseTmp, Wait, Dup, ParseCgi, Go, TypeInv, TypeOK
<1>2. /\ HasTmp(t) => HasTmp(t)' \/ table'[mine[t].tmp_fd] = Closed
      /\ HasIn(t) => HasIn(t)' \/ table'[mine[t].in] = Closed
      /\ HasOut(t) => HasOut(t)' \/ table'[mine[t].out] = Closed
  BY DEF Fork, CloseIn, Write, WriteBlock, CloseOut, CloseTmp, Wait, Dup, ParseCgi, Go, TypeInv, TypeOK,
         LocalsSet, HasTmp, HasIn, HasOut
<1>3. \A u \in Threads, n \in Numbers, e \in Opened :
        OpenOn(u, n, e) => OpenOn(u, n, e)' \/ table'[n] = Closed
  <2> TAKE u \in Threads, n \in Numbers, e \in Opened
  <2>1. CASE u = t
    BY <1>1, <1>2, <2>1 DEF OpenOn, Current, HasTmp, HasIn, HasOut
  <2>2. CASE u # t
    BY <1>1, <2>2 DEF OpenOn, Current, HasTmp, HasIn, HasOut
  <2> QED
    BY <2>1, <2>2
<1>4. \A n \in Numbers : table'[n] = table[n] \/ table'[n] \in {Closed, Stdin}
  BY DEF Fork, CloseIn, Write, WriteBlock, CloseOut, CloseTmp, Wait, Dup, ParseCgi, TypeInv, TypeOK
<1> QED
  BY <1>1, <1>3, <1>4, AccountedStays

\* A close() of a number that was kept.
LEMMA ClosingKeepsCopies ==
  ASSUME TypeInv, NEW c \in Numbers, NEW e, e # Stdin, Keeps(c, e),
         table' = [table EXCEPT ![c] = Closed]
  PROVE  Left' \subseteq Left /\ (lost = {} => Left' = Left)
<1>1. lost = {} => table[c] # Stdin
  BY DEF Keeps
<1>2. table'[c] = Closed /\ \A n \in Numbers : n # c => table'[n] = table[n]
  BY DEF TypeInv, TypeOK
<1>3. Closed # Stdin
  BY DEF Stdin, Closed
<1>4. \A n \in Numbers : table'[n] = Stdin => table[n] = Stdin
  BY <1>2, <1>3
<1>5. lost = {} => \A n \in Numbers : table[n] = Stdin => table'[n] = Stdin
  BY <1>1, <1>2
<1> QED
  BY <1>4, <1>5 DEF Left

\* Only dup2() makes a copy of the standard input, and as long as nothing was lost
\* nobody closes one.
LEMMA CopiesStay ==
  ASSUME TypeInv, OwnNumbers, NEW t \in Threads,
         Accept(t) \/ Disconnect(t) \/ OpenTmp(t) \/ (ExecuteCgi(t) /\ ~Dup(t))
  PROVE  Left' \subseteq Left /\ (lost = {} => Left' = Left)
<1>1. ASSUME \A n \in Numbers : table'[n] = table[n] \/ (table[n] # Stdin /\ table'[n] # Stdin)
      PROVE  Left' = Left
  <2>1. \A n \in Numbers : table'[n] = Stdin <=> table[n] = Stdin
    BY <1>1
  <2> QED
    BY <2>1 DEF Left
<1>2. Stdin # Closed /\ \A r : ReadEnd(r) # Stdin /\ WriteEnd(r) # Stdin /\ Client(r) # Stdin /\ Tmp(r) # Stdin
  BY DEF Stdin, Closed, ReadEnd, WriteEnd, Client, Tmp
<1>3. CASE Accept(t)
  BY <1>1, <1>2, <1>3, LowestIsFree DEF Accept, TypeInv, TypeOK
<1>4. CASE OpenTmp(t)
  <2>1. PICK c \in clients[t], l \in {Lowest} : l = Lowest /\ table' = [table EXCEPT ![l] = Tmp(c)]
    BY <1>4 DEF OpenTmp
  <2>2. l \in Numbers /\ table[l] = Closed
    BY <1>4, <2>1, LowestIsFree DEF OpenTmp
  <2> QED
    BY <1>1, <1>2, <2>1, <2>2 DEF TypeInv, TypeOK
<1>5. CASE Pipe(t)
  BY <1>1, <1>2, <1>5, NextLowestIsFree DEF Pipe, TypeInv, TypeOK
<1>6. CASE Fork(t) \/ Write(t) \/ WriteBlock(t) \/ Wait(t) \/ ParseCgi(t)
  BY <1>1, <1>6 DEF Fork, Write, WriteBlock, Wait, ParseCgi
<1>7. PICK r \in {Current(t)}, in \in {mine[t].in}, out \in {mine[t].out},
           file \in {mine[t].tmp_fd}, sock \in {mine[t].sock} :
        /\ r = Current(t) /\ in = mine[t].in /\ out = mine[t].out
        /\ file = mine[t].tmp_fd /\ sock = mine[t].sock
  OBVIOUS
<1>8. NumbersKept
  BY OwnIsKept
<1>9. CASE Disconnect(t)
  <2>1. PICK c \in clients[t] : table' = [table EXCEPT ![c] = Closed]
    BY <1>9 DEF Disconnect
  <2>2. c \in Numbers /\ Keeps(c, Client(t))
    BY <1>8 DEF NumbersKept, TypeInv, TypeOK
  <2> QED
    BY <1>2, <2>1, <2>2, ClosingKeepsCopies
<1>10. CASE CloseIn(t)
  <2>1. table' = [table EXCEPT ![in] = Closed] /\ in \in Numbers /\ Keeps(in, ReadEnd(r))
    BY <1>7, <1>8, <1>10 DEF CloseIn, Go, NumbersKept, TypeInv, LocalsSet
  <2> QED
    BY <1>2, <2>1, ClosingKeepsCopies
<1>11. CASE CloseOut(t)
  <2>1. table' = [table EXCEPT ![out] = Closed] /\ out \in Numbers /\ Keeps(out, WriteEnd(r))
    BY <1>7, <1>8, <1>11 DEF CloseOut, Go, NumbersKept, TypeInv, LocalsSet
  <2> QED
    BY <1>2, <2>1, ClosingKeepsCopies
<1>12. CASE CloseTmp(t)
  <2>1. table' = [table EXCEPT ![file] = Closed] /\ file \in Numbers /\ Keeps(file, Tmp(sock))
    BY <1>7, <1>8, <1>12 DEF CloseTmp, Go, NumbersKept, TypeInv, LocalsSet
  <2> QED
    BY <1>2, <2>1, ClosingKeepsCopies
<1> QED
  BY <1>3, <1>4, <1>5, <1>6, <1>9, <1>10, <1>11, <1>12 DEF ExecuteCgi

\* A run is over when its dup2() has been made.
LEMMA OverStays ==
  ASSUME TypeInv, NEW t \in Threads,
         Accept(t) \/ Disconnect(t) \/ OpenTmp(t) \/ (ExecuteCgi(t) /\ ~Dup(t))
  PROVE  Over' = Over
<1>1. \A u \in Threads \ {t} : pc'[u] = pc[u] /\ runs'[u] = runs[u]
  BY OnlyOwnSteps DEF Own
<1>2. runs[t] \in Nat /\ \A r \in Run : r[1] \in Threads /\ r[2] \in Nat
  BY CgiAssumption DEF TypeInv, TypeOK, Run
<1>3. ASSUME runs'[t] = runs[t], pc'[t] \in {"parse", "idle"} <=> pc[t] \in {"parse", "idle"}
      PROVE  Over' = Over
  BY <1>1, <1>2, <1>3 DEF Over
<1>4. CASE OpenTmp(t)
  <2>1. runs'[t] = runs[t] + 1 /\ pc[t] = "idle" /\ pc'[t] = "pipe"
    BY <1>4 DEF OpenTmp, Go, TypeInv, TypeOK
  <2>2. \A k \in Nat : k < runs[t] + 1 <=> k < runs[t] \/ k = runs[t]
    BY <1>2
  <2>3. \A r \in Run : r \in Over' <=> r \in Over
    <3> TAKE r \in Run
    <3>1. CASE r[1] = t
      BY <1>2, <2>1, <2>2, <3>1 DEF Over
    <3>2. CASE r[1] # t
      BY <1>1, <1>2, <3>2 DEF Over
    <3> QED
      BY <3>1, <3>2
  <2> QED
    BY <2>3 DEF Over
<1>5. CASE Accept(t) \/ Disconnect(t)
  BY <1>3, <1>5 DEF Accept, Disconnect
<1>6. CASE ExecuteCgi(t) /\ ~Dup(t)
  <2>1. runs'[t] = runs[t] /\ (pc'[t] \in {"parse", "idle"} <=> pc[t] \in {"parse", "idle"})
    BY <1>6 DEF ExecuteCgi, Pipe, Fork, CloseIn, Write, WriteBlock, CloseOut, CloseTmp, Wait,
       ParseCgi, Go, TypeInv, TypeOK
  <2> QED
    BY <1>3, <2>1
<1> QED
  BY <1>4, <1>5, <1>6

LEMMA DupLeaves ==
  ASSUME TypeInv, LeftInv, NEW t \in Threads, Dup(t)
  PROVE  /\ Left' # {} /\ Cardinality(Left') <= Cardinality(Over')
<1>1. /\ pc[t] = "dup" /\ pc' = [pc EXCEPT ![t] = "parse"] /\ runs' = runs
      /\ mine[t].in \in Numbers /\ table' = [table EXCEPT ![mine[t].in] = Stdin]
  BY DEF Dup, Go, TypeInv, LocalsSet
<1>2. Left' = Left \cup {mine[t].in}
  BY <1>1 DEF Left, TypeInv, TypeOK
<1>3. Current(t) \in Run /\ Current(t)[1] = t /\ Current(t)[2] = runs[t] /\ runs[t] \in Nat
  BY <1>1, CurrentIsRun, CgiAssumption DEF Current, TypeInv, TypeOK
<1>4. \A r \in Run : r[1] = t /\ r[2] = runs[t] => r = Current(t)
  BY DEF Run, Current
<1>5. Current(t) \notin Over
  BY <1>1, <1>3 DEF Over
<1>6. Over' = Over \cup {Current(t)}
  <2>1. \A u \in Threads : pc'[u] = IF u = t THEN "parse" ELSE pc[u]
    BY <1>1 DEF TypeInv, TypeOK
  <2>2. \A r \in Run : r[1] \in Threads
    BY DEF Run
  <2>3. \A r \in Run : r \in Over' <=> r \in Over \/ r = Current(t)
    <3> TAKE r \in Run
    <3>1. CASE r = Current(t)
      BY <1>1, <1>3, <2>1, <3>1 DEF Over
    <3>2. CASE r # Current(t)
      <4>1. r[1] = t => r[2] # runs[t]
        BY <1>4, <3>2
      <4> QED
        BY <1>1, <2>1, <2>2, <3>2, <4>1 DEF Over
    <3> QED
      BY <3>1, <3>2
  <2> QED
    BY <1>3, <2>3 DEF Over
<1>7. Cardinality(Over \cup {Current(t)}) = Cardinality(Over) + 1
  BY <1>5, LeftFinite, FS_AddElement
<1>8. Cardinality(Left \cup {mine[t].in}) <= Cardinality(Left) + 1
  <2>1. CASE mine[t].in \in Left
    <3>1. Left \cup {mine[t].in} = Left
      BY <2>1
    <3>2. \A k \in Nat : k <= k + 1
      OBVIOUS
    <3> QED
      BY <3>1, <3>2, LeftFinite
  <2>2. CASE mine[t].in \notin Left
    <3>1. Cardinality(Left \cup {mine[t].in}) = Cardinality(Left) + 1
      BY <2>2, LeftFinite, FS_AddElement
    <3>2. \A k \in Nat : k + 1 <= k + 1
      OBVIOUS
    <3> QED
      BY <3>1, <3>2, LeftFinite
  <2> QED
    BY <2>1, <2>2
<1>9. Cardinality(Left \cup {mine[t].in}) \in Nat
  BY LeftFinite, FS_AddElement, FS_CardinalityType
<1> QED
  BY <1>2, <1>6, <1>7, <1>8, <1>9, LeftFinite DEF LeftInv

LEMMA LeftStep == TypeInv /\ OwnNumbers /\ LeftInv /\ [Next]_vars => LeftInv'
<1> SUFFICES ASSUME TypeInv, OwnNumbers, LeftInv, [Next]_vars PROVE LeftInv'
  OBVIOUS
<1>1. CASE UNCHANGED <<table, clients, pc, runs, mine, lost>>
  BY <1>1 DEF LeftInv, Accounted, Left, Over, OpenOn, HasTmp, HasIn, HasOut, Current
<1>2. ASSUME NEW r \in Run, ReadBlock(r) \/ Compute(r) \/ ExecveFails(r)
      PROVE  LeftInv'
  BY <1>1, <1>2, ChildSteps, ReadBlockSteps
<1>3. ASSUME NEW t \in Threads, Accept(t) \/ Disconnect(t) \/ OpenTmp(t) \/ ExecuteCgi(t)
      PROVE  LeftInv'
  <2>1. Accounted'
    BY <1>3, LoopKeepsAccounted, CgiKeepsAccounted DEF ExecuteCgi, LeftInv
  <2>2. CASE Dup(t)
    BY <2>1, <2>2, DupLeaves DEF LeftInv
  <2>3. CASE ~Dup(t)
    <3>1. Left' \subseteq Left /\ (lost = {} => Left' = Left) /\ Over' = Over
      BY <1>3, <2>3, CopiesStay, OverStays
    <3>2. lost \subseteq lost'
      BY <1>3 DEF Accept, Disconnect, OpenTmp, ExecuteCgi, Pipe, Fork, CloseIn, Write, WriteBlock,
         CloseOut, CloseTmp, Wait, Dup, ParseCgi
    <3>3. Cardinality(Left') <= Cardinality(Left) /\ Cardinality(Left') \in Nat
      BY <3>1, LeftFinite, FS_Subset, FS_CardinalityType
    <3> QED
      BY <2>1, <3>1, <3>2, <3>3, LeftFinite DEF LeftInv
  <2> QED
    BY <2>2, <2>3
<1>4. CASE UNCHANGED vars
  BY <1>1, <1>4 DEF vars
<1>5. CASE Next
  BY <1>2, <1>3, <1>5 DEF Next
<1> QED
  BY <1>4, <1>5

\* However many threads run CGIs, when all have returned the numbers open are the
\* clients and copies of the standard input, one for each run at the most and one
\* at the least if there was a run, unless a dup2() has taken a descriptor.
THEOREM OnlyStdinIsLeft == Spec => []OnlyStdinLeft
<1>1. Init => TypeInv /\ OwnNumbers /\ LeftInv
  BY TypeInit, OwnInit, LeftInit
<1>2. TypeInv /\ OwnNumbers /\ LeftInv /\ [Next]_vars => (TypeInv /\ OwnNumbers /\ LeftInv)'
  BY TypeStep, OwnStep, LeftStep
<1>3. TypeInv /\ OwnNumbers /\ LeftInv => OnlyStdinLeft
  <2> SUFFICES ASSUME TypeInv, OwnNumbers, LeftInv, lost = {}, \A t \in Threads : pc[t] = "idle"
               PROVE  LET ran == {r \in Run : r[2] <= runs[r[1]]}
                      IN /\ Numbers \ FreeNumbers = Left \cup UNION {clients[t] : t \in Threads}
                         /\ ran # {} => Left # {}
                         /\ Cardinality(Left) <= Cardinality(ran)
    BY DEF OnlyStdinLeft, Left
  <2>1. Over = {r \in Run : r[2] <= runs[r[1]]}
    <3>1. \A r \in Run : r[1] \in Threads /\ r[2] \in Nat /\ runs[r[1]] \in Nat
      BY CgiAssumption DEF Run, TypeInv, TypeOK
    <3>2. \A i, j \in Nat : i <= j <=> i < j \/ i = j
      OBVIOUS
    <3> QED
      BY <3>1, <3>2 DEF Over
  <2>2. \A n \in Numbers, t \in Threads, e \in Opened : OpenOn(t, n, e) <=> n \in clients[t] /\ e = Client(t)
    BY DEF OpenOn, HasTmp, HasIn, HasOut
  <2>3. ASSUME NEW n \in Numbers, table[n] \notin {Closed, Stdin}
        PROVE  \E t \in Threads : n \in clients[t]
    BY <2>2, <2>3 DEF LeftInv, Accounted
  <2>4. ASSUME NEW t \in Threads, NEW n \in clients[t]
        PROVE  n \in Numbers /\ table[n] # Closed
    <3>1. n \in Numbers /\ Client(t) \in Opened
      BY DEF TypeInv, TypeOK, Opened
    <3> QED
      BY <2>2, <3>1 DEF OwnNumbers
  <2>5. Stdin # Closed
    BY DEF Stdin, Closed
  <2>6. Numbers \ FreeNumbers = Left \cup UNION {clients[t] : t \in Threads}
    BY <2>3, <2>4, <2>5 DEF FreeNumbers, Left
  <2> QED
    BY <2>1, <2>6 DEF LeftInv
<1> QED
  BY <1>1, <1>2, <1>3, PTL DEF Spec
=============================================================================

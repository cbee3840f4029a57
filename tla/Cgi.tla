-------------------------------- MODULE Cgi --------------------------------
(***************************************************************************)
(* executeCgi() of src/src/Server.cpp and the file it leaves to            *)
(* parseCGI(): Server threads of one process, each with its connections,   *)
(* share the table of descriptors that pipe(), accept() and open() take    *)
(* numbers from and that fork() copies.  Of the text of an output, the     *)
(* model keeps whose body it was computed from and whether its header has  *)
(* the Status line parseCGI() takes for granted.                           *)
(***************************************************************************)
EXTENDS Integers, FiniteSets, FiniteSetsExt

CONSTANTS
  Threads,     \* the Server threads
  Numbers,     \* descriptor numbers above 0 (1 and 2 stand aside)
  Outcomes,    \* how execve() of cgi-bin/cgi_tester may end: TRUE, it runs
  BodyBlocks,  \* the blocks a body has
  Capacity,    \* the blocks a pipe holds
  MaxRuns,     \* bound: CGI runs of one thread
  MaxConns     \* bound: connections a thread has at a time

ASSUME CgiAssumption ==
  /\ Numbers \subseteq Nat \ {0} /\ IsFiniteSet(Numbers) /\ IsFiniteSet(Threads)
  /\ Outcomes \subseteq BOOLEAN
  /\ BodyBlocks \in Nat \ {0} /\ Capacity \in Nat \ {0}
  /\ MaxRuns \in Nat /\ MaxConns \in Nat

\* The n-th CGI run of a thread.
Run == Threads \X (1..MaxRuns)

\* What a number can be open on: the two ends of the pipe of a run, a client of
\* a thread, the temporary file of a client's number, the standard input.
ReadEnd(r)  == [kind |-> "read", of |-> r]
WriteEnd(r) == [kind |-> "write", of |-> r]
Client(t)   == [kind |-> "client", of |-> t]
Tmp(c)      == [kind |-> "tmp", of |-> c]
Stdin       == [kind |-> "stdin", of |-> 0]
Closed      == [kind |-> "closed", of |-> 0]

PipeEnds == {ReadEnd(r) : r \in Run} \cup {WriteEnd(r) : r \in Run}
Opened   == PipeEnds \cup {Client(t) : t \in Threads} \cup {Tmp(c) : c \in Numbers}
              \cup {Stdin}

\* What a temporary file holds, if it is there: nothing, what the child of a run
\* writes when it cannot execute the program, or the program's output, which
\* tells the run whose body it was given.  The header of an output may have no
\* Status line, or nothing behind it.
NoFile == [kind |-> "none", of |-> 0]
Empty  == [kind |-> "empty", of |-> 0]
Junk   == [kind |-> "junk", of |-> 0]
OutputFor(bodies) == [kind |-> "output", of |-> bodies]
Unheaded(bodies)  == [kind |-> "unheaded", of |-> bodies]
Outputs(bodies)   == {OutputFor(bodies), Unheaded(bodies)}

VARIABLES
  table,    \* the server's descriptors
  clients,  \* the numbers each thread has in its clientMap
  pc,       \* where each thread is
  runs,     \* how many CGI runs each has begun
  mine,     \* its locals: cl->getSocket(), tmp_fd and fd[]
  child,    \* the child of each run
  written,  \* the bodies written, or begun, to the pipe of each run
  unread,   \* the blocks in the pipe of each run
  target,   \* what the write() of a thread is writing to
  rest,     \* the blocks it has not written yet
  tmp,      \* the temporary file of each number
  lost,     \* history: what a dup2() of another thread closed
  running   \* FALSE: the process was killed

vars == <<table, clients, pc, runs, mine, child, written, unread, target, rest, tmp, lost, running>>
transfer == <<unread, target, rest>>

NoLocals == [sock |-> 0, tmp_fd |-> 0, in |-> 0, out |-> 0]
NoChild  == [state |-> "none", stdin |-> Closed, stdout |-> Closed, holds |-> {}]

Init ==
  /\ table = [n \in Numbers |-> Closed]
  /\ clients = [t \in Threads |-> {}]
  /\ pc = [t \in Threads |-> "idle"]
  /\ runs = [t \in Threads |-> 0]
  /\ mine = [t \in Threads |-> NoLocals]
  /\ child = [r \in Run |-> NoChild]
  /\ written = [r \in Run |-> {}]
  /\ unread = [r \in Run |-> 0]
  /\ target = [t \in Threads |-> Closed]
  /\ rest = [t \in Threads |-> 0]
  /\ tmp = [n \in Numbers |-> NoFile]
  /\ lost = {}
  /\ running = TRUE

Current(t) == <<t, runs[t]>>

\* The kernel gives the lowest free number.
FreeNumbers == {n \in Numbers : table[n] = Closed}
Lowest      == Min(FreeNumbers)
NextLowest  == Min(FreeNumbers \ {Lowest})

\* Can pipe end e still be used, by the server, by a write() that has begun or by
\* a child that runs?
Held(e) ==
  \/ \E n \in Numbers : table[n] = e
  \/ \E t \in Threads : pc[t] = "writing" /\ target[t] = e
  \/ \E r \in Run : child[r].state \in {"reading", "failing"} /\ e \in child[r].holds

Go(t, from, to) == pc[t] = from /\ pc' = [pc EXCEPT ![t] = to]

----------------------------------------------------------------------------
(* The event loop around a CGI run.                                        *)

Accept(t) ==
  /\ pc[t] = "idle" /\ Cardinality(clients[t]) < MaxConns /\ FreeNumbers # {}
  /\ table' = [table EXCEPT ![Lowest] = Client(t)]
  /\ clients' = [clients EXCEPT ![t] = @ \cup {Lowest}]
  /\ UNCHANGED <<pc, runs, mine, child, written, tmp, transfer, lost, running>>

Disconnect(t) ==
  /\ pc[t] = "idle"
  /\ \E c \in clients[t] :
       /\ table' = [table EXCEPT ![c] = Closed]
       /\ clients' = [clients EXCEPT ![t] = @ \ {c}]
  /\ UNCHANGED <<pc, runs, mine, child, written, tmp, transfer, lost, running>>

----------------------------------------------------------------------------
(* executeCgi(), in the thread.                                            *)

OpenTmp(t) ==
  /\ Go(t, "idle", "pipe") /\ runs[t] < MaxRuns /\ FreeNumbers # {}
  /\ runs' = [runs EXCEPT ![t] = @ + 1]
  /\ \E c \in clients[t] :
       /\ table' = [table EXCEPT ![Lowest] = Tmp(c)]
       /\ tmp' = [tmp EXCEPT ![c] = Empty]
       /\ mine' = [mine EXCEPT ![t] = [NoLocals EXCEPT !.sock = c, !.tmp_fd = Lowest]]
  /\ UNCHANGED <<clients, child, written, transfer, lost, running>>

Pipe(t) ==
  /\ Go(t, "pipe", "fork") /\ Cardinality(FreeNumbers) > 1
  /\ table' = [table EXCEPT ![Lowest] = ReadEnd(Current(t)), ![NextLowest] = WriteEnd(Current(t))]
  /\ mine' = [mine EXCEPT ![t].in = Lowest, ![t].out = NextLowest]
  /\ UNCHANGED <<clients, runs, child, written, tmp, transfer, lost, running>>

\* Mutant: the child closes the wrong end.
InheritedWrongEnd(t) == {table[n] : n \in Numbers \ {mine[t].in}} \cap PipeEnds

\* The pipe ends a child keeps: all the process has, but for fd[1].
Inherited(t) == {table[n] : n \in Numbers \ {mine[t].out}} \cap PipeEnds

\* The child's own close() and dup2() calls are part of it: nobody sees them.
Fork(t) ==
  /\ Go(t, "fork", "closeIn")
  /\ \E runs_it \in Outcomes :
       child' = [child EXCEPT ![Current(t)] =
         [state |-> IF runs_it THEN "reading" ELSE "failing",
          stdin |-> table[mine[t].in], stdout |-> table[mine[t].tmp_fd],
          holds |-> Inherited(t)]]
  /\ UNCHANGED <<table, clients, runs, mine, written, tmp, transfer, lost, running>>

CloseIn(t) ==
  /\ Go(t, "closeIn", "write")
  /\ table' = [table EXCEPT ![mine[t].in] = Closed]
  /\ UNCHANGED <<clients, runs, mine, child, written, tmp, transfer, lost, running>>

\* Mutant: more is written than the body has.
WriteTooMuch(t) ==
  /\ pc[t] = "write"
  /\ LET e == table[mine[t].out] IN
     \/ /\ e.kind = "write"
        /\ pc' = [pc EXCEPT ![t] = "writing"]
        /\ target' = [target EXCEPT ![t] = e]
        /\ rest' = [rest EXCEPT ![t] = BodyBlocks + 1]
     \/ /\ e.kind # "write"
        /\ pc' = [pc EXCEPT ![t] = "closeOut"]
        /\ UNCHANGED <<target, rest>>
  /\ UNCHANGED <<table, clients, runs, mine, child, written, unread, tmp, lost, running>>

\* write() fails when fd[1] is not the write end of a pipe any more.
Write(t) ==
  /\ pc[t] = "write"
  /\ LET e == table[mine[t].out] IN
     \/ /\ e.kind = "write"
        /\ pc' = [pc EXCEPT ![t] = "writing"]
        /\ target' = [target EXCEPT ![t] = e]
        /\ rest' = [rest EXCEPT ![t] = BodyBlocks]
     \/ /\ e.kind # "write"
        /\ pc' = [pc EXCEPT ![t] = "closeOut"]
        /\ UNCHANGED <<target, rest>>
  /\ UNCHANGED <<table, clients, runs, mine, child, written, unread, tmp, lost, running>>

\* The pipe takes another block, if it is not full.  A pipe no one can read from
\* kills the process by SIGPIPE.
WriteBlock(t) ==
  /\ pc[t] = "writing"
  /\ LET r    == target[t].of
         last == rest[t] = 1
     IN
     \/ /\ Held(ReadEnd(r)) /\ unread[r] < Capacity
        /\ pc' = [pc EXCEPT ![t] = IF last THEN "closeOut" ELSE @]
        /\ written' = [written EXCEPT ![r] = @ \cup {Current(t)}]
        /\ unread' = [unread EXCEPT ![r] = @ + 1]
        /\ rest' = [rest EXCEPT ![t] = @ - 1]
        /\ target' = [target EXCEPT ![t] = IF last THEN Closed ELSE @]
        /\ UNCHANGED running
     \/ /\ ~Held(ReadEnd(r))
        /\ pc' = [pc EXCEPT ![t] = "closeOut"]
        /\ running' = FALSE
        /\ UNCHANGED <<written, transfer>>
  /\ UNCHANGED <<table, clients, runs, mine, child, tmp, lost>>

\* Mutant: fd[1] stays open.
CloseOutNever(t) ==
  /\ Go(t, "closeOut", "closeTmp")
  /\ UNCHANGED <<table, clients, runs, mine, child, written, tmp, transfer, lost, running>>

CloseOut(t) ==
  /\ Go(t, "closeOut", "closeTmp")
  /\ table' = [table EXCEPT ![mine[t].out] = Closed]
  /\ UNCHANGED <<clients, runs, mine, child, written, tmp, transfer, lost, running>>

\* Mutant: tmp_fd stays open.
CloseTmpNever(t) ==
  /\ Go(t, "closeTmp", "wait")
  /\ UNCHANGED <<table, clients, runs, mine, child, written, tmp, transfer, lost, running>>

\* Mutant: fd[0] is closed a second time.
CloseInAgain(t) ==
  /\ Go(t, "closeTmp", "wait")
  /\ table' = [table EXCEPT ![mine[t].tmp_fd] = Closed, ![mine[t].in] = Closed]
  /\ UNCHANGED <<clients, runs, mine, child, written, tmp, transfer, lost, running>>

CloseTmp(t) ==
  /\ Go(t, "closeTmp", "wait")
  /\ table' = [table EXCEPT ![mine[t].tmp_fd] = Closed]
  /\ UNCHANGED <<clients, runs, mine, child, written, tmp, transfer, lost, running>>

\* Mutant: the result is not waited for.
WaitNot(t) ==
  /\ Go(t, "wait", "dup")
  /\ UNCHANGED <<table, clients, runs, mine, child, written, tmp, transfer, lost, running>>

Wait(t) ==
  /\ Go(t, "wait", "dup") /\ child[Current(t)].state \in {"done", "failed"}
  /\ child' = [child EXCEPT ![Current(t)] = NoChild]
  /\ UNCHANGED <<table, clients, runs, mine, written, tmp, transfer, lost, running>>

\* dup2(0, fd[0]): the number was closed above and is anybody's since.
Dup(t) ==
  /\ Go(t, "dup", "parse")
  /\ lost' = IF table[mine[t].in] \in {Closed, Stdin} THEN lost
             ELSE lost \cup {table[mine[t].in]}
  /\ table' = [table EXCEPT ![mine[t].in] = Stdin]
  /\ UNCHANGED <<clients, runs, mine, child, written, tmp, transfer, running>>

\* parseCGI() reads the file of the client's number and removes it.  Without a
\* Status line that another line follows it looks for the rest of the header at a
\* position behind the end (find() gave npos, or no '\r' stops the search): the
\* substr() there throws out_of_range, which nobody catches, unless the byte that
\* lies there moves the position on.
ParseCgi(t) ==
  \/ /\ Go(t, "parse", "idle")
     /\ tmp' = [tmp EXCEPT ![mine[t].sock] = NoFile]
     /\ mine' = [mine EXCEPT ![t] = NoLocals]
     /\ UNCHANGED <<table, clients, runs, child, written, transfer, lost, running>>
  \/ /\ pc[t] = "parse" /\ tmp[mine[t].sock].kind # "output"
     /\ running' = FALSE
     /\ UNCHANGED <<table, clients, pc, runs, mine, child, written, tmp, transfer, lost>>

----------------------------------------------------------------------------
(* The children.                                                           *)

Exit(r, state, text) ==
  /\ child' = [child EXCEPT ![r].state = state]
  /\ tmp' = IF child[r].stdout.kind = "tmp"
              THEN [tmp EXCEPT ![child[r].stdout.of] = text] ELSE tmp
  /\ UNCHANGED <<table, clients, pc, runs, mine, written, transfer, lost, running>>

\* The program reads its input, block by block.
ReadBlock(r) ==
  /\ child[r].state = "reading"
  /\ LET in == child[r].stdin IN
     /\ in.kind = "read" /\ unread[in.of] > 0
     /\ unread' = [unread EXCEPT ![in.of] = @ - 1]
  /\ UNCHANGED <<table, clients, pc, runs, mine, child, written, target, rest, tmp, lost, running>>

\* At the end of its input, which is when no one can write to the pipe any more,
\* it writes its output.  The input may be another one.
Compute(r) ==
  /\ child[r].state = "reading"
  /\ LET in == child[r].stdin IN
     \/ /\ in.kind = "read" /\ unread[in.of] = 0 /\ ~Held(WriteEnd(in.of))
        /\ \E text \in Outputs(written[in.of]) : Exit(r, "done", text)
     \/ in.kind # "read" /\ \E text \in Outputs({}) : Exit(r, "done", text)

ExecveFails(r) ==
  /\ child[r].state = "failing"
  /\ Exit(r, "failed", Junk)

----------------------------------------------------------------------------
ExecuteCgi(t) ==
  \/ Pipe(t) \/ Fork(t) \/ CloseIn(t) \/ Write(t) \/ WriteBlock(t) \/ CloseOut(t)
  \/ CloseTmp(t) \/ Wait(t) \/ Dup(t) \/ ParseCgi(t)

Next ==
  /\ running
  /\ \/ \E t \in Threads : Accept(t) \/ Disconnect(t) \/ OpenTmp(t) \/ ExecuteCgi(t)
     \/ \E r \in Run : ReadBlock(r) \/ Compute(r) \/ ExecveFails(r)

Spec == Init /\ [][Next]_vars

\* The scheduler runs the threads and the children.
FairSpec ==
  /\ Spec
  /\ \A t \in Threads : WF_vars(running /\ ExecuteCgi(t))
  /\ \A r \in Run : WF_vars(running /\ (ReadBlock(r) \/ Compute(r) \/ ExecveFails(r)))

----------------------------------------------------------------------------
(* Types.                                                                  *)

Places == {"idle", "pipe", "fork", "closeIn", "write", "writing", "closeOut", "closeTmp",
           "wait", "dup", "parse"}

File == {NoFile, Empty, Junk} \cup {OutputFor(bodies) : bodies \in SUBSET Run}
                              \cup {Unheaded(bodies) : bodies \in SUBSET Run}

\* Every variable has its type.
TypeOK ==
  /\ table \in [Numbers -> Opened \cup {Closed}]
  /\ clients \in [Threads -> SUBSET Numbers]
  /\ pc \in [Threads -> Places]
  /\ runs \in [Threads -> 0..MaxRuns]
  /\ mine \in [Threads -> [sock : Numbers \cup {0}, tmp_fd : Numbers \cup {0},
                           in : Numbers \cup {0}, out : Numbers \cup {0}]]
  /\ child \in [Run -> [state : {"none", "reading", "failing", "done", "failed"},
                        stdin : Opened \cup {Closed},
                        stdout : Opened \cup {Closed}, holds : SUBSET PipeEnds]]
  /\ written \in [Run -> SUBSET Run]
  /\ unread \in [Run -> 0..Capacity]
  /\ target \in [Threads -> Opened \cup {Closed}]
  /\ rest \in [Threads -> 0..BodyBlocks]
  /\ tmp \in [Numbers -> File]
  /\ lost \subseteq Opened
  /\ running \in BOOLEAN

----------------------------------------------------------------------------
(* Threads that share the descriptor table.                                *)

\* Is the number n of thread t still open on e, or was that lost to a dup2()?
Keeps(n, e) == table[n] = e \/ e \in lost

\* Between opening and closing, each number a thread knows (its clients, tmp_fd,
\* both ends of the pipe) is open on what it was opened on: the only step of
\* another thread that can replace it is the dup2() at the end of executeCgi().
NumbersKept ==
  \A t \in Threads :
    /\ \A c \in clients[t] : Keeps(c, Client(t))
    /\ pc[t] \in {"pipe", "fork", "closeIn", "write", "writing", "closeOut", "closeTmp"} =>
         Keeps(mine[t].tmp_fd, Tmp(mine[t].sock))
    /\ pc[t] \in {"fork", "closeIn"} => Keeps(mine[t].in, ReadEnd(Current(t)))
    /\ pc[t] \in {"fork", "closeIn", "write", "writing", "closeOut"} =>
         Keeps(mine[t].out, WriteEnd(Current(t)))

\* A request gets the output of its own run, computed from its own body (or what
\* the child says when it cannot execute the program), whatever other threads run
\* meanwhile, as long as no dup2() has taken a descriptor.
OutputIsOwn ==
  \A t \in Threads :
    lost = {} /\ pc[t] = "parse" =>
      tmp[mine[t].sock] \in Outputs({Current(t)}) \cup {Junk}

\* When no thread is in executeCgi(), the numbers open are the clients and copies
\* of the standard input: a run leaves such a copy behind, and nothing else.
OnlyStdinLeft ==
  lost = {} /\ (\A t \in Threads : pc[t] = "idle") =>
    LET left == {n \in Numbers : table[n] = Stdin}
        ran  == {r \in Run : r[2] <= runs[r[1]]}
    IN /\ Numbers \ FreeNumbers = left \cup UNION {clients[t] : t \in Threads}
       /\ ran # {} => left # {}
       /\ Cardinality(left) <= Cardinality(ran)

\* A CGI run kills the process only in two places: in its write(), when the child
\* has ended because it could not execute the program, or when a dup2() has taken
\* the read end of the pipe; and in parseCGI(), when what the run itself has left
\* in the file has no proper Status line, or when a dup2() has taken a descriptor.
KilledOnlyForCause ==
  ~running =>
    \E t \in Threads :
      \/ /\ pc[t] = "closeOut"
         /\ child[Current(t)].state = "failed" \/ ReadEnd(Current(t)) \in lost
      \/ /\ pc[t] = "parse"
         /\ tmp[mine[t].sock] \in {Junk, Unheaded({Current(t)})} \/ lost # {}

\* Children that wait for each other: r's input ends when s's child does.
WaitsFor(r, s) ==
  /\ child[r].state = "reading" /\ child[s].state = "reading"
  /\ child[r].stdin.kind = "read" /\ WriteEnd(child[r].stdin.of) \in child[s].holds

Crossed == \E r, s \in Run : WaitsFor(r, s) /\ WaitsFor(s, r)

\* Each CGI run ends, unless two children were forked while both threads had the
\* write ends of their pipes open, so that each holds the other's.
EndsUnlessCrossed ==
  \A t \in Threads :
    pc[t] = "pipe" ~> pc[t] = "idle" \/ Crossed \/ ~running \/ lost # {}

=============================================================================

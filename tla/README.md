# Formal models of webserv

TLA+ models of the HTTP server in `src/src/` (C++98, kqueue, one thread for each
listening port), model-checked with TLC, and theorems about each of them proved with TLAPS.
All paths below are relative to `src/src/` unless they say otherwise.

## The system

| part | state | operations | interacts with |
|---|---|---|---|
| Startup (`main.cpp`) | `g_servers`, one thread per distinct port | parse the configuration, start servers | Configuration, Server |
| Server event loop (`Server.cpp` 53-279, `Client.*`, `SendQueueItem.hpp`) | `kq`, `event_list[1024]`, `clientMap`, and for each `Client` the request being received and a queue of responses with offsets | `run`, `accept_new_client`, `disconnected_client`, `readClient`, `writeClient`, `sendResponse` | kernel (kqueue, sockets), parser, handlers |
| Request parser (`HTTPRequest.cpp`, `HTTPMessage.cpp`, `ByteBuffer.*`) | buffer with read and write position, status, headers, chunk counters, body so far | `parse` after each segment, resumed where the last call stopped | event loop |
| Dispatch (`Server.cpp` 281-383) | `serv_config` (replaced by a request's Host), `resHost`, `isCgi` | `handleRequest`, `check_allowed_methods` | Configuration, handlers |
| Handlers and resources (`Server.cpp` 385-678, `ResourceHost.cpp`) | files on a disk shared by all threads | GET, HEAD, POST, PUT, DELETE, directory index and listing | disk, CGI |
| CGI (`Server.cpp` 444-514, 751-844) | pipe, child, temporary file named after the socket | `executeCgi`, `parseCGI`, `setEnv` | kernel, handlers |
| Configuration (`Config.cpp`, `ServerConfig.cpp`) | token list and iterator, `ServerConfig` tree | `tokenize`, one parse function per directive | Startup |
| Rendering (`HTTPResponse.cpp`), `libft.cpp` | - | format a response, convert numbers | handlers |

What is hard here: events returned in one batch outlive the connections they
were reported for; descriptor numbers are reused at once; `send()` and `recv()`
take any part of what is offered; requests are cut into segments anywhere; the
threads share a disk, static libc buffers, the descriptor table and `fork()`.
`PROJECT.json` lists each hazard at its line.

What makes each part correct: the loop never mixes up connections and delivers
each response stream in order; the parser's verdict depends on the bytes of a
request and not on the segments; dispatch serves a request by the configuration
its Host and path select; a handler's answer tells what happened to the file;
CGI returns its descriptors and always ends; a configuration means the same
however its directives are laid out.

## Modules

| module | what it is |
|---|---|
| `EventLoop` | one `Server` thread with its peers and the kernel |
| `ResponseStream` | abstract: what a peer observes of the loop |
| `EventLoopProofs` | all safety properties of `EventLoop`, proved: types, descriptor ownership, pending events and reasons for closing, the streams of responses and the refinement of `ResponseStream`, the order of answers |
| `MCEventLoop` + 3 cfgs | instances of `EventLoop` |
| `ByteBuffer` | the buffer operations the parser uses, as operators on a record |
| `RequestParser` | `HTTPRequest::parse()` as an incremental machine |
| `RequestGrammar` | requests as peers write them, their expected outcome, the parser's properties |
| `RequestParserProofs` | types, that the buffer holds the unparsed end, where the read position is, that well-formed requests are read, and that verdict and body do not depend on the segments, proved |
| `MCRequestParser` + 2 cfgs | instances of `RequestParser` |
| `Dispatch` | one thread for each port; virtual host, location, method, redirection, CGI or not |
| `DispatchProofs` | all properties of `Dispatch`, proved |
| `MCDispatch` + 1 cfg | servers in the shape of `webserv.conf` |
| `FileRequests` | the requests, bodies and responses of the handlers |
| `Handlers` | the handlers of several threads on one disk, one step for each system call |
| `HandlersProofs` | all safety properties of `Handlers`, proved |
| `HandlersStoreProofs` | threads whose files are their own implement `FileStore`, proved |
| `FileStore` | abstract: each request done as a whole |
| `MCHandlers` + 4 cfgs | instances of `Handlers` |
| `Cgi` | `executeCgi()` of several threads with one table of descriptors, and the children |
| `CgiProofs` | all safety properties of `Cgi`, proved: types, descriptor numbers, whose output a request gets, what kills the process, what a run leaves open |
| `LibraryLemmas` | of the community modules' operators: `Min` returns a set's member and least, and where the pieces of a `FlattenSeq` stand in it, proved |
| `MCCgi` + 1 cfg | an instance of `Cgi` |
| `ConfigParser` | `tokenize()`, `parseConfig()` and the directives: an iterator over tokens |
| `ConfigFile` | what a file says by its lines and blocks, and the properties that compare the two |
| `ConfigProofs` | types, that every pass of the parser advances, when its tokens are overrun, and that a well-formed file is read as it is written, proved |
| `MCConfigFile` + 1 cfg | small files for `ConfigParser` |

### EventLoop

State: for each connection what the kernel knows (`peer`, `backlog`, `inbox`),
and whether its send buffer is full (`full`), for each descriptor number the
connection it is open on (`sock`), the registered filters (`watched`), the events returned and not yet handled (`event_list`), and
the server's own `clientMap`, `req` and `sendQueue`, which the code keeps in
`Client` objects and the model indexes by descriptor. `running` and `hung` say
whether the process is there and whether the thread still returns from what it
does. `answers`, `ignored`, `total` and `wire` are history variables. An event carries the connection it was reported
for, which the program cannot see.

Actions: `Connect`, `Send`, `Leave` and `Drain` (the peer reads, and there is room
in its send buffer again) are the peers. `Poll` is the call of
`kevent()`: it returns any set of due events, as many as `event_list` holds.
`Handle` is one pass of the loop over `event_list` and runs to its end, as in the
code: accept, skip a number that is not in `clientMap`, close on `EV_EOF`,
`ReadClient` (`recv` of any part of what is there, `parse`, the handler, delete the
request) or `WriteClient` (`send` of any part of the first item, which may fill
the buffer).
Events of a batch are handled in any order, since kqueue promises none.

Abstractions. A request is two pieces ("first", "last"), or one piece "junk"
that is rejected, or a piece "bad" that is rejected before its "last" piece
comes, or begins with "trailer", a request whose end `parse()` never sees, or with
"endless", a negative chunk size, on which `parse()` does not return. What a
handler does with a complete request is the subject of `Dispatch`, `Handlers` and
`Cgi`; the loop sees one of four outcomes, and `Parse` has them all: one response is
queued; none is, because no case of the switch fits the method (`ignored`); the
handler does not return (`Hang`: an error page that cannot be read, `write()` or
`waitpid()` of `executeCgi()`), and then only the peers and the kernel go on; it
ends the process (`Die`: NULL, an exception, SIGPIPE). When bytes were dropped and the rest does not begin at the beginning of
a request, `parse()` may return anything. A response has a size; one unit
is half of the 1300 bytes one `send()` is asked for at most. `accept()` may give
any free number (other threads take and return descriptors) and fails when none
is left or the peer has reset. `send()` to a peer that has reset either fails or
raises SIGPIPE, which ends the process (`running`). What threads of other ports
do is in the other modules: that one of them ends the process is left out, as it
stops everything here at once. After the process is killed
nothing moves. Each peer connects once. `kqTimeout` is never passed to
`kevent()` and is left out; so is `stop_server()`, which no execution reaches.

### ResponseStream

Each connection is served at most once; while it is served, whole responses are
queued, and the next bytes of their stream are sent. `EventLoop` implements it
with `phase` mapped to accepted or gone, `queued` to `total`, `received` to
`wire` and `up` to `running`.

### ByteBuffer and RequestParser

A symbol is a byte (CR, LF, body data) or a text the parser never splits (start
line, header, chunk size): text without CR LF behaves like one byte for every
operation that looks at positions. `Receive` appends the next segment, cut
anywhere, and calls `parse()`; each pass of `parse()`'s loops is an action that
carries the guards and the buffer operations of the code. Positions are unsigned:
they wrap at `Word`, which stands for 2^32 and exceeds every buffer here.
`getLine()` cannot tell "no line yet" from "empty line", and its callers rely on
the read position instead; this is kept. Headers are reduced to what
`parse()` looks at: a `Transfer-Encoding` that is `chunked` or not, a `Content-Length`
with or without a digit, no colon, other. Of several with one name the first counts,
since `addHeader()` inserts into a map; a field is spelled one way within a
request. `strtol()` of a line that is no chunk size gives one of `TextSizes` (0,
or a number, where the line begins with hexadecimal digits): no line of the requests
here comes to that, the theorems hold for any such set.

`RequestGrammar` renders a request from its parts (`Message`) and says what it should
come to (`Outcome`), without buffers or positions; the properties compare the two. `MessagesAssumption`
asks of a message that its values are those the symbols have and that no chunk but
the last is empty: an empty one would be the last. A request may
have an empty line before its start line or before a chunk size (`blank`):
`parse()` then returns with bytes still unread, and `SegmentationIndependent`
excuses a request that ends there. `ReadPosAtFront` says what can leave the
read position elsewhere than at the front after a step: empty lines where a start line or
a chunk size is due (`OnlyEmptyLinesRead`), and something else where the CR LF of a
chunk is due, below which the position walks (`StrayAtChunkEnd`). A chunk size may be negative: the chunk loop
then consumes nothing, and `ParseReturns` excuses it.

`WellFormed` says of a stream, symbol by symbol and without a message it was
rendered from, that it is a request whose end can be told: header lines with colons, and for
a method with a body chunks with sizes that are not negative, the empty one last and
no trailer. `WellFormedIsRead` says what such a request comes to and is what is proved
for streams of any length; `WellFormedAssumption` in `MCRequestParser` has TLC
compare `WellFormed` of each rendered message with what the message is made of.

### Dispatch

State: whether each thread listens (`status`), and of its `Server` object the two
members that outlive a request: `chosen`, the configuration copied into
`serv_config`, and `isCgi`. `routed` is a history variable: which requests a
thread has had and what became of them, as a set, so that a request that comes
again is remembered twice only when it was treated differently.

`Threads` is `main()`: one for each listen string, started with the first such
server. Strings that differ may name one port (`PortNumber`), and then one of the
two threads stays down. `ConfigDir`, `RequestUri` and `Acceptable` are
`checkUri()` over the segments of a URL. `HandleRequest` first takes `Selected`:
the first server of the listen string with the name that Host gives, and
otherwise what is in `serv_config` already, and stays there. `Place` is the
location, the first one when none fits. Then one of `RefuseMethod`, `Redirect`,
`Handle` and `Crash` (`getLocations()[0]` of no locations). `Handle` does not ask
what the handler does. A method the server does not know, which a location allows
by an empty name, fits no case of the switch: nobody answers, and `isCgi` is not
reset.

### ConfigParser and ConfigFile

A file is a sequence of lines of words; a word may end in ';', which `tokenize()`
makes a token of its own. `ConfigParser` is the code: `tokenize()` looks for the
';' of some directives only (`Checked`) and for blocks closed before they are
opened; then one iterator (`at`) passes all tokens, and the stack `blocks` holds
the `ServerConfig`s under construction. Each directive reads the tokens up to
`LastRead` and leaves the iterator at `NextLook`, which passes one token unseen.
A location starts as a copy of its server so far. Nothing compares the iterator
with `end()`: where the code would read past the tokens the state is "beyond".
`Stoi` and `Comma` are the conversions of the strings that occur.

`ConfigFile` reads the same file by lines and nesting levels, as functions of the file
alone: `Written` is what it says, `WellFormed` which files say something. A block is the
lines between the one that opens it and the next that is no deeper; what a
location says is what its own lines say and what its server has said above it (`LocationLines`),
a list in the order of the lines and of other directives the last. `LinesWellFormed` asks each line alone
to be one of five kinds: opening a server or a location (whose uri must be none of the
words the parser acts on), closing a block, a complete directive, or saying nothing.

### FileRequests, Handlers and FileStore

State: the disk (`directory`, `link` from paths to inodes, `content` of inodes),
and for each thread its program counter, the locals of the handler that runs
(`job`) and the response it queued last. A request is picked when the thread is
idle; after that every system call is a step: `Stat` and `StatIndex` of
`getResource()`, `Open`, `Read` block by block, `EndRead`, `OpenToWrite`, `Write`
block by block, `Close`, `Delete`. What the code does between two system calls
belongs to the step before. `AnswerGet`, `Stored`, `SendResponse` and
`SendStatusResponse` are the endings of the handlers.

Kept as the code has it: `std::ofstream` without `app` empties the file when it
is opened and then writes at the thread's own offset; a POST to what exists
does not notice a file it cannot open, and looks the path up a second time; a
response has the size the resource had in `stat()`; the size limit is compared
with the body of the response; a POST that creates a file promises a body it
does not send; a DELETE is answered with 200 whether or not `remove()` worked;
reading the error page or `dirPage.html` never ends when it cannot be opened
(place "hung").

Abstractions. A block is what one `read()` or `write()` moves. There is one
directory with an index file; which pages can be read is chosen at the start
(`readable`, one of `Readables`), and a location with autoindex is one where
"dirPage" can be. A CGI
run is one step that turns the body into its output (module `Cgi` has the
steps, and what an output without a Status line does; here it has one). The
directory is named with its '/' at the end, so that opening it for writing fails
whether it is there or not. Files are readable by their owner and not hidden; nobody else removes or
creates directories. `intact` is a history variable: has another thread touched
the file this thread looked up?

`FileStore` has no system calls, inodes or threads in the middle of a request: a
request changes the disk at once and is answered. `Handlers` implements it when
the files of the threads are disjoint: `file` is what is on the disk and what
the writer of the inode still has to write, `owed` the answer of a thread that
has opened the file for writing.

### Cgi

State: `table` of the process' descriptors, `clients` of each thread, the locals
of `executeCgi()` (`mine`), the child of each run with what it inherited, the
bodies `written` to each pipe, the temporary files. Each system call of
`executeCgi()` is an action of its own; `Accept` and `Disconnect` are those of the
event loop. `Compute` and `ExecveFails` are the child; its calls between `fork()`
and `execve()` are part of `Fork`, since they touch nothing others see. `lost` is
a history variable: what a `dup2()` of another thread has closed.

A body has `BodyBlocks` blocks and a pipe holds `Capacity` of them. `Write` begins
the `write()`: it looks the descriptor up once (`target`) and holds what it found,
whatever other threads do with the number. `WriteBlock` is one block of it, blocks
while the pipe is full and raises SIGPIPE when nobody holds the read end;
`ReadBlock` is the child.

`ParseCgi` reads and removes the file. The code takes a Status line for granted:
when the file has none, or nothing behind it, `find()` gives npos, and the `substr()` at
`Server.cpp:475` throws `std::out_of_range`, which ends the process. That is always so after a
failed `execve()`, and may be so for any output (`Unheaded`). Before that,
`header[npos]` is read outside the string, so that nothing is certain and the thread may also go on;
`ParseCgi` has both.

The kernel gives the lowest free number. Descriptors 1 and 2, the listening
sockets and the kqueues are open all the time and left out. Not modelled: a
failing `fork()`, `pipe()` or `open()` (the runs have enough numbers; the code
checks none of them), signals other than SIGPIPE, what `setEnv()` puts into the
environment. `EventLoop` takes it that no other thread touches the numbers of its
connections; `Cgi` shows that `dup2()` at the end of `executeCgi()` may.

## Runs

| run | question | instance |
|---|---|---|
| `reuse` | does everything stay in step when one number passes from one connection to the next, and when a peer does not wait? | 2 connections, 1 descriptor, two requests each, pipelined, so that responses wait behind each other, each of up to 2 sends; under a view that leaves out `phantom` and `ignored`, which no step reads |
| `conversation` | are the responses paired with the requests? Does the loop implement `ResponseStream`? | 2 connections, 2 descriptors, 2 requests each, batches of at most 3 of the 5 events, trailers and negative chunk sizes |
| `liveness` | are connections accepted, requests answered, responses sent, although peers may stop reading? | 2 connections, 2 descriptors, a request each, trailers, handlers that hang, batches hold all due events, no symmetry |
| `segments` | does the verdict depend on the segments? | 72 requests, every way to cut them |
| `content_length` | is a Content-Length of digits accepted, as the message in `HTTPMessage.cpp:171` has it? Violated. | POST with a length |
| `dispatch` | does what a thread has served before change how it serves the next request? | 6 servers on 2 port numbers, 3 listen strings, 14 requests, 3 of them remembered per thread |
| `handlers_threads` | what do lookups return, whose blocks survive, when does `handlePost()` die of its second lookup, and does each request end? | one thread with any request on a directory or its index file, one with two that change the file, pages readable, no symmetry |
| `file_store` | is each request done as a whole? | 2 threads with disjoint files, all methods, limits and CGI, pages all readable or none |
| `second_lookup` | is the file there at the second lookup, the branch being that where it exists (`Server.cpp:528`)? Violated. | 2 threads, one file |
| `too_large` | was the request too large when the answer says so (`HTTPResponse.cpp:94`)? Violated. | 1 thread, limit 1 |
| `cgi` | whose number is it, whose output, what is left open, what kills the process, and does every run end? | 2 threads, one client and one run each, the program can be executed or not, bodies of 2 blocks in a pipe of 1 |
| `config` | is a file read as it is written, and when are its tokens overrun? | servers of up to 3 parts, or of up to 2 of 16 odd lines, left open, closed, or followed by another server |

Bounds. One descriptor and two connections are enough for an event to be stale
and for `accept()` to fail; two descriptors for the
paths of two clients to interleave in one batch; responses of three units for a
first, a middle and a last send. `liveness` has no negative chunk size: what it does
to the thread, a handler that hangs does too. Two chunks are enough for the counters of a
chunk to be reset and used again. Two threads are enough for a file to be touched
between any two system calls of another, and for two children to hold each
other's pipe; files of two blocks for a read or a write to be interrupted in the
middle; three inodes for a file to be removed and made again while it is open
(`MaxServed`, `MaxRuns` and `MaxConns` bound the requests and runs of a thread and
its connections). A pipe of one block under a body of two makes `write()` wait.
`MaxRouted` is three: one request that leaves something behind, and the same
request before and after it. Three parts of a server are enough for a directive
before, in and behind a location, and two odd lines for one to swallow the other. Symmetry is
used for safety only: connections and descriptors are compared and never ordered.
Deadlock is not checked: the server waits in `kevent()` when all peers have gone,
and a request, a CGI run or a file ends.

Fairness. `EventLoop!FairSpec` is weak fairness of `Poll \/ Handle`: the thread
runs `while (1)`, and `kevent()` returns when an event is due. It is not assumed that a
handler returns: when one does not, `hung` is set and the thread has no step left, and
so all three liveness properties excuse a thread that hangs and a process that
has ended. Nor is it assumed that a peer reads: `ResponsesDelivered` asks it only
of the peer the response is for, the other two of nobody. Peers owe nothing. `RequestParser!FairSpec` is weak fairness of `Parse`:
`parse()` runs to its end once called. `ConfigParser!Spec` has weak fairness of its
one thread, which runs alone. `Handlers!FairSpec` is weak fairness of
each thread's `Step`, `Cgi!FairSpec` of each thread inside `executeCgi()` and of each
child: they are threads and processes of a preemptive scheduler, and each step is
disabled only where the system call blocks. No peer has to send a request.

What the runs show beside the properties, kept in the models as the code has it:

- the event loop closes connections by stale events (`DroppedOnlyForCause` needs
  its second reason), loses pipelined requests (`AnswersInOrder` cannot say "all")
  and cuts a closing response after its first `send()` (`ResponsesDelivered` has to
  excuse a closed connection);
- one handler that does not return stops the port, for all its clients and for
  ever (`hung`), and a complete request may be left without an answer (`ignored`,
  and one with a trailer);
- a CGI whose output has no Status line, or that cannot be executed, ends the
  process (`KilledOnlyForCause` has to name it);
- a trailer field behind the last chunk leaves the request unfinished for ever
  (`Outcome`), and a negative chunk size leaves `parse()` in its loop;
- a request whose Host names no server is served by the server the last client
  asked for (`UnnamedServedByLast` cannot say "the first"), and a request that is
  left without an answer makes the next one a CGI run (`CgiOnlyIfOwn` excuses it);
- two threads that fork at once hang each other (`EndsUnlessCrossed` excuses just
  this), and the `dup2()` at line 794 may take a number another thread has been
  given and leaves one descriptor behind for each run (`lost`, `OnlyStdinLeft`);
- a configuration with an open block, or a line without its ';' that
  `tokenize()` does not look at, is read past its last token.

## Proofs

Every theorem holds for all values of the constants that satisfy the named
assumption of its module, and every invariant a theorem rests on is inductive.

**Event loop.** `EventLoopProofs` proves `TypeCorrect` and `OwnershipHolds`, for
all constants that satisfy `EventLoopAssumption`. The invariant is `TypeOK` with
`DescriptorOwnership`: neither is inductive alone, since what `recv()` moves is
typed only when the descriptor belongs to a connection, and a number is only
known to be free when `clientMap` and the open descriptors agree. There is one
lemma for each operation (`DisconnectKeepsInv`, `AcceptKeepsInv`, `ReadKeepsInv`,
`WriteKeepsInv`, `PeersKeepInv`).

`PendingEventsHold` and `DropsHaveCause`: `HandleFootprint` says what handling an
event can do to other connections; from it each pending event stays true
(`HandleKeepsEvent`), because two events of one number differ in their filter and a
connection that is gone never comes back. So an event of the present owner
cannot find its data missing, and only a closing response or a stranger's event
closes a connection whose peer is there.

`WireStaysInOrder`, `QueuesCoverUnsent` and the refinement, `Implements`:
`Covers(q, sent, queued)` says that a queue holds just the units after the first
`sent`, item by item, and is proved to survive an append and an advance by what one
`send()` takes. Every step of the loop is classified once (`NextIsStreamStep`): quiet,
opening, giving up, or on one descriptor closing, responding or transmitting. `StreamInv`
and the refinement are then proved over these cases and not over the actions;
`StreamInv` needs that a connection not yet accepted has been sent nothing
(`NewUnserved`).

`AnswersStayInOrder` and `EachAnsweredOnce`: `Pending(c)` is all that a peer has sent
and nobody has looked at, in the request being received and in the socket. To it
each step sends a piece, replies to a beginning of it, ends the connection or
leaves it alone (`NextIsConversationStep`). `OrderInv` says that the places of the pending
pieces in the peer's stream increase and those of answered requests lie before them:
`AnswersInOrder` speaks of the answers only and says nothing of what a reply may
find. `TurnInv`, for peers that wait, says which pieces can be pending at all.

**Handlers.** `HandlersProofs` proves `TypeCorrect`, `LookupsStayUndisturbed`,
`CrashHasCause` and `AppendsDoSurvive`, for any number of threads, files and inodes.
What a thread relies on while nobody has touched its file is `Undisturbed(t)`: its
place in the handler says whether the path is there, which inode it had and how much
of it has been read. The invariant asks it of each `intact` thread. Every step is shown
to be `Good` for its own thread and to spare the others (`Spares`), so that no step is
looked at for each pair of threads. `LocalsInv` types the locals by the place they
are used in; `DeadInv` keeps what the thread that ended the process has found.

`HandlersStoreProofs` proves `ImplementsStore`: threads that are sent requests about
different files (`FilesApart`) implement `FileStore`. The disk alone does not
tell which request it is in the middle of, so the mapping gives each file what is on the
disk and what its writer still holds (`StoreFile`), and each thread that has opened a
file the answer it will give (`StoreOwed`); the step that opens the file is the
abstract request, those before and after it stutter. That they do is what `AloneInv`
says: what a thread has looked up is still what a lookup would find, and an inode it
writes to holds just what it has written so far. It follows from the invariant
of `HandlersProofs` and from `SparesOthers`: the steps of a thread leave the `Realm` of all
others alone, a directory being in one realm with its index file. `NoneIsNoFile` is
needed to tell a file that is empty from none. The same invariant gives
`ApartSecondLookupFinds`: the second lookup of `handlePost()` fails, and ends the
process, only when another thread is sent requests about the same file; the run
`second_lookup` shows that it then does.

**CGI.** `CgiProofs` proves `TypeCorrect` and `NumbersAreKept`, for any number of
threads, runs, connections and (finitely many) descriptor numbers. The types need
`LocalsSet`: inside `executeCgi()` the locals are numbers. `NumbersKept` is not
inductive: that a `close()` of one thread does not take the number of another
needs `OwnNumbers`, by which a number in use is in use by one thread for one
thing only, and is not free even after a `dup2()` has replaced it, so that the
kernel gives it to nobody else. Three lemmas say what opening, closing and other
steps need for that (`OpeningKeepsOwn`, `ClosingKeepsOwn`, `StayingKeepsOwn`), and
one lemma for each group of system calls applies them.

`KilledForCause` and `OutputIsOfOwnRun` follow from these. `PipeInv`
says that a child that still reads holds the read end of its own pipe, and that
its thread writes to that pipe or has lost its number to a `dup2()`, so that a
`write()` finds a reader or a child that failed. That `parseCGI()` ends the process
only by what the run itself has left in the file rests on `OutputInv`. `OutputInv` follows one body on its way: written to the
run's pipe only, computed by the child of the run only, and in the file of the
socket's number until the thread reads it, unless something is in `lost`. Other
threads leave that file alone because their sockets differ (`SocksDiffer`).

`OnlyStdinIsLeft` needs a count. `Accounted` says that every open number is a copy
of the standard input or some thread's own, while nothing is in `lost`; the rest of
`LeftInv` is that there are no more copies (`Left`) than runs that are `Over`, and one
at least when there is such a run. The `dup2()` that ends a run makes one
copy, at a number the run has closed before; two runs may have had the same number, one
after the other, which is why the count is a bound.

**Parser.** `RequestParserProofs` proves `TypeCorrect` for any streams, those of no
well-formed request included, and the rest for streams that are shorter than an
unsigned int counts and hold no zero byte (`Ordinary`; `strlen()` ends a segment at
one). For `BufferHoldsTheRest` the invariant is `IsEnd`, the property symbol by
symbol, with `PositionInv`: `erase(0, rpos)` would take too much, and wrap the write
position, if the read position were behind the end, as it may be after the walk
below zero; and `getDataToString()` takes the first bytes while `erase()` goes by the
position, so that position has to be at the front while a chunk lacks data. Each
operation of the buffer has a lemma that says it leaves a `Fit` one.
`PositionAtFront` goes over the loops of `parse()` with these.

`WellFormedRequestsAreRead` says for a well-formed request of any length, cut in any
way, that it is not rejected, is complete with its last byte and no sooner, and
that the data handed over is that of all its chunks in order. The invariant,
`ReadInv`, names how many symbols have been taken at each place of the parser
(`Stands`), a line's end or a place inside a chunk's data, and that `tempBody` is a selection
of just the data before it (`Kept`, in terms of cardinalities and not of a concatenation
over the chunks). Each pass of the loop finds the line it waits for, or not all of it yet:
`WellFormed` says which line comes next, `IsEnd` that the buffer shows it. From the same
invariant, `WellFormedDataKept` and `WellFormedEndsAtEnd` are `ChunkDataKept` and
`CompleteOnlyAtEnd` for well-formed requests. A request with a trailer, a stray empty
line, a negative chunk size or a Content-Length is not well-formed in this sense.

`VerdictIgnoresSegments` is about every message that can be rendered, those included, and
those that are rejected. `RenderIsLaid` turns the text, which is put together by
`FlattenSeq` over headers and chunks, into places: there is a function `o` that says
behind how many symbols each chunk begins, and what stands there (`Laid`). The
invariant, `SegInv`, says for each state of `parse()` how much of the message has been
taken (`Reads`): so many headers, of which it has seen `te` and the first
Content-Length (`HeadRead`), so many chunks and bytes of the next, with just those
bytes in `tempBody` (`DataRead`). Each place is one where the buffer begins (`At`), or
where it lies behind an empty line that was not erased (`Behind`), or, once a
trailer stands where the CR LF of the last chunk is due, one that the read position has
left towards zero and never comes back to (`Below`). Every pass of the
loop takes one of these to another (`SegStartLine` ... `SegNoMore`) and so does a segment
(`SegReceive`). Where the parser stops, the place tells the status (`WhereItStops`). The
premise is `Ordinary` only, and the assumption on `Messages`.

**Dispatch.** `DispatchProofs` proves the four properties of `Dispatch` for every
configuration: that the first location of a server is only taken where there is one
is part of `TypeOK`. `ChosenForCause` says why `serv_config` holds what it holds,
`RoutedAsSaid` that each remembered answer is the function of request and server
the code computes, `CgiForCause` why `isCgi` can be set. `LibraryLemmas` proves that the
community modules' `Min` returns a member below all others, for the kernel's lowest
number and for the first server or location that fits.

**Configuration.** `ConfigProofs` is about files of any number of lines. Induction over
data is out of the prover's reach when it goes through an operator; the lemmas that need it
(`FlattenPlaces`: where the pieces of a concatenation stand in it) take it over a set of
numbers (`Reaches`, from the least member of a finite set).
`TypeCorrect` needs that all tokens are words and that the blocks are typed by some set,
since `blocks` grows in depth. `EveryPassAdvances` says that each pass of the parser's loop, while
tokens are left, moves the iterator on and leaves the tokens alone: it is the
variant behind `ParserEnds`.

`OverrunOnlyIfLeftOpen` proves `BeyondOnlyIfOpen`. Each well-formed line becomes tokens
of one of a few shapes (`LineIsShaped`), of which only the first is looked at: all
behind it are `Passive` or read by the directive itself. `tokenize()`'s count of braces
lets a file through only when no level is negative (`LevelsAreNatural`). `NestInv` then
says that the iterator is at the beginning of a line or among passive tokens, and
that no more blocks are open than the lines passed leave open (`Reading`). So no
directive reads past its own line, and the tokens can be overrun only behind
the last line, with a block open.

`FilesAreReadAsWritten` proves `ReadAsWritten`. The lines stand at places `o` among the tokens
(`LinesAreLaid`), so that each pass of the parser's loop can be said to be at a line.
`tokenize()` does not refuse a well-formed file. The invariant, `WrittenInv`, says that
the iterator is at a line or on the way to the next, and that the stack of blocks and
`g_servers` are what the lines read so far have `Told`: each open block
is `Meaning` of its own lines up to here, a location also of the lines its
server had before it was opened, and each closed one is all it says. `Meaning` selects
lines and concatenates their lists; how it changes when one more line belongs to it
is shown once (`MeaningMore`), and how a line changes what is told once for
each kind of line: saying nothing, opening a server or a location, closing, and a
directive (`SkipTells`, `OpenServerTells`, `OpenLocationTells`, `CloseTells`,
`DirectiveTells`). At the end, with all blocks closed, what is told is `Written`
(`WrittenIsRead`). There is no premise but `ConfigAssumption`, that files are lines of words.

**Only model-checked.** `ChunkDataKept` and `CompleteOnlyAtEnd` beyond well-formed
requests; that `WellFormed` of a rendered message is what the message is made of
(`WellFormedAssumption`), which no theorem rests on; and liveness under fairness,
which is out of the prover's reach: `ResponsesDelivered`, `RequestsAnswered`,
`ConnectionsAccepted`, `RequestsEnd`, `EndsUnlessCrossed`, `ParseReturns` and `ParserEnds` (for
the last, `EveryPassAdvances` is the variant).

## Plan

Done: all parts in the table but rendering are modelled, and every safety property
a passing run checks is stated by a theorem, with both refinements; for `ChunkDataKept` and
`CompleteOnlyAtEnd` the theorem has a premise, that the request is well-formed. What could
be added: the same two for the other rendered requests, from `SegInv`; the bytes of a response
(`HTTPResponse.cpp`), if a property about them is wanted.

## Not modelled

- Response formatting (`HTTPResponse.cpp`), dates and MIME types, and
  `libft.cpp`: conversions without state, no property is about them.
- The functions of `ByteBuffer` and `HTTPMessage` no server path calls.
- Memory management, except where it decides which state survives. A body behind
  an accepted Content-Length is copied into a block that is too small
  (`HTTPMessage.cpp:202`), which has no outcome to model. The arrays of 100 entries
  indexed by descriptors (`Server.hpp:48`) are not in the models; `OnlyStdinLeft`
  shows that numbers grow with each CGI run.
- `stop_server()`, which is unreachable because `run()` never returns, and that
  `main()` waits for its threads.
- Failing `fork()`, `pipe()` and `open()`, the environment of a CGI, and of the
  header it returns all but whether there is a Status line.
- That one thread ends the process under the others, except as `running` of the module
  that thread is in.

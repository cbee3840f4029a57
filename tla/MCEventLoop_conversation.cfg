\* Two clients at once, two requests each, responses of two or three sends, and
\* batches that do not hold all events that are due.
SPECIFICATION Spec
CONSTANTS
  Conns = {c1, c2}
  Fds = {f1, f2}
  ServSock = serv_sock
  NoConn = none
  QSIZE = 3
  MaxReq = 2
  Sizes = {3}
  MaxSend = 2
  Parts = {"first", "last", "junk", "trailer", "endless"}
  Pipelined = FALSE
SYMMETRY Symmetry
INVARIANTS
  OneAnswerEach
PROPERTIES
  ImplementsResponseStream
\* The server waits in kevent() for ever when all peers are gone.
CHECK_DEADLOCK FALSE

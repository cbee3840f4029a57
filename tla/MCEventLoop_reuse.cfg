\* Two connections compete for one descriptor, and send up to two requests each
\* without waiting: the number is reused while events of its last owner are pending,
\* and accept() finds no descriptor left; several responses wait in a queue.
SPECIFICATION Spec
CONSTANTS
  Conns = {c1, c2}
  Fds = {f1}
  ServSock = serv_sock
  NoConn = none
  QSIZE = 3
  MaxReq = 2
  Sizes = {2}
  MaxSend = 2
  Parts = {"first", "last", "bad"}
  Pipelined = TRUE
VIEW View
SYMMETRY Symmetry
INVARIANTS
  TypeOK
  DescriptorOwnership
  PendingEventsTrue
  AnswersInOrder
  WireInOrder
  QueueCoversUnsent
PROPERTIES
  DroppedOnlyForCause
\* The server waits in kevent() for ever when all peers are gone.
CHECK_DEADLOCK FALSE

\* Liveness: two clients, descriptors enough for both, batches that hold every
\* event that is due.  Handlers may hang or end the process, peers may stop
\* reading.  (What a negative chunk size does, a handler that hangs does too.)
\* No symmetry.
SPECIFICATION FairSpec
CONSTANTS
  Conns = {c1, c2}
  Fds = {f1, f2}
  ServSock = serv_sock
  NoConn = none
  QSIZE = 5
  MaxReq = 1
  Sizes = {2}
  MaxSend = 2
  Parts = {"first", "last", "trailer"}
  Pipelined = FALSE
PROPERTIES
  ResponsesDelivered
  RequestsAnswered
  ConnectionsAccepted
\* The server waits in kevent() for ever when all peers are gone.
CHECK_DEADLOCK FALSE

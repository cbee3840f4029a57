SPECIFICATION Spec
CONSTANTS
  Config <- SomeServers
  PortNumber <- Numbers
  Requests <- Asked
  Segments <- AllSegments
  Dotted <- DottedSegments
  Containing <- Exts
  MaxRouted = 3
INVARIANT TypeOK
INVARIANT NamedServedAlike
INVARIANT UnnamedServedByLast
INVARIANT CgiOnlyIfOwn
CHECK_DEADLOCK FALSE

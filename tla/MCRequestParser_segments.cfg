\* Every way to cut each request into segments.
SPECIFICATION FairSpec
CONSTANTS
  Word = 1000
  Methods = {0, 1, 2, 3, 4}
  BodyMethods = {2, 3}
  TextSizes = {0, 1}
  Messages <- MCMessages
  Streams <- MCStreams
INVARIANTS
  TypeOK
  BufferIsUnparsedEnd
  ReadPosAtFront
  ChunkDataKept
  SegmentationIndependent
  WellFormedIsRead
  CompleteOnlyAtEnd
PROPERTIES
  ParseReturns
\* A request ends.
CHECK_DEADLOCK FALSE

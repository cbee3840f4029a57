\* A request with a Content-Length.
SPECIFICATION Spec
CONSTANTS
  Word = 1000
  Methods = {0, 1, 2, 3, 4}
  BodyMethods = {2, 3}
  TextSizes = {0, 1}
  Messages <- LengthMessages
  Streams <- MCStreams
INVARIANTS
  DigitsAccepted
CHECK_DEADLOCK FALSE

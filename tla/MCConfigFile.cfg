SPECIFICATION Spec
CONSTANTS
  Files <- SomeFiles
  Stoi <- SomeStoi
  Comma <- SomeComma
  MaxParts = 3
  MaxOdd = 2
INVARIANT TypeOK
INVARIANT ReadAsWritten
INVARIANT BeyondOnlyIfOpen
PROPERTY ParserEnds
CHECK_DEADLOCK FALSE

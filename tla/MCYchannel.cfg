CONSTANTS
  Kinds = {"array", "fd", "file", "java"}
  Data <- MCData
  Pushable <- MCPushable
  MaxPushed = 2
  Requests <- MCRequests
  Destinations = {"buffer", "null"}
  Lengths = {0, 1, 2}
  NoLength = NoLength
  BufSize = 2
  JavaChunk = 1
  IntLimit = 3
  LongLimit = 12
  Failures = TRUE
SPECIFICATION FairSpec
INVARIANTS
  EofOnlyAtEnd
PROPERTIES
  ImplementsStream
  CountRespectsLength
  ShortReadOnlyAtEnd
  ReadReturns
CHECK_DEADLOCK FALSE

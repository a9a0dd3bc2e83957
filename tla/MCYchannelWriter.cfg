CONSTANTS
  Kinds = {"fd", "file", "java"}
  Requests <- MCRequests
  MaxBytes = 5
  SinkSize = 2
  BufferSize = 2
  ChunkSize = 2
  Failures = TRUE
SPECIFICATION FairSpec
INVARIANTS
  ReportedIsAccepted
PROPERTIES
  FlushedArrives
  ShortWriteOnlyOnFailure
  WriteReturns
CHECK_DEADLOCK FALSE

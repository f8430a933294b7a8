SPECIFICATION FairSpec
CONSTANTS
  None = None
  ChunkSize = 2
  FileSizes <- Sizes
  Resizes <- Resized
  Stops = TRUE
  Consumers = {"eager", "sequential", "pipelined"}
  MaxCalls = 5
INVARIANTS
  TypeOK
  AssertionsHoldUndisturbed
  HalfNotOverwritten
  ChunksExact
  DeliveredOnce
PROPERTIES
  ImplementsChunkStream
  AwaitedCallsAnswered
\* The reader comes to rest when every call has been answered.
CHECK_DEADLOCK FALSE

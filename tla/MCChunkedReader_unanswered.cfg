SPECIFICATION FairSpec
CONSTANTS
  None = None
  ChunkSize = 2
  FileSizes <- Sizes
  Resizes <- NoResize
  Stops = FALSE
  Consumers = {"sequential"}
  MaxCalls = 5
PROPERTY
  EveryCallAnswered
\* The reader comes to rest when every call has been answered.
CHECK_DEADLOCK FALSE

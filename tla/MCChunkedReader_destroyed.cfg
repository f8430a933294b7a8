SPECIFICATION Spec
CONSTANTS
  None = None
  ChunkSize = 2
  FileSizes <- Sizes
  Resizes <- NoResize
  Stops = TRUE
  Consumers = {"eager"}
  MaxCalls = 4
INVARIANT
  AssertionsHold
\* The reader comes to rest when every call has been answered.
CHECK_DEADLOCK FALSE

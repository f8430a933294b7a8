SPECIFICATION ReadersSpec
CONSTANTS
  None = None
  maxBufferSize = 3
  Sizes = {3}
  Kinds = {"Append"}
  Overlaps = {}
  Faulty = {}
  InCallback = FALSE
  Uint32 = 8
  SureChunks = 2
  MaxFaults = 0
  MaxCalls = 4
  chunk_size = 2
  OriginalSizes = {0}
INVARIANT
  WholeStream
\* The buffer comes to rest when every call has been answered.
CHECK_DEADLOCK FALSE

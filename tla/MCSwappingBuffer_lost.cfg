SPECIFICATION Spec
CONSTANTS
  None = None
  maxBufferSize = 3
  Sizes = {1, 3, 4}
  Kinds = {"Append", "Overwrite"}
  Overlaps <- Appending
  Faulty = {}
  InCallback = TRUE
  Uint32 = 8
  SureChunks = 2
  MaxFaults = 0
  MaxCalls = 4
INVARIANT
  NothingLost
\* The buffer comes to rest when every call has been answered.
CHECK_DEADLOCK FALSE

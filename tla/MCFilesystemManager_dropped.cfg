SPECIFICATION Spec
CONSTANTS
  None = None
  Padding = Padding
  Faults = FALSE
  Threads = {t1}
  Paths = {"f", "link"}
  Requests <- ChunkRequests
  Workloads <- Together
  Code <- CodeOf
  PathOf <- MCPathOf
  Pieces <- MCPieces
  InitialFiles <- RegularAndLink
INVARIANT
  EveryRequestPerformed
\* The manager may come to rest with every request answered.
CHECK_DEADLOCK FALSE

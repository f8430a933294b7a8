SPECIFICATION FairSpec
CONSTANTS
  None = None
  Padding = Padding
  Faults = TRUE
  Threads = {t1, t2}
  Paths = {"f", "link"}
  Requests <- MCRequests
  Workloads <- MCWorkloads
  Code <- CodeOf
  PathOf <- MCPathOf
  Pieces <- MCPieces
  InitialFiles <- RegularAndLink
INVARIANTS
  TypeOK
  IInv
  NoLostWakeup
  Pairing
  AtMostOnce
  NoOvertaking
PROPERTIES
  ImplementsSerialFs
  EveryRequestAnswered
  DestructorReturns
\* The manager may come to rest with every request answered.
CHECK_DEADLOCK FALSE

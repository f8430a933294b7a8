SPECIFICATION FairReadersSpec
CONSTANTS
  None = None
  maxBufferSize = 3
  Sizes = {1, 3, 4}
  Kinds = {"Append", "Overwrite"}
  Overlaps <- WaitingReader
  Faulty = {"swap", "local", "rest", "move", "chunk", "copied", "last", "tail", "read", "open", "createDirectory", "removeFile"}
  InCallback = FALSE
  Uint32 = 8
  SureChunks = 2
  MaxFaults = 2
  MaxCalls = 4
  chunk_size = 2
  OriginalSizes = {0, 2, 3}
INVARIANTS
  TypeOK
  NothingLost
  AnsweredOnce
  ReaderThere
  StreamExact
PROPERTIES
  VectorsLeftAlone
  ContentExact
  SizeExact
  EveryCallAnswered
  EveryReadAnswered
\* The buffer comes to rest when every call has been answered.
CHECK_DEADLOCK FALSE

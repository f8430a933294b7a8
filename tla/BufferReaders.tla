--------------------------- MODULE BufferReaders ---------------------------
(* The chunked readers of src/io/async/swap/chunked_readers.cpp, composed   *)
(* with the SwappingBuffer whose content they hand out: the file an Append  *)
(* buffer extends, then its temporary file, then the vector in memory.      *)
(*                                                                          *)
(* A reader is used as the code asks for: its buffer is not called any more *)
(* ("the underlying assumption is that the currentBuffer never changes      *)
(* while we're reading it"), and a chunk is awaited before the next.  The   *)
(* streams over the files are those of ChunkStream, which ChunkedReader     *)
(* implements; they answer through the io_service, and are obliged to for   *)
(* the first calls only.  Data is made of bytes: a piece and a place in it. *)
EXTENDS SwappingBuffer
CONSTANTS
  chunk_size,    \* that of the readers
  OriginalSizes  \* the sizes the file an Append buffer extends may have

\* A byte is a piece and a place in it; a stream knows what it has been asked for.
Byte    == (0..MaxCalls) \X Nat
Streams == [bytes : Seq(Byte), asked : Nat]
Readers == [class : {"append", "overwrite", "cache"}, file : Streams \cup {None},
            tmp_file : Streams \cup {None}, pos : Nat \cup {None}]

ASSUME BufferReadersAssumption ==
  /\ chunk_size \in Nat \ {0} /\ OriginalSizes \subseteq Nat
  /\ None \notin Nat \cup Streams \cup Readers

VARIABLES
  original_size, \* the size of the file that is extended, once it is looked at
  reader,        \* the reader, once there is one
  stopReading,   \* of the sharedinfo: the owner wants the reading to end
  reads,         \* the calls of next_chunk
  got            \* their answers, in the order they came

readerVars == <<original_size, reader, stopReading, reads, got>>

allVars == <<vars, readerVars>>

\* What a reader leaves alone of its buffer.
BufferRests == UNCHANGED <<kind, bufferVars, flagVars, swapping, tmp_read, callbacks, fs,
                           fileVars, pc, calls, answers, logical>>

Piece(p) ==
  [o \in 1 .. (IF p = 0 THEN original_size ELSE calls[p].size) |-> <<p, o>>]

BytesOf(content) == FlattenSeq([i \in DOMAIN content |-> Piece(content[i])])

Stream(size) ==
  INSTANCE ChunkStream WITH file_size <- size, ChunkSize <- chunk_size, asked <- 0, got <- <<>>

\* fs.make_chunked_stream: a stream over what the file holds.
Open(content) == [bytes |-> BytesOf(content), asked |-> 0]

\* A composite reader has yet to read the streams it holds; one that holds none and a
\* CacheChunkedReader read from memory, from pos on.
Reader(class, file, tmp_file, pos) ==
  [class |-> class, file |-> file, tmp_file |-> tmp_file, pos |-> pos]

\* make_chunked_stream: which reader a buffer gives.
NewReader ==
  CASE kind = "Append" /\ isOnDisk      -> Reader("append", Open(dest), None, None)
    [] kind = "Append" /\ ~isOnDisk     -> Reader("overwrite", None, Open(dest), None)
    [] kind = "Overwrite" /\ isOnDisk   -> Reader("overwrite", None, Open(tmp), None)
    [] kind = "Overwrite" /\ ~isOnDisk  -> Reader("cache", None, None, 0)

-----------------------------------------------------------------------------
(* Making the reader.                                                       *)

MakeChunkedStream == Enqueue("make_chunked_stream") /\ UNCHANGED readerVars

RunMake ==
  /\ Running("make_chunked_stream")
  /\ BufferRests
  /\ original_size' \in IF kind = "Append" THEN OriginalSizes ELSE {0}
  /\ io_' = Append(Tail(io_), [task |-> "made", call |-> Turn, reader |-> NewReader'])
  /\ UNCHANGED <<reader, stopReading, reads, got>>

\* Append only: the destination cannot be opened.
MakeFails ==
  /\ Running("make_chunked_stream")
  /\ kind = "Append" /\ "open" \in Faulty /\ faults < MaxFaults
  /\ faults' = faults + 1
  /\ io_' = Tail(io_)
  /\ Answer(Turn, Failed)
  /\ UNCHANGED <<kind, bufferVars, flagVars, swapping, tmp_read, callbacks, fs, tmp, dest,
                 pc, calls, logical, readerVars>>

\* Overwrite: the constructor opens the temporary file outside any try block.
MakeThrows ==
  /\ Running("make_chunked_stream")
  /\ io_' = Tail(io_)
  /\ kind = "Overwrite" /\ isOnDisk /\ Fails({"open"})
  /\ Throw
  /\ UNCHANGED <<bufs, realSize, isFirstSaveAttempt, readerVars>>

RunMade ==
  /\ pc = "idle" /\ io_ # <<>> /\ Head(io_).task = "made"
  /\ io_' = Tail(io_)
  /\ reader' = Head(io_).reader
  /\ Answer(Turn, Done)
  /\ UNCHANGED <<kind, bufferVars, flagVars, swapping, tmp_read, callbacks, fs, fileVars,
                 pc, calls, logical, original_size, stopReading, reads, got>>

-----------------------------------------------------------------------------
(* The application's calls, and what runs in the thread of the io_service.  *)

\* Posted, to be called with the handler of the n-th call of next_chunk.
Posted(task, n) == [task |-> task, n |-> n]

\* io.post(std::bind(h, ec, data))
PostedAnswer(n, ec, data) == [task |-> "answer", n |-> n, ec |-> ec, data |-> data]

\* stream->next_chunk(...): the stream s of the reader posts its next chunk to whom
\* it concerns.
AskStream(queue, s, whom, n) ==
  LET stream == reader[s]
      chunk  == Stream(Len(stream.bytes))!Chunk(stream.asked + 1)
  IN  /\ io_' = Append(queue, [task |-> whom, n |-> n, ec |-> chunk.ec,
             data |-> SubSeq(stream.bytes, chunk.pos + 1, chunk.pos + chunk.size)])
      /\ reader' = [reader EXCEPT ![s].asked = @ + 1]

\* CacheChunkedReader::next_chunk; a reader that is stopped moves on all the same.
CacheNext(queue, n) ==
  LET buf  == BytesOf(bufs[currentBuffer])
      next == reader.pos + chunk_size
  IN  IF reader.pos >= Len(buf)
      THEN /\ io_' = Append(queue, PostedAnswer(n, "end_of_file", <<>>))
           /\ UNCHANGED reader
      ELSE /\ reader' = [reader EXCEPT !.pos = next]
           /\ io_' = Append(queue,
                CASE stopReading       -> PostedAnswer(n, "stopped", <<>>)
                  [] ~stopReading /\ next >= Len(buf) ->
                       PostedAnswer(n, "end_of_file", SubSeq(buf, reader.pos + 1, Len(buf)))
                  [] OTHER -> PostedAnswer(n, "success", SubSeq(buf, reader.pos + 1, next)))

Ended == {i \in 1..Len(got) : got[i].ec \in {"end_of_file", "stopped"}}

\* next_chunk of the application's reader.  Bound: it asks once more after the end.
Ask ==
  /\ pc = "idle" /\ reader # None
  /\ Len(got) = reads /\ Cardinality(Ended) < 2
  /\ reads' = reads + 1
  /\ CASE reader.class = "cache"   -> CacheNext(io_, reads')
       [] reader.file # None       -> AskStream(io_, "file", "of_file", reads')
       [] reader.tmp_file # None   -> AskStream(io_, "tmp_file", "of_tmp_file", reads')
       [] OTHER -> io_' = Append(io_, Posted("cached", reads')) /\ UNCHANGED reader
  /\ BufferRests
  /\ UNCHANGED <<original_size, stopReading, got>>

Stop ==
  /\ Alive /\ reader # None /\ ~stopReading
  /\ stopReading' = TRUE
  /\ UNCHANGED <<vars, original_size, reader, reads, got>>

Task(task) ==
  /\ pc = "idle" /\ io_ # <<>> /\ Head(io_).task = task
  /\ BufferRests
  /\ UNCHANGED <<original_size, stopReading, reads>>

Give(task, ec) == got' = Append(got, [call |-> task.n, ec |-> ec, data |-> task.data])

\* The handler of the first stream of an Append reader: at its end the temporary file
\* is opened.  If there was nothing left the user's handler is passed to that stream.
OfFile ==
  /\ Task("of_file")
  /\ LET h == Head(io_)
     IN  IF h.ec # "end_of_file"
         THEN Give(h, h.ec) /\ io_' = Tail(io_) /\ UNCHANGED reader
         ELSE /\ reader' = [reader EXCEPT !.file = None, !.tmp_file = Open(tmp)]
              /\ IF h.data # <<>>
                 THEN Give(h, "success") /\ io_' = Tail(io_)
                 ELSE io_' = Append(Tail(io_), Posted("pass_on", h.n)) /\ UNCHANGED got

\* The temporary file cannot be opened there.
OfFileThrows ==
  /\ pc = "idle" /\ io_ # <<>> /\ Head(io_).task = "of_file"
  /\ io_' = Tail(io_)
  /\ Head(io_).ec = "end_of_file" /\ Fails({"open"})
  /\ reader' = [reader EXCEPT !.file = None]
  /\ Throw
  /\ UNCHANGED <<bufs, realSize, isFirstSaveAttempt, original_size, stopReading, reads, got>>

PassOn ==
  /\ Task("pass_on")
  /\ AskStream(Tail(io_), "tmp_file", "answer", Head(io_).n)
  /\ UNCHANGED got

\* Mutant: the last chunk of the stream is given with its own code.
EndOfTmpFileAsRead(h) == Give(h, h.ec) /\ io_' = Tail(io_)

\* Mutant: when the stream ends with no data nobody is asked for more.
EndOfTmpFileForgotten(h) ==
  IF h.data = <<>> THEN UNCHANGED got /\ io_' = Tail(io_)
  ELSE Give(h, "success") /\ io_' = Tail(io_)

\* The temporary file has ended, with a last chunk or with none: an Overwrite reader
\* posts the chunk, an Append reader calls the handler; without one it is the turn of
\* what is cached.
EndOfTmpFile(h) ==
  CASE h.data = <<>> -> io_' = Append(Tail(io_), Posted("cached", h.n)) /\ UNCHANGED got
    [] h.data # <<>> /\ reader.class = "append" -> Give(h, "success") /\ io_' = Tail(io_)
    [] OTHER -> /\ io_' = Append(Tail(io_), PostedAnswer(h.n, "success", h.data))
                /\ UNCHANGED got

\* Mutant: the reader of what is cached is made only behind a chunk.
OfTmpFileUnprepared ==
  /\ Task("of_tmp_file")
  /\ LET h == Head(io_)
     IN  IF h.ec # "end_of_file"
         THEN Give(h, h.ec) /\ io_' = Tail(io_) /\ UNCHANGED reader
         ELSE /\ EndOfTmpFile(h)
              /\ reader' = [reader EXCEPT !.tmp_file = None,
                                          !.pos = IF h.data = <<>> THEN None ELSE 0]

\* The handler of the last stream of a composite reader: at its end the reader of what
\* is cached is made.
OfTmpFile ==
  /\ Task("of_tmp_file")
  /\ LET h == Head(io_)
     IN  IF h.ec # "end_of_file"
         THEN Give(h, h.ec) /\ io_' = Tail(io_) /\ UNCHANGED reader
         ELSE EndOfTmpFile(h) /\ reader' = [reader EXCEPT !.tmp_file = None, !.pos = 0]

Cached ==
  /\ Task("cached")
  /\ CacheNext(Tail(io_), Head(io_).n)
  /\ UNCHANGED got

Deliver ==
  /\ Task("answer")
  /\ Give(Head(io_), Head(io_).ec)
  /\ io_' = Tail(io_)
  /\ UNCHANGED reader

-----------------------------------------------------------------------------
ReaderRuns == RunMake \/ MakeFails \/ RunMade \/ OfFile \/ PassOn \/ OfTmpFile \/ Cached
                \/ Deliver

\* No call is made on the buffer once there is a reader.
ReadersStep ==
  \/ reader = None /\ AppCall /\ UNCHANGED readerVars
  \/ (Run \/ Handle \/ CallbackReturns \/ Worker) /\ UNCHANGED readerVars
  \/ reader = None /\ MakeChunkedStream
  \/ ReaderRuns \/ Ask \/ Stop

ReadersThrow == (Throws /\ UNCHANGED readerVars) \/ MakeThrows \/ OfFileThrows

ReadersNext == ReadersStep \/ ReadersThrow

ReadersInit ==
  /\ Init
  /\ original_size = 0
  /\ reader = None
  /\ stopReading = FALSE
  /\ reads = 0
  /\ got = <<>>

ReadersSpec == ReadersInit /\ [][ReadersNext]_allVars

\* What waits in the io_service is the chunk of a stream that may never give it.
Unsure(stream) == stream.asked > SureChunks

StreamAwaits ==
  /\ io_ # <<>>
  /\ \/ Head(io_).task = "of_file" /\ Unsure(reader.file)
     \/ Head(io_).task = "of_tmp_file" /\ Unsure(reader.tmp_file)

Obliged ==
  ((Run \/ Handle \/ CallbackReturns) /\ UNCHANGED readerVars) \/ ReaderRuns \/ ReadersThrow

\* As FairSpec: the thread of the io_service runs what is posted, the worker works.
FairReadersSpec ==
  /\ ReadersSpec
  /\ WF_allVars(~StreamAwaits /\ Obliged)
  /\ WF_allVars(ObligedWorker /\ UNCHANGED readerVars)

-----------------------------------------------------------------------------
\* While it awaits a chunked stream the application calls nothing else.
StreamAwaited == \A p \in Overlaps : p[1][1] # "make_chunked_stream"

\* A call on a reader never finds the reader it is passed on to missing: whatever waits
\* in the io_service for a stream, or for what is cached, finds it there.
ReaderThere ==
  Alive => \A i \in 1..Len(io_) :
    /\ io_[i].task \in {"of_tmp_file", "pass_on"} => reader.tmp_file # None
    /\ io_[i].task = "of_file" => reader.file # None
    /\ io_[i].task = "cached" => reader.pos # None

Delivered == FlattenSeq([i \in 1..Len(got) |-> got[i].data])

Whole == BytesOf(Original \o logical)

\* Across all seams the chunks are the logical content of the buffer, from its beginning,
\* in order and without gap or repetition; end_of_file comes with the last byte or after
\* it, unless the owner has stopped the reading; no chunk is empty or too long, and each
\* call is answered once (the three next_chunk, make_chunked_stream).
WholeStream ==
  ~error =>
    /\ IsPrefix(Delivered, Whole)
    /\ \A i \in 1..Len(got) :
         /\ got[i].call = i
         /\ Len(got[i].data) <= chunk_size
         /\ got[i].ec = "success" => got[i].data # <<>>
         /\ got[i].ec = "end_of_file" => Delivered = Whole \/ \E j \in 1..i : got[j].ec = "stopped"

\* The same for all but an Append buffer that has swapped and extends an empty file.
StreamExact == (original_size > 0 \/ kind = "Overwrite" \/ ~isOnDisk) => WholeStream

\* Every call of next_chunk is answered, unless it waits for a chunk that a stream over a
\* file may never give, or an exception has ended the program.
EveryReadAnswered == Len(got) < reads ~> Len(got) = reads \/ StreamAwaits \/ ~Alive
============================================================================

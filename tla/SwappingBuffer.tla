--------------------------- MODULE SwappingBuffer ---------------------------
(***************************************************************************)
(* A SwappingBuffer of src/io/async/swap, in its two kinds.  Data appended *)
(* collects in one of two vectors; when it would exceed maxBufferSize the  *)
(* vectors change roles and the full one is written to a temporary file by *)
(* the FilesystemManager, which holds a reference to the vector and not a  *)
(* copy.  An Overwrite buffer is saved by moving the temporary file, an    *)
(* Append buffer by appending it chunk by chunk to its destination.        *)
(*                                                                         *)
(* Everything runs in the thread of the io_service except the file         *)
(* operations, which a worker performs in order (see SerialFs) and answers *)
(* through the io_service.  Content is a sequence of pieces, a piece being *)
(* the number of the append that brought it; piece 0 is what the           *)
(* destination held before.  One piece is one chunk of the temporary file. *)
(*                                                                         *)
(* Nothing in the repository catches an exception that leaves a handler:   *)
(* the run of the io_service ends with it, and so does the program.        *)
(***************************************************************************)
EXTENDS Integers, Sequences, FiniteSets, Functions, SequencesExt

CONSTANTS
  maxBufferSize, \* the threshold
  Sizes,         \* the sizes of the chunks the application appends
  Kinds,         \* the kinds of buffer a run may start with
  Overlaps,      \* pairs of calls: the second may come while the first is unanswered
  InCallback,    \* whether such calls also come within the callback of a swap
  Faulty,        \* external: the file operations that may fail
  Uint32,        \* the number of values of uint32_t; a few in a small instance
  SureChunks,    \* the chunks of a stream that are sure to come: three (ChunkedReader)
  MaxFaults,     \* bound: the number of times they do
  MaxCalls,      \* bound: the number of calls the application makes
  None           \* no file, no step

Operations == {"append", "clear", "size", "readAll", "save"}

\* What the application calls: an operation and, for append, the size of the chunk.
\* Chunked streams are made in BufferReaders.
Calls == {"append"} \X Sizes \cup ((Operations \ {"append"}) \cup {"make_chunked_stream"}) \X {0}

Steps == {"swap", "local", "rest", "move", "chunk", "copied", "last", "tail",
          "read", "read_tmp", "open", "createDirectory", "removeFile"}

ASSUME SwappingBufferAssumption ==
  /\ maxBufferSize \in Nat \ {0}
  /\ Sizes \subseteq Nat \ {0}
  /\ Kinds \subseteq {"Append", "Overwrite"}
  /\ Overlaps \subseteq Calls \X Calls
  /\ InCallback \in BOOLEAN
  /\ Faulty \subseteq Steps
  /\ Uint32 \in Nat \ {0} /\ SureChunks \in Nat \ {0}
  /\ MaxFaults \in Nat /\ MaxCalls \in Nat
  /\ None \notin Seq(0..MaxCalls)

Ids     == 1..MaxCalls
Content == Seq(0..MaxCalls)
Code    == {"success", "end_of_file", "open_failure", "other_failure"}

VARIABLES
  kind,          \* Append or Overwrite
  bufs,          \* bufA and bufB
  currentBuffer, \* which one collects; the other is the swappingBuffer
  realSize, isOnDisk, swapping, error,
  isFirstSwappingAttempt, isFirstSaveAttempt,
  tmp_read,      \* the buffer of readAll and of the copying
  callbacks,     \* operations waiting for the swap to end
  io_,           \* what is posted to the io_service
  fs,            \* the requests of this buffer queued in the FilesystemManager
  tmp, dest,     \* the temporary file, if any, and the destination
  pc,            \* "callback" inside that of a swap, "thrown" once an exception got out
  faults,        \* how many file operations failed so far
  calls,         \* the calls made: operation and size
  answers,       \* the callbacks each call has had
  logical        \* history: what an ordinary vector would hold

bufferVars == <<bufs, currentBuffer>>
flagVars   == <<realSize, isOnDisk, error, isFirstSwappingAttempt, isFirstSaveAttempt>>
fileVars   == <<tmp, dest, faults>>
queueVars  == <<callbacks, io_, fs>>

vars == <<kind, bufferVars, flagVars, swapping, tmp_read, queueVars, fileVars, pc,
          calls, answers, logical>>

swappingBuffer == IF currentBuffer = "bufA" THEN "bufB" ELSE "bufA"

Bytes(content, made) == SumFunction([i \in DOMAIN content |-> made[content[i]].size])

\* The same for the pieces of c and of the calls before it.
BytesUpTo(c, content, made) ==
  SumFunction([i \in {j \in DOMAIN content : content[j] <= c} |-> made[content[i]].size])

Init ==
  /\ kind \in Kinds
  /\ bufs = [b \in {"bufA", "bufB"} |-> <<>>]
  /\ currentBuffer = "bufA"
  /\ realSize = 0
  /\ isOnDisk = FALSE
  /\ swapping = FALSE
  /\ error = FALSE
  /\ isFirstSwappingAttempt = TRUE
  /\ isFirstSaveAttempt = TRUE
  /\ tmp_read = <<>>
  /\ callbacks = <<>> /\ io_ = <<>> /\ fs = <<>>
  /\ tmp = None
  /\ dest = <<0>>
  /\ pc = "idle"
  /\ faults = 0
  /\ calls = <<>>
  /\ answers = [c \in Ids |-> <<>>]
  /\ logical = <<>>

-----------------------------------------------------------------------------
(* Answers, requests and the queue of postponed operations.                *)

Answer(c, a) == answers' = [answers EXCEPT ![c] = Append(@, a)]

\* The callbacks of append and size take a uint32_t, realSize is a size_t.
Done       == [ok |-> TRUE]
Failed     == [ok |-> FALSE]
Size(n)    == [ok |-> TRUE, size |-> n % Uint32]
Read(data) == [ok |-> TRUE, data |-> data]

\* A request to the FilesystemManager: for call c, in a step of its handling, on a
\* file, with a vector, and the chunk it reads or the size bound to its callback.
Request(c, step, file, mode, buf, n) ==
  [call |-> c, step |-> step, file |-> file, mode |-> mode, buf |-> buf, n |-> n]

Submit(r) == fs' = Append(fs, r)

\* The operations of a list, as they are posted.
Tasks(list) == [i \in DOMAIN list |-> [task |-> "operation", call |-> list[i]]]

\* Mutants: the list is posted and not emptied, emptied and not posted.
PostKeeping(list) == io_' = io_ \o Tasks(list) /\ callbacks' = list
PostNothing(list) == UNCHANGED io_ /\ callbacks' = <<>>

\* performPendingOperations: the list is posted in order and emptied.
Post(list) == io_' = io_ \o Tasks(list) /\ callbacks' = <<>>

\* Mutant: the operation runs at once, also during a swap.
enqueueAndRunAlways(c) == Post(Append(callbacks, c))

enqueueAndRun(c) ==
  IF swapping
  THEN callbacks' = Append(callbacks, c) /\ UNCHANGED io_
  ELSE Post(Append(callbacks, c))

\* swappingOperation: the first write of an Overwrite buffer creates the file.
swappingOperation(c, b, n) ==
  Submit(Request(c, "swap", "tmp",
                 IF kind = "Overwrite" /\ ~isOnDisk THEN "write" ELSE "append", b, n))

\* Mutant: the vector that becomes the current one is not emptied.
startSwappingKeeping(c, content, added) ==
  /\ currentBuffer' = swappingBuffer
  /\ bufs' = [bufs EXCEPT ![currentBuffer] = content, ![swappingBuffer] = @ \o added]
  /\ swapping' = TRUE
  /\ swappingOperation(c, currentBuffer, realSize')

\* startSwapping: the current vector, holding the given content, is handed to the
\* file system; the other one becomes current, is emptied and takes what is added.
startSwapping(c, content, added) ==
  /\ currentBuffer' = swappingBuffer
  /\ bufs' = [bufs EXCEPT ![currentBuffer] = content, ![swappingBuffer] = added]
  /\ swapping' = TRUE
  /\ swappingOperation(c, currentBuffer, realSize')

-----------------------------------------------------------------------------
(* The calls of the application.                                           *)

Alive == pc # "thrown"

Unanswered == {c \in 1..Len(calls) : answers[c] = <<>>}

\* The application saves at most once, and last.
MayCall(op, size) ==
  /\ Alive
  /\ Len(calls) < MaxCalls
  /\ \A c \in 1..Len(calls) : calls[c].op # "save"
  /\ pc = "callback" => InCallback \/ Unanswered = {}
  /\ \A c \in Unanswered : <<<<calls[c].op, calls[c].size>>, <<op, size>>>> \in Overlaps
  /\ calls' = Append(calls, [op |-> op, size |-> size])

New == Len(calls) + 1

\* Mutant: the size of the chunk is added twice.
AppendCallTwice(size) ==
  /\ MayCall("append", size)
  /\ logical' = Append(logical, New)
  /\ realSize' = realSize + 2 * size
  /\ UNCHANGED <<kind, isOnDisk, error, isFirstSwappingAttempt, isFirstSaveAttempt,
                 tmp_read, fileVars, pc>>

\* append, what its four cases share.
AppendCall(size) ==
  /\ MayCall("append", size)
  /\ logical' = Append(logical, New)
  /\ realSize' = realSize + size
  /\ UNCHANGED <<kind, isOnDisk, error, isFirstSwappingAttempt, isFirstSaveAttempt,
                 tmp_read, fileVars, pc>>

Held == Bytes(bufs[currentBuffer], calls)

\* append: the chunk fits into the current vector.
AppendInMemory(size) ==
  /\ AppendCall(size)
  /\ size + Held < maxBufferSize
  /\ bufs' = [bufs EXCEPT ![currentBuffer] = Append(@, New)]
  /\ Answer(New, Size(realSize'))
  /\ UNCHANGED <<currentBuffer, swapping, queueVars>>

\* append: a chunk beyond the threshold is inserted and swapped with the rest.
AppendHuge(size) ==
  /\ AppendCall(size)
  /\ size + Held >= maxBufferSize /\ size > maxBufferSize
  /\ startSwapping(New, Append(bufs[currentBuffer], New), <<>>)
  /\ UNCHANGED <<callbacks, io_, answers>>

\* append: what is held is swapped, the chunk goes to the other vector.
AppendAndSwap(size) ==
  /\ AppendCall(size)
  /\ size + Held >= maxBufferSize /\ size <= maxBufferSize
  /\ ~swapping
  /\ startSwapping(New, bufs[currentBuffer], <<New>>)
  /\ UNCHANGED <<callbacks, io_, answers>>

\* append during a swap: another swap is scheduled for its end.
AppendDuringSwap(size) ==
  /\ AppendCall(size)
  /\ size + Held >= maxBufferSize /\ size <= maxBufferSize
  /\ swapping
  /\ bufs' = [bufs EXCEPT ![currentBuffer] = Append(@, New)]
  /\ enqueueAndRun(New)
  /\ UNCHANGED <<currentBuffer, swapping, fs, answers>>

\* clear, size, readAll, saveAllContents: wait for the swap in progress.
Enqueue(op) ==
  /\ MayCall(op, 0)
  /\ enqueueAndRun(New)
  /\ UNCHANGED <<kind, bufferVars, flagVars, swapping, tmp_read, fs, fileVars, pc,
                 answers, logical>>

AppCall ==
  \/ \E s \in Sizes : AppendInMemory(s) \/ AppendHuge(s) \/ AppendAndSwap(s)
                        \/ AppendDuringSwap(s)
  \/ \E op \in Operations \ {"append"} : Enqueue(op)

-----------------------------------------------------------------------------
(* The operations, run by the thread of the io_service once posted.        *)

Running(op) ==
  /\ pc = "idle"
  /\ io_ # <<>>
  /\ Head(io_).task = "operation"
  /\ calls[Head(io_).call].op = op

Turn == Head(io_).call

\* The lambda of an append made during a swap.
RunAppend ==
  /\ Running("append")
  /\ io_' = Tail(io_)
  /\ UNCHANGED flagVars
  /\ startSwapping(Turn, bufs[currentBuffer], <<>>)
  /\ UNCHANGED <<kind, tmp_read, callbacks, fileVars, pc, calls, answers, logical>>

RunSize ==
  /\ Running("size")
  /\ io_' = Tail(io_)
  /\ Answer(Turn, Size(realSize))
  /\ UNCHANGED <<kind, bufferVars, flagVars, swapping, tmp_read, callbacks, fs,
                 fileVars, pc, calls, logical>>

\* clear: both vectors, and the temporary file if there is one.
RunClear ==
  /\ Running("clear")
  /\ bufs' = [b \in {"bufA", "bufB"} |-> <<>>]
  /\ realSize' = 0
  /\ isOnDisk' = FALSE
  /\ tmp' = IF isOnDisk THEN None ELSE tmp
  /\ logical' = <<>>
  /\ io_' = Append(Tail(io_), [task |-> "cleared", call |-> Turn])
  /\ UNCHANGED <<kind, currentBuffer, error, isFirstSwappingAttempt,
                 isFirstSaveAttempt, swapping, tmp_read, callbacks, fs, dest, faults,
                 pc, calls, answers>>

RunCleared ==
  /\ pc = "idle" /\ io_ # <<>> /\ Head(io_).task = "cleared"
  /\ io_' = Tail(io_)
  /\ Answer(Turn, Done)
  /\ UNCHANGED <<kind, bufferVars, flagVars, swapping, tmp_read, callbacks, fs,
                 fileVars, pc, calls, logical>>

\* readAll: an Overwrite buffer answers from memory, or reads the temporary file;
\* an Append buffer begins with the file it extends.
RunReadAll ==
  /\ Running("readAll")
  /\ io_' = Tail(io_)
  /\ IF kind = "Overwrite" /\ ~isOnDisk
     THEN Answer(Turn, Read(bufs[currentBuffer])) /\ UNCHANGED fs
     ELSE /\ Submit(Request(Turn, "read", IF kind = "Append" THEN "dest" ELSE "tmp",
                            "read", "tmp_read", 0))
          /\ UNCHANGED answers
  /\ UNCHANGED <<kind, bufferVars, flagVars, swapping, tmp_read, callbacks, fileVars,
                 pc, calls, logical>>

\* The chunks of the temporary file are read in order, one request each.
NextChunk(c, i) == Submit(Request(c, "chunk", "tmp", "chunk", "own", i))

\* Mutant: an Append buffer overwrites the file it extends.
SaveLocalOverwriting(c) == Submit(Request(c, "local", "dest", "write", currentBuffer, 0))

\* saveLocalContents: what is in memory goes straight to the destination.
SaveLocal(c) ==
  Submit(Request(c, "local", "dest", IF kind = "Append" THEN "append" ELSE "write",
                 currentBuffer, 0))

\* saveAllContents: an Append buffer that failed to swap refuses; whatever is only
\* in memory goes straight to the destination; else the Append buffer begins to copy
\* its temporary file, the Overwrite buffer completes its own to move it.
RunSave ==
  /\ Running("save")
  /\ io_' = Tail(io_)
  /\ \/ kind = "Append" /\ error /\ Answer(Turn, Failed) /\ UNCHANGED fs
     \/ /\ kind = "Overwrite" \/ ~error
        /\ CASE ~isOnDisk -> SaveLocal(Turn)
             [] isOnDisk /\ kind = "Append" -> NextChunk(Turn, 1)
             [] OTHER -> Submit(Request(Turn, "rest", "tmp", "append", currentBuffer, 0))
        /\ UNCHANGED answers
  /\ UNCHANGED <<kind, bufferVars, flagVars, swapping, tmp_read, callbacks, fileVars,
                 pc, calls, logical>>

-----------------------------------------------------------------------------
(* The worker performs the requests in order, each with what its vector    *)
(* holds at that moment, and posts their handlers.                         *)

Source(buf) == IF buf = "tmp_read" THEN tmp_read ELSE bufs[buf]

Handler(r, code, data) ==
  io_' = Append(io_, [task |-> "handler", call |-> r.call, request |-> r,
                      ec |-> code, data |-> data])

Completed(f, r) ==
  CASE r.mode = "write"                -> Source(r.buf)
    [] r.mode = "append" /\ f = None   -> Source(r.buf)
    [] r.mode = "append" /\ f # None   -> f \o Source(r.buf)
    [] OTHER                           -> f

\* What a request returns, and its code: a file is read whole into tmp_read, or one
\* chunk of it, the last together with end_of_file.  What succeeds is taken to be done:
\* data that is lost when writeFile closes the file, unnoticed, is left out.
Returns(f, r) ==
  CASE r.mode = "read"  -> f
    [] r.mode = "chunk" -> IF f = <<>> THEN <<>> ELSE <<f[r.n]>>
    [] OTHER            -> <<>>

CodeOf(f, r) ==
  IF r.mode = "chunk" /\ r.n >= Len(f) THEN "end_of_file" ELSE "success"

WorkerFile(r) == IF r.file = "tmp" THEN tmp ELSE dest

PerformRequest ==
  /\ Alive /\ fs # <<>>
  /\ LET r == Head(fs)
         f == WorkerFile(r)
     IN  /\ r.mode = "read" => f # None
         /\ tmp'  = IF r.file = "tmp"  THEN Completed(f, r) ELSE tmp
         /\ dest' = IF r.file = "dest" THEN Completed(f, r) ELSE dest
         /\ tmp_read' = IF r.buf = "tmp_read" /\ r.mode = "read" THEN f ELSE tmp_read
         /\ Handler(r, CodeOf(f, r), Returns(f, r))
  /\ fs' = Tail(fs)
  /\ UNCHANGED <<kind, bufferVars, flagVars, swapping, callbacks, pc, faults, calls,
                 answers, logical>>

\* A request that fails leaves the files alone; a missing file cannot be read.
FailRequest ==
  /\ Alive /\ fs # <<>>
  /\ \/ /\ Head(fs).step \in Faulty /\ faults < MaxFaults
        /\ faults' = faults + 1
     \/ /\ Head(fs).mode = "read" /\ WorkerFile(Head(fs)) = None
        /\ UNCHANGED faults
  /\ fs' = Tail(fs)
  /\ \E code \in {"open_failure", "other_failure"} : Handler(Head(fs), code, <<>>)
  /\ UNCHANGED <<kind, bufferVars, flagVars, swapping, tmp_read, callbacks, tmp, dest,
                 pc, calls, answers, logical>>

-----------------------------------------------------------------------------
(* The handlers of the requests, in the thread of the io_service.          *)

Handling(step) ==
  /\ pc = "idle"
  /\ io_ # <<>>
  /\ Head(io_).task = "handler"
  /\ Head(io_).request.step = step
  /\ io_' = Tail(io_)

Ec == Head(io_).ec

\* postSwapRoutine, success: the operations that waited are posted only after the
\* application's callback, which may make calls of its own.
SwapDone ==
  /\ Handling("swap")
  /\ Ec = "success"
  /\ swapping' = FALSE
  /\ isOnDisk' = TRUE
  /\ Answer(Turn, Size(Head(io_).request.n))
  /\ pc' = "callback"
  /\ UNCHANGED <<kind, bufferVars, realSize, error, isFirstSwappingAttempt,
                 isFirstSaveAttempt, tmp_read, callbacks, fs, fileVars, calls, logical>>

CallbackReturns ==
  /\ pc = "callback"
  /\ pc' = "idle"
  /\ Post(callbacks)
  /\ UNCHANGED <<kind, bufferVars, flagVars, swapping, tmp_read, fs, fileVars, calls,
                 answers, logical>>

\* postSwapRoutine, the first failure to open: the directory is made and the same
\* vector is written again.
SwapRetry ==
  /\ Handling("swap")
  /\ Ec = "open_failure" /\ isFirstSwappingAttempt
  /\ isFirstSwappingAttempt' = FALSE
  /\ swapping' = TRUE
  /\ swappingOperation(Turn, swappingBuffer, Head(io_).request.n)
  /\ UNCHANGED <<kind, bufferVars, realSize, isOnDisk, error, isFirstSaveAttempt,
                 tmp_read, callbacks, fileVars, pc, calls, answers, logical>>

\* postSwapRoutine, any other failure, or that of createDirectory: the operations
\* that wait are not posted.
SwapFailed ==
  /\ Handling("swap")
  /\ Ec # "success"
  /\ IF Ec = "open_failure" /\ isFirstSwappingAttempt
     THEN /\ "createDirectory" \in Faulty /\ faults < MaxFaults
          /\ faults' = faults + 1
          /\ isFirstSwappingAttempt' = FALSE
     ELSE UNCHANGED <<faults, isFirstSwappingAttempt>>
  /\ swapping' = FALSE
  /\ error' = TRUE
  /\ Answer(Turn, Failed)
  /\ UNCHANGED <<kind, bufferVars, realSize, isOnDisk, isFirstSaveAttempt, tmp_read,
                 callbacks, fs, tmp, dest, pc, calls, logical>>

\* The other handlers change neither vectors nor files unless they say so.
Settled == UNCHANGED <<kind, currentBuffer, realSize, isOnDisk, swapping, error,
                       isFirstSwappingAttempt, callbacks, pc, calls, logical>>

\* saveLocalContents: an Overwrite buffer makes the directory and tries again once.
LocalSaved ==
  /\ Handling("local")
  /\ IF Ec = "open_failure" /\ kind = "Overwrite" /\ isFirstSaveAttempt
     THEN isFirstSaveAttempt' = FALSE /\ SaveLocal(Turn) /\ UNCHANGED answers
     ELSE /\ Answer(Turn, [ok |-> Ec = "success"])
          /\ UNCHANGED <<isFirstSaveAttempt, fs>>
  /\ Settled
  /\ UNCHANGED <<bufs, tmp_read, fileVars>>

\* Overwrite, the temporary file is complete: it is moved to the destination.
RestSaved ==
  /\ Handling("rest")
  /\ IF Ec = "success"
     THEN dest' = tmp /\ tmp' = None /\ Answer(Turn, Done)
     ELSE Answer(Turn, Failed) /\ UNCHANGED <<tmp, dest>>
  /\ Settled
  /\ UNCHANGED <<bufs, isFirstSaveAttempt, tmp_read, fs, faults>>

\* Overwrite, the move throws: at the first failure to open, the directory is made
\* and the handler returns.
MoveFailed ==
  /\ Handling("rest")
  /\ Ec = "success"
  /\ "move" \in Faulty /\ faults < MaxFaults
  /\ faults' = faults + 1
  /\ \/ /\ isFirstSaveAttempt
        /\ isFirstSaveAttempt' = FALSE
        /\ UNCHANGED answers
     \/ /\ Answer(Turn, Failed)
        /\ UNCHANGED isFirstSaveAttempt
  /\ Settled
  /\ UNCHANGED <<bufs, tmp_read, fs, tmp, dest>>

\* saveLambda: a chunk has been read, and is appended to the destination.
CopyChunk ==
  /\ Handling("chunk")
  /\ IF Ec \in {"success", "end_of_file"}
     THEN /\ tmp_read' = Head(io_).data
          /\ Submit(Request(Turn, IF Ec = "success" THEN "copied" ELSE "last",
                            "dest", "append", "tmp_read", Head(io_).request.n))
          /\ UNCHANGED answers
     ELSE Answer(Turn, Failed) /\ UNCHANGED <<tmp_read, fs>>
  /\ Settled
  /\ UNCHANGED <<bufs, isFirstSaveAttempt, fileVars>>

\* The chunk is in the destination: the next one, or at the end what is in memory.
ChunkCopied ==
  /\ Handling("copied") \/ Handling("last")
  /\ IF Ec = "success"
     THEN /\ IF Head(io_).request.step = "copied"
             THEN NextChunk(Turn, Head(io_).request.n + 1)
             ELSE Submit(Request(Turn, "tail", "dest", "append", currentBuffer, 0))
          /\ UNCHANGED answers
     ELSE Answer(Turn, Failed) /\ UNCHANGED fs
  /\ Settled
  /\ UNCHANGED <<bufs, isFirstSaveAttempt, tmp_read, fileVars>>

\* The end of the copying: a failure calls both callbacks.
TailSaved ==
  /\ Handling("tail")
  /\ answers' = [answers EXCEPT ![Turn] =
                   @ \o IF Ec = "success" THEN <<Done>> ELSE <<Failed, Done>>]
  /\ bufs' = [bufs EXCEPT ![currentBuffer] = <<>>]
  /\ Settled
  /\ UNCHANGED <<isFirstSaveAttempt, tmp_read, fs, fileVars>>

\* readAll: what was read, and what is in memory; an Append buffer that has swapped
\* reads its temporary file in between.
ReadDone ==
  /\ Handling("read")
  /\ IF Ec # "success"
     THEN Answer(Turn, Failed) /\ UNCHANGED <<tmp_read, fs>>
     ELSE IF kind = "Append" /\ isOnDisk
          THEN /\ Submit(Request(Turn, "read_tmp", "tmp", "read", "own", 0))
               /\ UNCHANGED <<tmp_read, answers>>
          ELSE /\ tmp_read' = tmp_read \o bufs[currentBuffer]
               /\ Answer(Turn, Read(tmp_read'))
               /\ UNCHANGED fs
  /\ Settled
  /\ UNCHANGED <<bufs, isFirstSaveAttempt, fileVars>>

\* The second read of an Append buffer, whose code nobody looks at.
ReadTmpDone ==
  /\ Handling("read_tmp")
  /\ tmp_read' = tmp_read \o Head(io_).data \o bufs[currentBuffer]
  /\ Answer(Turn, Read(tmp_read'))
  /\ Settled
  /\ UNCHANGED <<bufs, isFirstSaveAttempt, fs, fileVars>>

-----------------------------------------------------------------------------
(* Exceptions of file operations that are called outside any try block, or *)
(* within a catch: what was done before them stays done, nobody answers.   *)

Fails(steps) ==
  /\ steps \subseteq Faulty
  /\ faults + Cardinality(steps) <= MaxFaults
  /\ faults' = faults + Cardinality(steps)

Throw ==
  /\ pc' = "thrown"
  /\ UNCHANGED <<kind, currentBuffer, isOnDisk, error, isFirstSwappingAttempt, swapping,
                 tmp_read, callbacks, fs, tmp, dest, calls, answers, logical>>

\* clear: removeFile throws when the vectors are empty, and isOnDisk is still set.
ClearThrows ==
  /\ Running("clear")
  /\ io_' = Tail(io_)
  /\ isOnDisk /\ Fails({"removeFile"})
  /\ bufs' = [b \in {"bufA", "bufB"} |-> <<>>]
  /\ realSize' = 0
  /\ Throw
  /\ UNCHANGED isFirstSaveAttempt

\* saveAllContents of an Append buffer: make_chunked_stream throws.
SaveThrows ==
  /\ Running("save")
  /\ io_' = Tail(io_)
  /\ kind = "Append" /\ ~error /\ isOnDisk /\ Fails({"open"})
  /\ Throw
  /\ UNCHANGED <<bufs, realSize, isFirstSaveAttempt>>

\* saveLocalContents, or the move, of an Overwrite buffer: the directory that was not
\* there cannot be made.
DirectoryThrows ==
  /\ \/ Handling("local") /\ Ec = "open_failure" /\ Fails({"createDirectory"})
     \/ Handling("rest") /\ Ec = "success" /\ Fails({"move", "createDirectory"})
  /\ kind = "Overwrite" /\ isFirstSaveAttempt
  /\ isFirstSaveAttempt' = FALSE
  /\ Throw
  /\ UNCHANGED <<bufs, realSize>>

-----------------------------------------------------------------------------
Run == RunAppend \/ RunSize \/ RunClear \/ RunCleared \/ RunReadAll \/ RunSave

Handle == SwapDone \/ SwapRetry \/ SwapFailed \/ LocalSaved \/ RestSaved \/ MoveFailed
            \/ CopyChunk \/ ChunkCopied \/ TailSaved \/ ReadDone \/ ReadTmpDone

Worker == PerformRequest \/ FailRequest

Step == AppCall \/ Run \/ Handle \/ CallbackReturns \/ Worker

Throws == ClearThrows \/ SaveThrows \/ DirectoryThrows

Next == Step \/ Throws

Spec == Init /\ [][Next]_vars

\* A call of next_chunk beyond the first ones may wait in the stream for a read that is
\* never scheduled; here its request waits, in front of none, to be performed or not.
Awaits(r) == r.step = "chunk" /\ r.n > SureChunks

ObligedWorker == fs # <<>> /\ ~Awaits(Head(fs)) /\ Worker

\* The operating system runs the worker and the thread of the io_service, and the
\* application's callbacks return; nothing obliges it to call.
FairSpec == Spec /\ WF_vars(Run \/ Handle \/ CallbackReturns \/ Throws) /\ WF_vars(ObligedWorker)

-----------------------------------------------------------------------------
(* Properties.                                                             *)

\* Every variable has its type; the size is at most that of all chunks appended.
TypeOK ==
  /\ kind \in Kinds
  /\ bufs \in [{"bufA", "bufB"} -> Content]
  /\ currentBuffer \in {"bufA", "bufB"}
  /\ realSize \in 0..Bytes([c \in 1..Len(calls) |-> c], calls)
  /\ {isOnDisk, swapping, error, isFirstSwappingAttempt, isFirstSaveAttempt} \subseteq BOOLEAN
  /\ tmp_read \in Content /\ logical \in Content
  /\ tmp \in Content \cup {None} /\ dest \in Content
  /\ callbacks \in Seq(Ids)
  /\ Len(calls) <= MaxCalls
  /\ pc \in {"idle", "callback", "thrown"}
  /\ faults \in 0..MaxFaults

\* What is on disk, what the swaps in flight are about to add to it, one after the other,
\* what is in memory.
OnDisk == IF tmp = None THEN <<>> ELSE tmp

InFlight ==
  FlattenSeq([i \in 1..Len(fs) |-> IF fs[i].step = "swap" THEN bufs[fs[i].buf] ELSE <<>>])

Stored == OnDisk \o InFlight \o bufs[currentBuffer]

Saving == \E c \in 1..Len(calls) : calls[c].op = "save"

\* A swap has failed and its retry has not been submitted yet.
Retrying == \E i \in 1..Len(io_) :
  io_[i].task = "handler" /\ io_[i].request.step = "swap" /\ io_[i].ec # "success"

\* The application appends only what fits into the other vector while a swap it began is
\* in progress, and appends nothing else before it is answered; it makes no such call
\* within the callback of a swap.  Without this NothingLost fails.
SwapsAwaited ==
  /\ ~InCallback
  /\ \A p \in Overlaps : p[2][1] = "append" =>
       /\ p[1][1] = "append" /\ p[2][2] <= maxBufferSize
       /\ \A q \in Overlaps : q[1] # p[2]

\* While it awaits the content the application asks for nothing but the size, or a chunked
\* stream; the second read of an Append buffer, whose code nobody looks at, does not fail.
ReadsAlone ==
  /\ "read_tmp" \notin Faulty
  /\ \A p \in Overlaps :
       p[1][1] = "readAll" => p[2][1] \in {"size", "make_chunked_stream"}

\* Nothing is lost, doubled or put out of order between the two vectors and the
\* temporary file: together they hold what an ordinary vector would.
NothingLost == Alive /\ ~error /\ ~Retrying /\ ~Saving => Stored = logical

\* A vector handed to the file system is left alone until it has been written.
VectorsLeftAlone ==
  [][\A i \in 1..Len(fs) :
       LET b == fs[i].buf
       IN  fs[i].step = "swap" /\ fs' # Tail(fs) => bufs'[b] = bufs[b]]_vars

\* The answer a step gives to call c, the only one the call has had.
Given(c) == answers'[c][1]

Replies(c, op) ==
  answers'[c] # answers[c] /\ Len(answers'[c]) = 1 /\ calls'[c].op = op /\ Given(c).ok

Original == IF kind = "Append" THEN <<0>> ELSE <<>>

\* Until a swap has failed, readAll hands over the content, behind that of the file an
\* Append buffer extends; a save that reports success and nothing else leaves just that
\* in the destination.  Nothing is claimed once a swap has failed.
ContentExact ==
  [][~error => \A c \in 1..Len(calls) :
       /\ Replies(c, "readAll") => Given(c).data = Original \o logical
       /\ Replies(c, "save") => dest' = Original \o logical]_vars

\* append reports the number of bytes up to its own chunk, size that of all of them, as
\* far as the uint32_t they hand over can: exactly as long as there are less than 2^32.
SizeExact ==
  [][\A c \in 1..Len(calls') :
       /\ Replies(c, "append") => Given(c).size = BytesUpTo(c, logical', calls') % Uint32
       /\ Replies(c, "size") => Given(c).size = Bytes(logical', calls') % Uint32]_vars

\* No call is answered twice, but for the save of an Append buffer whose last append
\* fails: it reports the failure and then success.
AnsweredOnce ==
  \A c \in 1..Len(calls) :
    Len(answers[c]) <= 1 \/ (calls[c].op = "save" /\ answers[c] = <<Failed, Done>>)

\* Every call is answered, unless it waits for the end of a swap that has failed; or it
\* is a save that waits for a chunk its stream may never give, or whose first attempt to
\* move the temporary file failed; or an exception has ended the program.
EveryCallAnswered ==
  \A c \in Ids : Len(calls) >= c ~>
    \/ answers[c] # <<>>
    \/ error /\ c \in Range(callbacks)
    \/ \E i \in 1..Len(fs) : fs[i].call = c /\ Awaits(fs[i])
    \/ /\ Len(calls) >= c /\ calls[c].op = "save" /\ kind = "Overwrite"
       /\ isOnDisk /\ ~isFirstSaveAttempt
    \/ ~Alive
============================================================================

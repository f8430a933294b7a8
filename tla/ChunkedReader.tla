--------------------------- MODULE ChunkedReader ---------------------------
(***************************************************************************)
(* One ChunkedReader of src/io/async/fs: the thread of the io_service (the *)
(* "main" thread of the code's comments) asks for chunks and runs the      *)
(* handlers, the worker thread of the FilesystemManager fills the two      *)
(* halves of a HotDoubleBuffer.  A call of next_chunk either reads its     *)
(* chunk directly or is served by a read made ahead (a prefetch).          *)
(*                                                                         *)
(* Calls are numbered in the order in which they are made.  A chunk is the *)
(* position it was read from and its size.  The worker's queue holds only  *)
(* the reads of this reader, and the worker wakes up whenever it is not    *)
(* empty: see FilesystemManager for the queue and for NoLostWakeup.        *)
(***************************************************************************)
EXTENDS Integers, Sequences

CONSTANTS
  ChunkSize, \* the size of each half of the buffer
  FileSizes, \* the sizes the file may have when the reader is made
  Resizes,   \* the sizes another program may then give it
  Stops,     \* whether the stream may be destroyed while reads are pending
  Consumers, \* the ways the application may call next_chunk
  MaxCalls,  \* bound: the number of calls it makes
  None       \* no call, no answer

Buffers   == {0, 1}
Calls     == 1..MaxCalls
ErrorCode == {"success", "end_of_file", "stopped", "read_failure"}

\* What a call is answered with: where the chunk was read from, its size and its code.
Answers == [pos : Nat, size : 0..ChunkSize, ec : ErrorCode]

ASSUME ChunkedReaderAssumption ==
  /\ ChunkSize \in Nat \ {0}
  /\ FileSizes \subseteq Nat
  /\ Resizes \subseteq Nat
  /\ Stops \in BOOLEAN
  /\ Consumers \subseteq {"eager", "sequential", "pipelined"}
  /\ MaxCalls \in Nat
  /\ None \notin Nat
  /\ None \notin Answers

VARIABLES
  consumer,        \* the way the application calls next_chunk
  file_size,       \* the size found by the constructor
  actual,          \* the size the file has now
  resized,         \* history: whether that ever changed
  pos_to_schedule, \* where the next read to schedule starts
  n_enqueued,      \* prefetches not handed to a waiting handler yet
  swapped,         \* the half get_and_swap returns next
  q_handlers,      \* calls waiting for a prefetch
  q_buf_ready,     \* halves prefetched before anyone asked
  stopped,         \* set when the stream is destroyed
  mpc,             \* where the main thread is
  within,          \* the kind of handler that is calling the application
  next,            \* the half of the read just scheduled, or just released
  copy,            \* the copy of a ready half that next_chunk is about to post
  calls,           \* the number of calls made
  size, start,     \* of each half: its size, and where its bytes come from
  hot, bec,        \* of each half: not consumed yet, and its error code
  bytes_read_,     \* what the worker read so far
  failed,          \* whether the stream is in fail state
  q_as_read_data,  \* the worker's queue
  wpc, op,         \* where the worker is, and the read it performs
  io_,             \* the handlers posted to the io_service
  got              \* the answer to each call

mainVars   == <<pos_to_schedule, n_enqueued, swapped, q_handlers, q_buf_ready, next, calls>>
halfVars   == <<size, start, hot, bec>>
workerVars == <<bytes_read_, failed, wpc, op>>
givenVars  == <<consumer, file_size, actual, resized>>

vars == <<mainVars, copy, mpc, within, halfVars, workerVars, givenVars, stopped,
          q_as_read_data, io_, got>>

Stream == INSTANCE ChunkStream WITH asked <- calls

\* A read: direct for a call, or a prefetch; its half, its position, its outcome.
Reads == [call : Calls \cup {None}, buf : Buffers, pos : Nat,
          ec : ErrorCode \cup {None}]

Answer(p, n, code) == [pos |-> p, size |-> n, ec |-> code]

Init ==
  /\ consumer \in Consumers
  /\ file_size \in FileSizes
  /\ actual = file_size
  /\ resized = FALSE
  /\ pos_to_schedule = 0
  /\ n_enqueued = 0
  /\ swapped = 0
  /\ q_handlers = <<>>
  /\ q_buf_ready = <<>>
  /\ stopped = FALSE
  /\ mpc = "idle"
  /\ within = "none"
  /\ next = 0
  /\ copy = None
  /\ calls = 0
  /\ size = [b \in Buffers |-> ChunkSize]
  /\ start = [b \in Buffers |-> 0]
  /\ hot = [b \in Buffers |-> FALSE]
  /\ bec = [b \in Buffers |-> "success"]
  /\ bytes_read_ = 0
  /\ failed = FALSE
  /\ q_as_read_data = <<>>
  /\ wpc = "pop"
  /\ op = None
  /\ io_ = <<>>
  /\ got = [h \in Calls |-> None]

-----------------------------------------------------------------------------
(* The application: one call inside the previous one's handler (eager), at *)
(* most one unanswered call (sequential), or any number (pipelined).  The  *)
(* first two stop at the first code that is not success.                   *)

MayCall ==
  /\ calls < MaxCalls
  /\ ~stopped
  /\ mpc \in {"idle", "callback"}
  /\ consumer # "pipelined" /\ calls > 0
       => got[calls] # None /\ got[calls].ec = "success"
  /\ consumer = "eager" => (mpc = "callback") = (calls > 0)

\* Mutant: the ready half is not removed from its queue.
PostReadyKeeping ==
  /\ mpc = "taken"
  /\ io_' = Append(io_, [call |-> calls, answer |-> [copy EXCEPT !.ec = bec[next]]])
  /\ copy' = None
  /\ mpc' = "prefetch"
  /\ UNCHANGED <<mainVars, within, halfVars, workerVars, givenVars, stopped,
                 q_as_read_data, got>>

\* next_chunk, a prefetched half is ready: it is copied and released ...
TakeReady ==
  /\ MayCall
  /\ q_buf_ready # <<>>
  /\ LET b == Head(q_buf_ready)
     IN  IF ~hot[b]
         THEN mpc' = "aborted" /\ UNCHANGED <<hot, next, copy>>
         ELSE /\ hot' = [hot EXCEPT ![b] = FALSE]
              /\ next' = b
              /\ copy' = Answer(start[b], size[b], None)
              /\ mpc' = "taken"
  /\ calls' = calls + 1
  /\ UNCHANGED <<pos_to_schedule, n_enqueued, swapped, q_handlers, q_buf_ready, within,
                 size, start, bec, workerVars, givenVars, stopped, q_as_read_data, io_, got>>

\* ... and only then its code is read, and the handler posted with both.
PostReady ==
  /\ mpc = "taken"
  /\ io_' = Append(io_, [call |-> calls, answer |-> [copy EXCEPT !.ec = bec[next]]])
  /\ q_buf_ready' = Tail(q_buf_ready)
  /\ copy' = None
  /\ mpc' = "prefetch"
  /\ UNCHANGED <<pos_to_schedule, n_enqueued, swapped, q_handlers, next, calls, within,
                 halfVars, workerVars, givenVars, stopped, q_as_read_data, got>>

\* next_chunk, a prefetch is on its way that no handler waits for.
QueueHandler ==
  /\ MayCall
  /\ q_buf_ready = <<>>
  /\ n_enqueued > Len(q_handlers)
  /\ q_handlers' = Append(q_handlers, calls + 1)
  /\ calls' = calls + 1
  /\ mpc' = "prefetch"
  /\ UNCHANGED <<copy, pos_to_schedule, n_enqueued, swapped, q_buf_ready, next, within,
                 halfVars, workerVars, givenVars, stopped, q_as_read_data, io_, got>>

\* next_chunk, everything has been scheduled: the call returns at once.
EndOfFile ==
  /\ MayCall
  /\ q_buf_ready = <<>>
  /\ n_enqueued <= Len(q_handlers)
  /\ pos_to_schedule >= file_size
  /\ io_' = Append(io_, [call |-> calls + 1, answer |-> Answer(0, 0, "end_of_file")])
  /\ calls' = calls + 1
  /\ UNCHANGED <<copy, pos_to_schedule, n_enqueued, swapped, q_handlers, q_buf_ready, next,
                 mpc, within, halfVars, workerVars, givenVars, stopped,
                 q_as_read_data, got>>

\* get_and_swap and async_read_chunk for the call h, or for none.
Schedule(h) ==
  /\ q_as_read_data' =
       Append(q_as_read_data,
              [call |-> h, buf |-> swapped, pos |-> pos_to_schedule, ec |-> None])
  /\ next' = swapped
  /\ swapped' = 1 - swapped

ReadDirect ==
  /\ MayCall
  /\ q_buf_ready = <<>>
  /\ n_enqueued <= Len(q_handlers)
  /\ pos_to_schedule < file_size
  /\ Schedule(calls + 1)
  /\ calls' = calls + 1
  /\ mpc' = "scheduled"
  /\ UNCHANGED <<copy, pos_to_schedule, n_enqueued, q_handlers, q_buf_ready, within,
                 halfVars, workerVars, givenVars, stopped, io_, got>>

\* pos_to_schedule += buf_curr.size(): the worker may have cut the size already.
AdvanceDirect ==
  /\ mpc = "scheduled"
  /\ pos_to_schedule' = pos_to_schedule + size[next]
  /\ mpc' = "prefetch"
  /\ UNCHANGED <<copy, n_enqueued, swapped, q_handlers, q_buf_ready, next, calls, within,
                 halfVars, workerVars, givenVars, stopped, q_as_read_data, io_, got>>

\* Mutant: one prefetch more than there are halves.
MayPrefetchMore == n_enqueued <= 2 /\ pos_to_schedule < file_size

\* Two prefetches may be under way, and the file has not ended.
MayPrefetch == n_enqueued < 2 /\ pos_to_schedule < file_size

\* The second half of next_chunk: read ahead.
Prefetch ==
  /\ mpc = "prefetch"
  /\ IF MayPrefetch
     THEN Schedule(None) /\ mpc' = "prefetched"
     ELSE /\ mpc' = IF within = "none" THEN "idle" ELSE "callback"
          /\ UNCHANGED <<q_as_read_data, next, swapped>>
  /\ UNCHANGED <<copy, pos_to_schedule, n_enqueued, q_handlers, q_buf_ready, calls, within,
                 halfVars, workerVars, givenVars, stopped, io_, got>>

AdvancePrefetch ==
  /\ mpc = "prefetched"
  /\ n_enqueued' = n_enqueued + 1
  /\ pos_to_schedule' = pos_to_schedule + size[next]
  /\ mpc' = IF within = "none" THEN "idle" ELSE "callback"
  /\ UNCHANGED <<copy, swapped, q_handlers, q_buf_ready, next, calls, within, halfVars,
                 workerVars, givenVars, stopped, q_as_read_data, io_, got>>

-----------------------------------------------------------------------------
(* The thread of the io_service runs the handlers; each calls the handler  *)
(* of the application, which may call next_chunk before it returns.        *)

Enter(kind, h, answer) ==
  /\ got' = [got EXCEPT ![h] = answer]
  /\ within' = kind
  /\ mpc' = "callback"

\* The body the two lambdas share: assert, copy, release the half, call.
\* Mutant: the half is not released.
HandOverKeepingHot(kind, h, b, ec) ==
  IF ~hot[b]
  THEN mpc' = "aborted" /\ UNCHANGED <<hot, got, within>>
  ELSE UNCHANGED hot /\ Enter(kind, h, Answer(start[b], size[b], ec))

HandOver(kind, h, b, ec) ==
  IF ~hot[b]
  THEN mpc' = "aborted" /\ UNCHANGED <<hot, got, within>>
  ELSE /\ hot' = [hot EXCEPT ![b] = FALSE]
       /\ Enter(kind, h, Answer(start[b], size[b], ec))

Running(kind) ==
  /\ mpc = "idle"
  /\ io_ # <<>>
  /\ kind = IF "answer" \in DOMAIN Head(io_) THEN "bound"
            ELSE IF Head(io_).call = None THEN "prefetch" ELSE "direct"
  /\ io_' = Tail(io_)

RunBound ==
  /\ Running("bound")
  /\ Enter("bound", Head(io_).call, Head(io_).answer)
  /\ UNCHANGED <<copy, mainVars, halfVars, workerVars, givenVars, stopped, q_as_read_data>>

RunDirect ==
  /\ Running("direct")
  /\ HandOver("direct", Head(io_).call, Head(io_).buf, Head(io_).ec)
  /\ UNCHANGED <<copy, mainVars, size, start, bec, workerVars, givenVars, stopped,
                 q_as_read_data>>

RunPrefetch ==
  /\ Running("prefetch")
  /\ q_handlers # <<>>
  /\ q_handlers' = Tail(q_handlers)
  /\ HandOver("prefetch", Head(q_handlers), Head(io_).buf, Head(io_).ec)
  /\ UNCHANGED <<copy, pos_to_schedule, n_enqueued, swapped, q_buf_ready, next, calls, size,
                 start, bec, workerVars, givenVars, stopped, q_as_read_data>>

\* Nobody waits: the half is kept for the next call, and n_enqueued is not lowered.
RunPrefetchAhead ==
  /\ Running("prefetch")
  /\ q_handlers = <<>>
  /\ q_buf_ready' = Append(q_buf_ready, Head(io_).buf)
  /\ UNCHANGED <<copy, pos_to_schedule, n_enqueued, swapped, q_handlers, next, calls, mpc,
                 within, halfVars, workerVars, givenVars, stopped, q_as_read_data, got>>

\* The application's handler returns; after a prefetch, --n_enqueued.
CallbackReturns ==
  /\ mpc = "callback"
  /\ n_enqueued' = IF within = "prefetch" THEN n_enqueued - 1 ELSE n_enqueued
  /\ mpc' = "idle"
  /\ within' = "none"
  /\ UNCHANGED <<copy, pos_to_schedule, swapped, q_handlers, q_buf_ready, next, calls,
                 halfVars, workerVars, givenVars, stopped, q_as_read_data, io_, got>>

\* ~ChunkedFstream
Stop ==
  /\ Stops
  /\ ~stopped
  /\ mpc \in {"idle", "callback"}
  /\ stopped' = TRUE
  /\ UNCHANGED <<copy, mainVars, mpc, within, halfVars, workerVars, givenVars,
                 q_as_read_data, io_, got>>

-----------------------------------------------------------------------------
(* The worker: the case async_read_chunk of perform_next_operation.        *)

WorkerPop ==
  /\ wpc = "pop"
  /\ q_as_read_data # <<>>
  /\ op' = Head(q_as_read_data)
  /\ q_as_read_data' = Tail(q_as_read_data)
  /\ wpc' = "examine"
  /\ UNCHANGED <<copy, mainVars, mpc, within, halfVars, bytes_read_, failed, givenVars,
                 stopped, io_, got>>

WorkerStopped ==
  /\ wpc = "examine"
  /\ stopped
  /\ op' = [op EXCEPT !.ec = "stopped"]
  /\ wpc' = "post"
  /\ UNCHANGED <<copy, mainVars, mpc, within, halfVars, bytes_read_, failed, givenVars,
                 stopped, q_as_read_data, io_, got>>

\* Mutants: one of the two conditions is forgotten.
MayProceedOutOfTurn == ~hot[op.buf]
MayProceedOnHot     == bytes_read_ = op.pos

\* The next chunk of the file, and a half that has been consumed.
MayProceed == bytes_read_ = op.pos /\ ~hot[op.buf]

\* Not the next chunk, or its half has not been consumed: back to the queue.
WorkerRequeue ==
  /\ wpc = "examine"
  /\ ~stopped
  /\ ~MayProceed
  /\ q_as_read_data' = Append(q_as_read_data, op)
  /\ op' = None
  /\ wpc' = "pop"
  /\ UNCHANGED <<copy, mainVars, mpc, within, halfVars, bytes_read_, failed, givenVars,
                 stopped, io_, got>>

WorkerProceed ==
  /\ wpc = "examine"
  /\ ~stopped
  /\ MayProceed
  /\ wpc' = "read"
  /\ UNCHANGED <<copy, mainVars, mpc, within, halfVars, bytes_read_, failed, op, givenVars,
                 stopped, q_as_read_data, io_, got>>

\* read_file_chunk: a stream that has read less than it was asked for is in fail
\* state from then on, and the next read throws.
WorkerRead ==
  /\ wpc = "read"
  /\ IF failed
     THEN /\ op' = [op EXCEPT !.ec = "read_failure"]
          /\ wpc' = "post"
          /\ UNCHANGED <<size, start, bytes_read_, failed>>
     ELSE LET n == Stream!Least(size[op.buf], IF actual < op.pos THEN 0 ELSE actual - op.pos)
          IN  /\ size' = [size EXCEPT ![op.buf] = n]
              /\ start' = [start EXCEPT ![op.buf] = op.pos]
              /\ bytes_read_' = bytes_read_ + n
              /\ failed' = (n < size[op.buf])
              /\ wpc' = "finish"
              /\ UNCHANGED op
  /\ UNCHANGED <<copy, mainVars, mpc, within, hot, bec, givenVars, stopped,
                 q_as_read_data, io_, got>>

\* Mutant: only a short read counts as the end of the file.
CodeReadShort == IF ~failed THEN "success" ELSE "end_of_file"

\* The code of the chunk just read.
CodeRead == IF ~failed /\ bytes_read_ # file_size THEN "success" ELSE "end_of_file"

\* set_hot(true), then the error code; eof() asserts bytes_read_ <= file_size.
WorkerFinish ==
  /\ wpc = "finish"
  /\ hot' = [hot EXCEPT ![op.buf] = TRUE]
  /\ IF bytes_read_ > file_size
     THEN wpc' = "aborted" /\ UNCHANGED <<bec, op>>
     ELSE /\ bec' = [bec EXCEPT ![op.buf] = CodeRead]
          /\ op' = [op EXCEPT !.ec = CodeRead]
          /\ wpc' = "post"
  /\ UNCHANGED <<copy, mainVars, mpc, within, size, start, bytes_read_, failed, givenVars,
                 stopped, q_as_read_data, io_, got>>

WorkerPost ==
  /\ wpc = "post"
  /\ io_' = Append(io_, op)
  /\ op' = None
  /\ wpc' = "pop"
  /\ UNCHANGED <<copy, mainVars, mpc, within, halfVars, bytes_read_, failed, givenVars,
                 stopped, q_as_read_data, got>>

\* Another program truncates or extends the file.
Resize(n) ==
  /\ n # actual
  /\ actual' = n
  /\ resized' = TRUE
  /\ UNCHANGED <<copy, consumer, mainVars, mpc, within, halfVars, workerVars, file_size,
                 stopped, q_as_read_data, io_, got>>

-----------------------------------------------------------------------------
Call == TakeReady \/ QueueHandler \/ EndOfFile \/ ReadDirect

\* What the main thread does once it is inside a call or a handler.
Main == PostReady \/ AdvanceDirect \/ Prefetch \/ AdvancePrefetch \/ CallbackReturns
          \/ RunBound \/ RunDirect \/ RunPrefetch \/ RunPrefetchAhead

Worker == WorkerPop \/ WorkerStopped \/ WorkerRequeue \/ WorkerProceed
            \/ WorkerRead \/ WorkerFinish \/ WorkerPost

Next == Call \/ Main \/ Stop \/ Worker \/ \E n \in Resizes : Resize(n)

Spec == Init /\ [][Next]_vars

\* The operating system runs both threads and the application's handlers return;
\* nothing obliges the application to call.
FairSpec == Spec /\ WF_vars(Main) /\ WF_vars(Worker)

-----------------------------------------------------------------------------
(* Properties.                                                             *)

\* Every variable has its type; in particular n_enqueued, unsigned, never wraps.
TypeOK ==
  /\ consumer \in Consumers /\ resized \in BOOLEAN
  /\ file_size \in Nat /\ actual \in Nat /\ pos_to_schedule \in Nat /\ bytes_read_ \in Nat
  /\ n_enqueued \in 0..2
  /\ swapped \in Buffers /\ next \in Buffers
  /\ q_handlers \in Seq(Calls)
  /\ q_buf_ready \in Seq(Buffers)
  /\ stopped \in BOOLEAN /\ failed \in BOOLEAN
  /\ mpc \in {"idle", "callback", "taken", "scheduled", "prefetch", "prefetched", "aborted"}
  /\ within \in {"none", "bound", "direct", "prefetch"}
  /\ calls \in 0..MaxCalls
  /\ size \in [Buffers -> 0..ChunkSize] /\ start \in [Buffers -> Nat]
  /\ hot \in [Buffers -> BOOLEAN] /\ bec \in [Buffers -> ErrorCode]
  /\ q_as_read_data \in Seq(Reads)
  /\ wpc \in {"pop", "examine", "read", "finish", "post", "aborted"}
  /\ op \in Reads \cup {None}
  /\ io_ \in Seq(Reads \cup [call : Calls, answer : Answers])
  /\ got \in [Calls -> Answers \cup {None}]
  /\ copy \in {None} \cup [pos : Nat, size : 0..ChunkSize, ec : {None}]

\* The assertions of next_chunk, of its two lambdas and of eof() hold.  (A failed
\* one stops its thread at once; that it stops the other too is left out.)
AssertionsHold == "aborted" \notin {mpc, wpc}

\* Nobody destroyed the stream and nobody changed the size of the file.
Undisturbed == ~stopped /\ ~resized

\* While nothing disturbs the reader its assertions hold, whatever the calls.
AssertionsHoldUndisturbed == Undisturbed => AssertionsHold

\* However the reads are split between direct ones and prefetches, and whichever
\* half they use, an application that awaits each answer sees the plain stream
\* until something disturbs it: the i-th call is answered, once, with the i-th
\* chunk of the file.
ImplementsChunkStream ==
  /\ Stream!Init
  /\ [][consumer # "pipelined" /\ Undisturbed => Stream!Next]_<<file_size, calls, got>>

Delivered == {h \in Calls : got[h] # None /\ got[h].size > 0}

\* However many calls are made at once, while the file keeps its size what they
\* are given are chunks of it, whole and with the right code.
ChunksExact ==
  ~resized => \A h \in Delivered : got[h] = Stream!Chunk(1 + got[h].pos \div ChunkSize)

\* Even when the file changes size or the stream is destroyed, no byte is given
\* twice, and none is given while one before it was never read.
DeliveredOnce ==
  /\ \A h, i \in Delivered :
       h # i => \/ got[h].pos + got[h].size <= got[i].pos
                \/ got[i].pos + got[i].size <= got[h].pos
  /\ \A h \in Delivered : got[h].pos + got[h].size <= bytes_read_

\* A half is only released with the data it was filled with: once a read has
\* made a half hot, no read that is under way uses the half until its handler or
\* a later call has consumed it.
HalfNotOverwritten ==
  wpc \in {"read", "finish"} =>
    /\ \A i \in 1..Len(io_) : "buf" \in DOMAIN io_[i] => io_[i].buf # op.buf
    /\ \A i \in 1..Len(q_buf_ready) : q_buf_ready[i] # op.buf

\* Unless something disturbs the reader it answers the calls made inside the handler of
\* the one before, also that for the last chunk of the file, and the first three of those
\* made later; a later call of these may wait for a read that is never scheduled.
AwaitedCallsAnswered ==
  \A h \in Calls :
    /\ consumer = "eager" \/ (consumer = "sequential" /\ h <= 3)
    /\ calls >= h
    ~> got[h] # None \/ ~Undisturbed

\* A call of next_chunk is answered: "h the handler to be called after the read
\* has completed" (fs_manager.h:501).
EveryCallAnswered ==
  \A h \in Calls : calls >= h ~> got[h] # None
============================================================================

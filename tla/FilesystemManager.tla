------------------------- MODULE FilesystemManager -------------------------
(***************************************************************************)
(* The FilesystemManager of src/io/async/fs: threads of the application    *)
(* queue requests with the async_* calls, one worker thread performs them  *)
(* and posts each completion handler to the io_service, whose thread runs  *)
(* the handlers.  The worker sleeps on an Event while there is nothing to  *)
(* do, and the destructor stops it and joins it.                           *)
(*                                                                         *)
(* A request stands for one call: its handler, its arguments and, for a    *)
(* write or an append, the piece its buffer holds.  A chunk read is        *)
(* attempted until its reader lets it proceed; what the reader allows is   *)
(* the environment here.  An exception that leaves the worker thread ends  *)
(* the program: nothing moves once wpc is "terminated".                    *)
(***************************************************************************)
EXTENDS Integers, FileOps

CONSTANTS
  Requests,     \* the calls the application may make, each at most once
  Workloads,    \* the sets of calls it makes in one run
  Threads,      \* the threads that make them
  Paths,        \* the paths requests name
  Code,         \* the operation code of each request
  PathOf,       \* the path each request names
  InitialFiles, \* the file systems a run may start from
  None          \* no request, no code

OperationCode ==
  {"async_read", "async_write", "async_append", "async_read_chunk", "fd_async_read"}

ASSUME FilesystemManagerAssumption ==
  /\ Code \in [Requests -> OperationCode]
  /\ PathOf \in [Requests -> Paths]
  /\ InitialFiles \subseteq [Paths -> File]
  /\ Requests \subseteq Pieces
  /\ Workloads \subseteq SUBSET Requests
  /\ None \notin Requests \cup OperationCode \cup ErrorCode

ChunkReads == {r \in Requests : Code[r] = "async_read_chunk"}

Ordered == Requests \ ChunkReads

VARIABLES
  q_operations, \* OperationsQueue: the codes and handlers, in order
  q_data,       \* OperationsQueue: the four queues of arguments
  available_,   \* whether the Event is set
  done_,        \* the completion flag the destructor raises
  wpc,          \* where the worker thread is
  cur,          \* what the worker popped and what came of it
  calling,      \* the request each thread has pushed and not yet signalled
  dtor,         \* how far the destructor is
  io_,          \* the handlers posted to the io_service
  bound,        \* the error code bound to each posted handler
  runs,         \* how often each handler has run
  files,        \* the file system
  buf,          \* the buffer each read fills
  length,       \* the length of the stream handed to each fd_async_read
  reader,       \* external: whether the reader of a chunk read lets it proceed
  issued,       \* history: the requests pushed so far
  ahead         \* history: the requests last pushed before each request was

queueVars   == <<q_operations, q_data>>
workerVars  == <<wpc, cur>>
eventVars   == <<available_, done_, dtor>>
handlerVars == <<io_, bound, runs>>
fileVars    == <<files, buf>>
historyVars == <<issued, ahead>>

vars == <<queueVars, workerVars, eventVars, handlerVars, fileVars, historyVars,
          calling, length, reader>>

-----------------------------------------------------------------------------
(* The operations queue.  The arguments of an operation wait in the queue  *)
(* that belongs to its code, writes and appends sharing one.               *)

DataQueues == {"q_read_data", "q_write_data", "q_fd_read_data", "q_as_read_data"}

DataQueue(code) ==
  CASE code = "async_read"                       -> "q_read_data"
    [] code \in {"async_write", "async_append"}  -> "q_write_data"
    [] code = "fd_async_read"                    -> "q_fd_read_data"
    [] code = "async_read_chunk"                 -> "q_as_read_data"

Operation == [code : OperationCode, handler : Requests]

\* Mutant: arguments kept in a stack instead of a queue.
pushStacked(code, h, args) ==
  /\ q_operations' = Append(q_operations, [code |-> code, handler |-> h])
  /\ q_data' = [q_data EXCEPT ![DataQueue(code)] = <<args>> \o @]

\* push_*: handler and arguments enter their queues in one critical section.
push(code, h, args) ==
  /\ q_operations' = Append(q_operations, [code |-> code, handler |-> h])
  /\ q_data' = [q_data EXCEPT ![DataQueue(code)] = Append(@, args)]

\* History of a push: everything pushed so far is ahead of what is pushed now.
Log(r) ==
  /\ issued' = issued \cup {r}
  /\ ahead' = [b \in Requests |-> IF b = r THEN issued \ {r} ELSE ahead[b] \ {r}]

\* The length, tellg(), of a stream that failed to open.
NotOpen == -1

Idle == [code |-> None, handler |-> None, data |-> None, ec |-> None]

\* Mutant: pop_* forgets to remove the arguments it returned.
popKeepingData ==
  LET front == Head(q_operations)
      d     == DataQueue(front.code)
  IN  /\ cur' = [code |-> front.code, handler |-> front.handler,
                 data |-> Head(q_data[d]), ec |-> None]
      /\ q_operations' = Tail(q_operations)
      /\ UNCHANGED q_data

\* front and pop_*: the code in front chooses the queue of arguments.
pop ==
  LET front == Head(q_operations)
      d     == DataQueue(front.code)
  IN  /\ cur' = [code |-> front.code, handler |-> front.handler,
                 data |-> Head(q_data[d]), ec |-> None]
      /\ q_operations' = Tail(q_operations)
      /\ q_data' = [q_data EXCEPT ![d] = Tail(@)]

Init ==
  /\ q_operations = <<>>
  /\ q_data = [d \in DataQueues |-> <<>>]
  /\ available_ = FALSE
  /\ done_ = FALSE
  /\ wpc = "check_done"
  /\ cur = Idle
  /\ calling = [t \in Threads |-> None]
  /\ dtor = "alive"
  /\ io_ = <<>>
  /\ bound = [r \in Requests |-> None]
  /\ runs = [r \in Requests |-> 0]
  /\ files \in InitialFiles
  /\ buf = [r \in Requests |-> <<>>]
  /\ length = [r \in Requests |-> 0]
  /\ reader = [r \in Requests |-> "not_ready"]
  /\ issued = {}
  /\ ahead = [r \in Requests |-> {}]

-----------------------------------------------------------------------------
(* The threads that use the manager.                                       *)

\* async_read, async_write, async_append, async_read_chunk: the push.  The
\* caller of the overload on a stream has opened it at its end, or tried to.
Submit(t, r) ==
  /\ dtor = "alive"
  /\ calling[t] = None
  /\ r \notin issued
  /\ \E work \in Workloads : issued \cup {r} \subseteq work
  /\ Code[r] = "fd_async_read" => files[PathOf[r]].type = "regular_file"
  /\ push(Code[r], r, r)
  /\ Log(r)
  /\ calling' = [calling EXCEPT ![t] = r]
  /\ \E n \in {Len(files[PathOf[r]].data)} \cup IF Faults THEN {NotOpen} ELSE {} :
       length' = [length EXCEPT ![r] = IF Code[r] = "fd_async_read" THEN n ELSE 0]
  /\ UNCHANGED <<workerVars, eventVars, handlerVars, fileVars, reader>>

\* Mutant: async_append does not call set_event.
SetEventButAppend(t) ==
  /\ calling[t] # None
  /\ available_' = (available_ \/ Code[calling[t]] # "async_append")
  /\ calling' = [calling EXCEPT ![t] = None]
  /\ UNCHANGED <<queueVars, workerVars, done_, dtor, handlerVars, fileVars,
                 historyVars, length, reader>>

\* The second half of the same call: available_.set_event().
SetEvent(t) ==
  /\ calling[t] # None
  /\ available_' = TRUE
  /\ calling' = [calling EXCEPT ![t] = None]
  /\ UNCHANGED <<queueVars, workerVars, done_, dtor, handlerVars, fileVars,
                 historyVars, length, reader>>

\* ~FilesystemManager: no call may be in progress on an object being destroyed.
Destroy ==
  /\ dtor = "alive"
  /\ \A t \in Threads : calling[t] = None
  /\ done_' = TRUE
  /\ dtor' = "notify"
  /\ UNCHANGED <<queueVars, workerVars, available_, handlerVars, fileVars,
                 historyVars, calling, length, reader>>

\* Mutant: the destructor does not set the Event before it joins.
DestroyWithoutNotify ==
  /\ dtor = "notify"
  /\ dtor' = "join"
  /\ UNCHANGED <<queueVars, workerVars, available_, done_, handlerVars, fileVars,
                 historyVars, calling, length, reader>>

DestroyNotify ==
  /\ dtor = "notify"
  /\ available_' = TRUE
  /\ dtor' = "join"
  /\ UNCHANGED <<queueVars, workerVars, done_, handlerVars, fileVars,
                 historyVars, calling, length, reader>>

DestroyJoin ==
  /\ dtor = "join"
  /\ wpc = "exited"
  /\ dtor' = "destroyed"
  /\ UNCHANGED <<queueVars, workerVars, available_, done_, handlerVars, fileVars,
                 historyVars, calling, length, reader>>

-----------------------------------------------------------------------------
(* The worker: process_queue.                                              *)

CheckDone ==
  /\ wpc = "check_done"
  /\ wpc' = IF done_ THEN "exited" ELSE "wait_event"
  /\ UNCHANGED <<queueVars, cur, eventVars, handlerVars, fileVars, historyVars,
                 calling, length, reader>>

WaitEvent ==
  /\ wpc = "wait_event"
  /\ available_
  /\ wpc' = "reset_event"
  /\ UNCHANGED <<queueVars, cur, eventVars, handlerVars, fileVars, historyVars,
                 calling, length, reader>>

ResetEvent ==
  /\ wpc = "reset_event"
  /\ available_' = FALSE
  /\ wpc' = "check_empty"
  /\ UNCHANGED <<queueVars, cur, done_, dtor, handlerVars, fileVars, historyVars,
                 calling, length, reader>>

CheckEmpty ==
  /\ wpc = "check_empty"
  /\ wpc' = IF q_operations = <<>> THEN "check_done" ELSE "pop"
  /\ UNCHANGED <<queueVars, cur, eventVars, handlerVars, fileVars, historyVars,
                 calling, length, reader>>

-----------------------------------------------------------------------------
(* The worker: perform_next_operation.                                     *)

Pop ==
  /\ wpc = "pop"
  /\ pop
  /\ wpc' = "execute"
  /\ UNCHANGED <<eventVars, handlerVars, fileVars, historyVars, calling, length, reader>>

Executing(code) == wpc = "execute" /\ cur.code = code

\* The operation ended: its file, its buffer and the code for its handler.
Conclude(o, buffer) ==
  /\ files' = [files EXCEPT ![PathOf[cur.data]] = o.file]
  /\ buf' = [buf EXCEPT ![cur.data] = buffer]
  /\ cur' = [cur EXCEPT !.ec = o.ec]
  /\ wpc' = "post"
  /\ UNCHANGED <<queueVars, eventVars, handlerVars, historyVars, calling, length, reader>>

\* A helper that throws leaves the caller's buffer as it was.
Filled(o) == IF o.ec = "success" THEN o.data ELSE buf[cur.data]

ExecuteRead ==
  /\ Executing("async_read")
  /\ \E o \in readFile(files[PathOf[cur.data]]) : Conclude(o, Filled(o))

ExecuteFdRead ==
  /\ Executing("fd_async_read")
  /\ length[cur.data] # NotOpen
  /\ \E o \in fdReadFile(files[PathOf[cur.data]], length[cur.data]) :
       Conclude(o, Filled(o))

\* The buffer cannot take the length of a stream that is not open: resize throws
\* what perform_next_operation does not catch.
Terminate ==
  /\ Executing("fd_async_read")
  /\ length[cur.data] = NotOpen
  /\ wpc' = "terminated"
  /\ UNCHANGED <<queueVars, cur, eventVars, handlerVars, fileVars, historyVars,
                 calling, length, reader>>

ExecuteWrite ==
  /\ Executing("async_write")
  /\ \E o \in writeFile(files[PathOf[cur.data]], <<cur.data>>) :
       Conclude(o, buf[cur.data])

ExecuteAppend ==
  /\ Executing("async_append")
  /\ \E o \in appendToFile(files[PathOf[cur.data]], <<cur.data>>) :
       Conclude(o, buf[cur.data])

\* Mutant: the worker retries the chunk read in place.
RetryChunk ==
  /\ Executing("async_read_chunk")
  /\ reader[cur.data] = "not_ready"
  /\ UNCHANGED vars

\* Mutant: no return after the push, the handler is posted as well.
RequeueAndPostChunk ==
  /\ Executing("async_read_chunk")
  /\ reader[cur.data] = "not_ready"
  /\ push(cur.code, cur.handler, cur.data)
  /\ Log(cur.handler)
  /\ cur' = [cur EXCEPT !.ec = "stopped"]
  /\ wpc' = "post"
  /\ UNCHANGED <<eventVars, handlerVars, fileVars, calling, length, reader>>

\* Mutant: no return after the push, an empty handler is posted as well.
RequeueAndPostNothing ==
  /\ Executing("async_read_chunk")
  /\ reader[cur.data] = "not_ready"
  /\ push(cur.code, cur.handler, cur.data)
  /\ Log(cur.handler)
  /\ cur' = Idle
  /\ wpc' = "post"
  /\ UNCHANGED <<eventVars, handlerVars, fileVars, calling, length, reader>>

\* The chunk is not the next one of its reader, or its buffer is still hot: the
\* request goes back to the end of the queue and nobody signals the Event.
RequeueChunk ==
  /\ Executing("async_read_chunk")
  /\ reader[cur.data] = "not_ready"
  /\ push(cur.code, cur.handler, cur.data)
  /\ Log(cur.handler)
  /\ cur' = Idle
  /\ wpc' = "check_empty"
  /\ UNCHANGED <<eventVars, handlerVars, fileVars, calling, length, reader>>

ChunkOutcome(state) ==
  IF state = "stopped"
  THEN {"stopped"}
  ELSE {"success", "end_of_file"} \cup (IF Faults THEN {"read_failure"} ELSE {})

ExecuteChunk ==
  /\ Executing("async_read_chunk")
  /\ reader[cur.data] # "not_ready"
  /\ \E code \in ChunkOutcome(reader[cur.data]) : cur' = [cur EXCEPT !.ec = code]
  /\ wpc' = "post"
  /\ UNCHANGED <<queueVars, eventVars, handlerVars, fileVars, historyVars,
                 calling, length, reader>>

\* Mutant: the handler is put before those already posted.
PostFirst ==
  /\ wpc = "post"
  /\ io_' = <<cur.handler>> \o io_
  /\ bound' = [bound EXCEPT ![cur.handler] = cur.ec]
  /\ cur' = Idle
  /\ wpc' = "check_empty"
  /\ UNCHANGED <<queueVars, eventVars, runs, fileVars, historyVars, calling,
                 length, reader>>

\* io_.post(std::bind(std::move(h), ec, size))
Post ==
  /\ wpc = "post"
  /\ io_' = Append(io_, cur.handler)
  /\ bound' = [bound EXCEPT ![cur.handler] = cur.ec]
  /\ cur' = Idle
  /\ wpc' = "check_empty"
  /\ UNCHANGED <<queueVars, eventVars, runs, fileVars, historyVars, calling,
                 length, reader>>

-----------------------------------------------------------------------------
(* The environment: the thread that runs the io_service, and the readers.  *)

RunHandler ==
  /\ io_ # <<>>
  /\ io_' = Tail(io_)
  /\ runs' = [runs EXCEPT ![Head(io_)] = @ + 1]
  /\ UNCHANGED <<queueVars, workerVars, eventVars, bound, fileVars, historyVars,
                 calling, length, reader>>

ReaderReady(r) ==
  /\ r \in issued
  /\ reader[r] = "not_ready"
  /\ reader' = [reader EXCEPT ![r] = "ready"]
  /\ UNCHANGED <<queueVars, workerVars, eventVars, handlerVars, fileVars,
                 historyVars, calling, length>>

ReaderStop(r) ==
  /\ r \in issued
  /\ reader[r] # "stopped"
  /\ reader' = [reader EXCEPT ![r] = "stopped"]
  /\ UNCHANGED <<queueVars, workerVars, eventVars, handlerVars, fileVars,
                 historyVars, calling, length>>

-----------------------------------------------------------------------------
Execute == ExecuteRead \/ ExecuteFdRead \/ ExecuteWrite \/ ExecuteAppend
             \/ RequeueChunk \/ ExecuteChunk

Worker == CheckDone \/ WaitEvent \/ ResetEvent \/ CheckEmpty \/ Pop \/ Execute \/ Post
            \/ Terminate

Running == wpc # "terminated"

Destructor == Destroy \/ DestroyNotify \/ DestroyJoin

Next ==
  /\ Running
  /\ \/ \E t \in Threads, r \in Requests : Submit(t, r)
     \/ \E t \in Threads : SetEvent(t)
     \/ Destructor
     \/ Worker
     \/ RunHandler
     \/ \E r \in ChunkReads : ReaderReady(r) \/ ReaderStop(r)

Spec == Init /\ [][Next]_vars

\* The operating system runs the worker, the thread of the io_service and a
\* thread inside a call.  Nothing obliges the application to submit a request,
\* to destroy the manager, or a reader to let a chunk proceed.
Fairness ==
  /\ WF_vars(Worker)
  /\ WF_vars(Running /\ RunHandler)
  /\ \A t \in Threads : WF_vars(Running /\ SetEvent(t))
  /\ WF_vars(Running /\ (DestroyNotify \/ DestroyJoin))

FairSpec == Spec /\ Fairness

-----------------------------------------------------------------------------
(* Properties.                                                             *)

WorkerPC == {"check_done", "wait_event", "reset_event", "check_empty", "pop",
             "execute", "post", "exited", "terminated"}

Cur == [code : OperationCode \cup {None}, handler : Requests \cup {None},
        data : Requests \cup {None}, ec : ErrorCode \cup {None}]

\* Every variable has its type.
TypeOK ==
  /\ q_operations \in Seq(Operation)
  /\ q_data \in [DataQueues -> Seq(Requests)]
  /\ available_ \in BOOLEAN
  /\ done_ \in BOOLEAN
  /\ wpc \in WorkerPC
  /\ cur \in Cur
  /\ calling \in [Threads -> Requests \cup {None}]
  /\ dtor \in {"alive", "notify", "join", "destroyed"}
  /\ io_ \in Seq(Requests)
  /\ bound \in [Requests -> ErrorCode \cup {None}]
  /\ runs \in [Requests -> Nat]
  /\ files \in [Paths -> File]
  /\ buf \in [Requests -> Contents]
  /\ length \in [Requests -> Nat \cup {NotOpen}]
  /\ reader \in [Requests -> {"not_ready", "ready", "stopped"}]
  /\ issued \in SUBSET Requests
  /\ ahead \in [Requests -> SUBSET Requests]

\* The worker never goes back to sleep on work: if it is about to wait and the
\* queue is not empty, the Event is set or a caller is about to set it; and if
\* the destructor has signalled, the Event is set.
NoLostWakeup ==
  /\ wpc \in {"check_done", "wait_event"} /\ q_operations # <<>>
       => available_ \/ \E t \in Threads : calling[t] # None
  /\ wpc = "wait_event" /\ done_ => available_ \/ dtor = "notify"

\* The four queues of arguments stay in step with the queue of handlers: what
\* the worker popped is the handler and the arguments of one and the same call.
Pairing ==
  wpc \in {"execute", "post"} =>
    /\ cur.handler \in Requests
    /\ cur.data = cur.handler
    /\ cur.code = Code[cur.handler]

\* The stages of a request: in the queue, in the hands of the worker, its
\* handler posted to the io_service, its handler run.
Queued   == {q_operations[i].handler : i \in 1..Len(q_operations)}
Held     == {cur.handler} \ {None}
Posted   == {io_[i] : i \in 1..Len(io_)}
Answered == {r \in Requests : runs[r] > 0}

\* A handler runs at most once: a request answered is neither queued, nor being
\* performed, nor posted again.
AtMostOnce ==
  /\ \A r \in Requests : runs[r] <= 1
  /\ Answered \cap (Posted \cup Held \cup Queued) = {}

\* Requests other than chunk reads are answered in the order of submission,
\* whichever threads submitted them and however often a chunk read goes round.
NoOvertaking ==
  \A a, b \in Ordered : a \in ahead[b] /\ b \in Answered => a \in Answered

\* While the manager is alive each request but a chunk read is answered, even
\* when a chunk read circulates for ever, unless a stream that is not open has
\* ended the program.
EveryRequestAnswered ==
  \A r \in Ordered :
    r \in issued /\ dtor = "alive" ~> runs[r] = 1 \/ dtor # "alive" \/ ~Running

\* The chunk reads the worker holds or finds in its queue and cannot perform.
Circulating ==
  {r \in ChunkReads : reader[r] = "not_ready" /\ r \in Held \cup Queued}

\* The destructor returns unless a chunk read that may not proceed keeps the
\* worker in its inner loop, which does not look at the completion flag, or a
\* stream that is not open has ended the program.
DestructorReturns ==
  <>[](dtor # "alive" /\ Circulating = {}) => <>(dtor = "destroyed" \/ ~Running)

\* fs_manager.h:338, "The request will be enqueued on the task queue of the fs
\* manager and the read operation will be performed on the worker thread as soon
\* as all previous pending tasks will have been completed."
EveryRequestPerformed ==
  wpc = "exited" => q_operations = <<>>

-----------------------------------------------------------------------------
(* The inductive invariant the proofs rest on.  ahead is a strict order    *)
(* that every queue follows; the stages follow it too, so that nothing is  *)
(* answered twice or too early, and the two halves of the operations queue *)
(* begin with the same request.                                            *)

AheadInv ==
  /\ \A a \in Requests : a \notin ahead[a] /\ ahead[a] \subseteq issued
  /\ \A a, b \in Requests : a \in ahead[b] => b \notin ahead[a]

InLine(s) == \A i, j \in 1..Len(s) : i < j => s[i] \in ahead[s[j]]

OperationsInLine ==
  \A i, j \in 1..Len(q_operations) :
    i < j => q_operations[i].handler \in ahead[q_operations[j].handler]

DataInLine == \A d \in DataQueues : InLine(q_data[d])

\* The queue that holds the arguments of the i-th operation.
DataOf(i) == DataQueue(q_operations[i].code)

HandlersHaveData ==
  \A i \in 1..Len(q_operations) :
    \E k \in 1..Len(q_data[DataOf(i)]) : q_data[DataOf(i)][k] = q_operations[i].handler

DataHaveHandlers ==
  \A d \in DataQueues : \A k \in 1..Len(q_data[d]) :
    \E i \in 1..Len(q_operations) :
      DataOf(i) = d /\ q_operations[i].handler = q_data[d][k]

QueueInv ==
  /\ wpc = "pop" => q_operations # <<>>
  /\ \A i \in 1..Len(q_operations) :
       q_operations[i].code = Code[q_operations[i].handler]
  /\ OperationsInLine
  /\ DataInLine
  /\ HandlersHaveData
  /\ DataHaveHandlers

HeldInv ==
  /\ wpc \notin {"execute", "post", "terminated"} => cur.handler = None
  /\ Pairing
  /\ wpc = "post" => cur.ec # None

StageInv ==
  /\ issued = Answered \cup Posted \cup Held \cup Queued
  /\ \A a \in Answered : \A b \in Posted \cup Held \cup Queued : a \in ahead[b]
  /\ \A a \in Posted : \A b \in Held \cup Queued : a \in ahead[b]
  /\ \A a \in Held : \A b \in Queued : a \in ahead[b]
  /\ InLine(io_)
  /\ \A r \in Requests : runs[r] <= 1

\* A code is bound to a handler when it is posted, and to no other.
BoundInv == \A r \in Requests : bound[r] # None <=> r \in Posted \cup Answered

IInv ==
  TypeOK /\ NoLostWakeup /\ AheadInv /\ QueueInv /\ HeldInv /\ StageInv /\ BoundInv
============================================================================

# Formal model of cynnypp

cynnypp is a C++ library of asynchronous file operations, buffers that swap to
disk, signals and Bloom filters. This directory holds TLA+ modules that model
its own logic, the TLC configurations that model-check them on small instances,
and theorems about them that TLAPS checks for every value of the constants.

Contents: [1 The system](#1-the-system) · [2
Modules](#2-modules-and-how-they-correspond-to-the-code) · [3 Runs](#3-runs) · [4
Fairness](#4-fairness) · [5 Proofs](#5-proofs) · [6 What the code does against its
documentation](#6-where-the-code-and-its-documentation-disagree) · [7 Not
modelled](#7-what-is-not-modelled) · [8 Plan](#8-plan)

`PROJECT.json` lists components, runs, mutants, theorems, hazards, and for
every definition the source lines it stands for. Paths below are relative to
the repository's `src/`, which begins with `src/` again (`src/io/async/fs/...`).

## 1 The system

### FilesystemManager (`src/io/async/fs/fs_manager.{h,cpp}`), with OperationsQueue and Event

*State.* An `OperationsQueue`: one queue of (operation code, handler), and four
queues of arguments, one per kind of operation, writes and appends sharing one.
An `Event` (flag, mutex, condition variable; `src/utilities/event.h`). The flag
`done_`. One worker thread.

*Operations.* `async_read` (of a path, of an open stream), `async_write`,
`async_append`, `async_read_chunk`: push under the queue's mutex, then
`set_event`. The worker: test `done_`, wait for the event, reset it, then until
the queue is empty take `front()`, pop the arguments, perform the operation, post
the handler to the `io_service`. The destructor: `done_ = true`, `set_event`,
join. Buffers are passed by reference, not copied.

*Hard behaviour.* The wake-up protocol is three separate critical sections. The
handler and the arguments of a request travel in different queues. A chunk
read that may not proceed is pushed again at the back, so the queue is not FIFO
for it, and the worker's inner loop spins on it without looking at `done_`. File
operations fail at open, at transfer and at close, and some failures are not seen.
Writing refuses a path that is there and no regular file, reading admits a link. A
stream that never opened has length -1, and reading it whole throws out of the worker,
which ends the program.

*Correct when:* no request sleeps in the queue while the worker sleeps; a
handler gets the result of its own arguments, once, in order; the effects on
the files are those of performing the requests one after the other; the
destructor returns.

### ChunkedReader, HotDoubleBuffer, ChunkedFstream (same files)

*State.* Two halves of a buffer with size, error code and an atomic `hot` flag;
the position to schedule next; the number of reads made ahead (`n_enqueued`);
handlers waiting for such a read; halves ready before anyone asked; on the
worker's side the stream and `bytes_read_`.

*Operations.* `next_chunk` takes a ready half, or queues its handler, or answers
end of file, or reads directly and prefetches. Two lambdas run when a direct read
or a prefetch completes. The worker performs a read when `bytes_read_` equals
its position and its half is not hot, and requeues it otherwise. Destroying the
`ChunkedFstream` stops the reader.

*Hard behaviour.* The `io_service` thread and the worker share the halves with
only the `hot` flags between them. Reads overtake one another in the queue.
Handlers call `next_chunk` in the middle of the lambda that runs them. The file
may change size after the constructor took it. The reader may be stopped with
reads queued.

*Correct when:* the answers are the chunks of the file, in order, each once; no
half is refilled before it is consumed; every call is answered; the assertions
of the code hold.

### SwappingBuffer, SwappingBufferAppend, SwappingBufferOverwrite (`src/io/async/swap`)

*State.* Two vectors `bufA`, `bufB` and which is current; the real size; flags
`isOnDisk`, `swapping`, `error`, `isFirstSwappingAttempt`, `isFirstSaveAttempt`;
a list of operations waiting for the end of a swap; `tmp_read`; the temporary
file and the destination.

*Operations.* `append`, `clear`, `size`, `readAll`, `save`. When a chunk would
exceed the threshold the vectors change roles and the full one is appended to the
temporary file by the FilesystemManager, which keeps a reference to it. A failed
swap is retried once. An Overwrite buffer is saved by moving the temporary file,
an Append buffer by copying it chunk by chunk to the end of its destination.

*Hard behaviour.* A vector is written from another thread, later. Operations
asked for during a swap are postponed and then all posted at once. The
application's callback runs in between. Every file operation may fail, and the
handlers chain up to four of them; three of the failures throw out of a handler, into
the `io_service`, and end the program. Sizes narrow to `uint32_t` on their way to the
callbacks. The stream a save copies from may never give a chunk.

*Correct when:* disk, vector in flight and current vector together hold what was
appended; `readAll`, `size`, `append` and `save` report exactly that; every call
is answered once.

### Composite chunked readers (`src/io/async/swap/chunked_readers.{h,cpp}`)

*State.* Per reader the streams it has yet to read, a position in the current
vector of its buffer, and the flag `stopReading` it shares with its owner.
*Operations.* `make_chunked_stream` of a buffer makes one of three: a
`CacheChunkedReader` reads the vector; the Overwrite reader reads the temporary
file, then the vector; the Append reader reads the file the buffer extends,
then the temporary file, then the vector. `next_chunk`, and the destruction of
the owner's handle, which stops the reading. *Hard behaviour.* Where one part
ends, with or without a last chunk, the answer's code has to change and the next
reader has to take over, through the `io_service` and through `this`. *Correct
when:* the answers are the content of the buffer, in order, each byte once, then
the end.

### Synchronous file helpers (`fs_manager.cpp`, anonymous namespace and lines 91-224)

No state. `exists`, `move`, `copyFile`, `copyDirectory`, `removeFile`,
`removeDirectory`, `createDirectory`: each checks the type of a path, looks where
its destination is, and then asks the operating system. *Hard behaviour.* The
tree may change between these steps, from other threads or from the worker;
copying a directory takes many steps and may fail in the middle; a directory may be
copied into itself. *Correct when:* a call does what `mv`, `cp` or `rm` would, or
throws and leaves what there was; and touches nothing it is not about.

### Signal and Bus (`src/signal`)

*State.* Per event type a vector of (weak pointer, stub). *Operations.* `add`
(which removes an equal call first), `remove`, `publish`, `size`; on the bus
`reg` and `unreg` for every event type a class has a member `receive` for.
*Hard behaviour.* Listeners expire at any moment, also while a handler runs;
`publish` erases expired calls through a reverse iterator while it goes through
the vector; all expired pointers are equal to each other; handlers publish other
events and throw. *Correct when:* a live subscription is never lost or doubled,
and a publication calls everyone who is subscribed once.

### BloomFilter and CountingBloomFilter (`src/bloom_filters`)

*State.* An array of bytes and k hash functions; the counting one packs counters
of 2, 4 or 8 bits. *Operations.* Construction from k functions, or from one
function and a seed; `set`, `has`, union, copy, move, assignment, serialization,
and for the counting one `remove` and `count`. *Hard behaviour.* Sizes that do
not fill the last byte, filters of different hash functions united, filters moved
from; carries between counters, and a reference member that a move leaves
aliased. *Correct when:* there are no false negatives, and no more positives
than the elements explain.

### How they interact

    application --calls--> SwappingBuffer --async_*--> FilesystemManager --posts--> io_service
         ^                     |   (references to its vectors)   ^                      |
         |                     +--make_chunked_stream--> ChunkedReader <--read_file_chunk|
         +------------------------ handlers, callbacks <--------------------------------+

The `io_service` thread runs every handler; the worker runs every queued file
operation; application threads only push and signal. Signal/Bus and the filters
are used in one thread and interact with nothing else.

## 2 Modules and how they correspond to the code

| Module | Models |
|---|---|
| `FileOps` | `check_path_admitted`, `readFile`, `fdReadFile`, `writeFile`, `appendToFile`: the outcomes each may have |
| `FileTree` | the other file helpers, step by step, on a tree of files that several threads change |
| `FileTreeProofs` | theorems about it |
| `FilesystemManager` | the queue, the Event, the worker, the io_service, the destructor |
| `SerialFs` | abstract: requests performed one at a time in the order of submission; what each may give and do is stated there, without `FileOps` |
| `FilesystemManagerRefinement` | the refinement mapping from the manager to `SerialFs` |
| `FilesystemManagerProofs` | theorems about the manager, and that it implements `SerialFs` |
| `ChunkedReader` | a `ChunkedFstream` with its `ChunkedReader`, double buffer and worker |
| `ChunkedReaderInvariants`, `ChunkedReaderProofs` | what is true of its reads in every state, and the theorems |
| `ChunkStream` | abstract: the i-th call gets the i-th chunk |
| `SwappingBuffer` | both kinds of swapping buffer over a serial file service that may fail |
| `BufferReaders` | the composite chunked readers, over `SwappingBuffer` and streams of `ChunkStream` |
| `SwappingBufferInvariants` | the inductive invariants of the two |
| `SwappingBufferProofs`, `BufferReadersProofs` | the theorems about the buffer, and about its readers |
| `Signal`, `Bus` | the list of calls; the bus with publications, listeners and handlers |
| `BusProofs` | theorems about both |
| `BloomFilter`, `BloomFilterProofs` | filters and their theorems |
| `CountingBloomFilter`, `CountingBloomFilterProofs` | counting filters over a heap of arrays, and their theorems |
| `MC*` | instances for TLC |

**FilesystemManager.** An action is one critical section or one call that cannot
be told apart from outside. `Submit` is the push under the mutex, `SetEvent` the
signal after it, so that the worker may run in between. `CheckDone`,
`WaitEvent`, `ResetEvent`, `CheckEmpty`, `Pop` are the steps of `process_queue`
and the beginning of `perform_next_operation`; `Pop` joins `front()` and `pop_*`,
which only the worker calls and between which others only append. `Execute*`
perform the file operation, `Post` posts the handler, `RunHandler` is the
`io_service`. A request is an identifier that stands for its handler, its
arguments and the piece of data it writes, so that a mix-up of queues shows.
`reader` says whether the reader of a chunk read lets it proceed and is free to
change: the real reader is in `ChunkedReader`. `ahead` and `issued` are history.
`Faults` lets any look at a path, open or transfer fail: a look that fails is
`internal_failure` (fs_manager.cpp:66-69), a transfer of `fdReadFile` that fails half
way leaves padding and says success. The length of a stream that never opened is
`NotOpen`; reading it is `Terminate`: `resize` throws `std::length_error`
(fs_manager.cpp:233), which the handler at line 522 does not catch, and nothing runs any
more (`Running`).
The type of a file never changes after `Init`; a file that becomes absent or of
another kind while requests are queued is outside the model, a file that
another process truncates is not.
`Workloads` lists the sets of requests of which a run makes one.

**ChunkedReader.** Main-thread steps are split wherever the worker can
observe the difference: `ReadDirect` pushes the read, `AdvanceDirect` then adds
the size of the half (which the worker may have cut meanwhile, lines 598-599);
`TakeReady` releases the half, `PostReady` copies its code afterwards. The worker
reads, makes the half hot, sets its code and posts. `Consumers` are
ways to call `next_chunk`: *eager*, in the handler of the call before;
*sequential*, after that handler has returned; *pipelined*, at any time. A chunk
is a position and a size: the bytes themselves are not needed to tell whether
the right ones were delivered. Failed assertions are the state `aborted`.

**SwappingBuffer.** One action per public operation, per path through it, and
per completion handler. The file service is a queue performed in order
(`SerialFs` is what the manager is shown to implement, and this module is what it
is used by); a vector handed over is read when the request is performed. The effects
and codes of `PerformRequest` and `FailRequest` are those of fs_manager.cpp:454-528 but
for data lost when a file is closed, which the code does not notice (section 6).
Content is a sequence of pieces, one per `append`, and a piece is one chunk of
the temporary file: how chunks are cut is `ChunkedReader`'s business. `Faulty`
names the operations that may fail, `MaxFaults` how often. `ClearThrows`, `SaveThrows`
and `DirectoryThrows` are the failures that throw out of a handler: no code of the
library catches them, so the program ends (`pc` is `"thrown"`, `Alive` is false).
`Uint32` is the number of values of the type the callbacks take. The first
`SureChunks` chunks of a stream come, one beyond them may never be given. `InFlight`
is what all the swaps under way will add, one after the other. `Overlaps` lists the
pairs of calls of which the second may come while the first is unanswered: the
code is only safe for some of them (section 6), and each run names its own.

**BufferReaders** extends `SwappingBuffer`, whose actions it keeps, by a reader
the application asks for with `make_chunked_stream` and then reads to the end.
Data is made of bytes here, a piece and a place in it, because chunks cut
pieces. The inner streams are the abstract `ChunkStream` (which `ChunkedReader`
implements): `AskStream` posts the next chunk, which beyond the first `SureChunks` it
need never do (`StreamAwaits`), and the handlers `OfFile` and `OfTmpFile` run in the
`io_service` and hand over to the next part. A stream that cannot be opened throws: in
`MakeThrows` out of the posted task that makes the reader, in `OfFileThrows` out of the handler
that opens the temporary file; both end the program. The
application awaits each chunk, and does not call a buffer that has a reader: the
code says it assumes so. `Stop` may come at any time.

**FileTree.** A path is a sequence of names, the tree a function from paths. The `Begin`
of a call is its first check, `Look` the test of its destination, `Act` the call of the
operating system. An entry of a directory being copied takes three steps: `Copy` asks
whether it is a directory, `CopyEntry` looks at the type of one that is not, `CopyFile`
copies it. Any other thread may act in between. What the operating system and boost do
(`rename`, `copy`, `remove_all`, ...) is external and stated as an outcome on the tree.
`before` and `alone` are history: the tree a call found, and whether anyone changed the
tree since; `Told` is what such a call must return.

**Signal, Bus.** `Signal` defines what `add`, `remove` and the loop of `publish`
do to a list of calls; `Bus` is the state machine. A publication is a record on
a stack, with the position of its iterator, because a handler may publish
another event before it returns. `alive` contains the listener whose stub runs,
for the stub holds a `shared_ptr`. While a signal is being published nobody may
change its list or publish it again (`Busy`): the code keeps iterators into the
vector, and what happens otherwise is not defined.

**BloomFilter.** A byte is the set of its bits, an object a record of its members
and its history: `added`, the elements its own hash functions have marked, and
`mixed`, whether other marks were united into it. Copies and moves carry the
history with the value. The object a move leaves behind is zero and has empty
functions: `BloomFilter()` in the member initialiser of the move constructor
value-initialises. The arguments of `set` and `has` are values of ElementType: no
conversion that moves from an rvalue takes place.

**CountingBloomFilter.** Counters are parts of bytes, and set, remove and += are
arithmetic on the whole byte modulo 256, as in the code; reading masks four bits
whatever the width. The reference member `bf` is an index into `memory`, and `heap` says
which arrays exist: a move makes two objects name one array. `added`, `mixed` and
`moved` are history; `mixed` is set when a counter passes its limit, when an element
that is not there is removed, when counters of other hash functions or another object's
writes come in, and by `operator+=` on counters of two bits that its mask of four bits
misreads (`Misread`: a counter other than the first of its byte is in use in one of the
two filters). `moved` says that an object was ever moved from: `a` stays so after
`b(std::move(a)); a = c;`, as its reference does. An object of which nothing is known
any more is only moved, assigned to and destroyed (`Known`), a bound on what is
explored.

## 3 Runs

Every property of a passing run has a *mutant*: a plausible bug (a dropped guard,
an element off, a missing reset), written as an operator beside the definition it
replaces, under which TLC finds the property violated.

| Run | Instance | Shows |
|---|---|---|
| `fm_requests` | 2 threads; one of four sets of requests: write, append and read of a stream; append and chunk read; read and chunk read; read through a link and append; any look, open or transfer may fail, and a stream may not have opened | `NoLostWakeup`, `Pairing`, `AtMostOnce`, `NoOvertaking`, the inductive `IInv`; refinement of `SerialFs`; each request is answered; the destructor returns |
| `fm_dropped` | 1 thread; two chunk reads, a write | *violated:* requests accepted before the destructor may be dropped |
| `chunk` | files of 0 to 8 bytes, chunks of 2, which may become 1, 3 or 9 bytes; the stream may be destroyed; all three consumers; 5 calls | halves are not overwritten, chunks exact, no byte given twice; undisturbed: assertions, refinement of `ChunkStream`, awaited calls answered (eager: all, sequential: the first three) |
| `chunk_unanswered` | sequential, 5 calls | *violated:* a call is never answered |
| `chunk_destroyed` | the stream may be destroyed | *violated:* an assertion of the code fails |
| `swap_waiting` | both kinds; chunks of 1, 3, 4 bytes, threshold 3; 4 calls, 2 faults in any file operation but the second read of a `readAll`, some of which end the program; streams sure of two chunks; sizes modulo 8; then a reader with chunks of 2, over a file of 0, 2 or 3 bytes | nothing lost, vectors left alone, content and size exact, calls answered once; the reader hands out the same content, whole, and ends |
| `swap_lost` | two appends of 4, the second does not wait | *violated:* appended data is lost |
| `stream_early_end` | an Append buffer over an empty file, swapped | *violated:* the reader ends before the content does |
| `file_tree` | 2 threads, 2 calls, 2 names, paths of up to 4; two trees | undisturbed calls exact, in what they do and in what they return, nothing touched that is not asked for, every call returns |
| `bus` | 2 listeners, 1 free function, 2 events | subscriptions kept, everyone called once, expired calls swept |
| `bloom_filters` | 2 filters, 10 bits, k = 2, 2 elements, two families of hashes | no false negatives, exact content |
| `counting_filters` | 2 filters, 5 counters of 2, 4 or 8 bits, k = 2, 2 elements | references sound, counters and counts exact |

**Why the bounds are enough.** *fm_requests:* two threads are the least that push
between each other's push and signal. The four sets of requests are the combinations
that interact: a write and an append share a queue of arguments and the file of a stream
that is read; a chunk read goes round among requests that change, or read, its file; a
read through a link, which the code admits. Faults can strike each look, open and
transfer. *chunk:* files of up to four chunks of two bytes fill both halves twice and
end in full and in cut chunks; five calls go one past the end, and, made at once, fill
both the queue of waiting handlers and that of ready halves. *swap_waiting:* with a
threshold of 3, a chunk of 1 fits, one of 3 just fits an empty vector and exceeds any
other, one of 4 exceeds the threshold by itself; four calls reach a swap, an operation
that waits for it, a second swap, and a save or a reader; two faults are a failed swap
and its failed retry. Four calls with chunks of up to four bytes append more than the 8
that sizes wrap at. `SureChunks` is 2 where the code's is 3 (`AwaitedCallsAnswered`), so
that temporary files of three chunks, which these bounds reach, already meet a chunk
that never comes. Chunks of two bytes make each part a reader goes through end with a
full chunk, with a cut one, or be empty. `"read_tmp"` is not in `Faulty`: its code is
ignored by the program (a hazard without a property). *file_tree:* the trees have nested
directories, files, a link and an empty directory; arguments of one and two names name
each of them and places where nothing is, and four levels let a directory copied into
itself be entered once more before the path is too long. Two calls are one interference.
*bus:* two listeners can expire in either order in a list of three, and publications
nest to the number of events. *bloom_filters:* ten bits use two of the last byte; the
positions of the two elements collide within a family, between families, and lie in both
bytes. *counting_filters:* five counters take two bytes with two bits, three with four
and five with eight, the last byte partly used in the first two cases. x uses the
counters 0 and 4, y 1 and 4: they share one, and 0 and 1 are neighbours. With two bits x
has only first counters of its bytes, which `operator+=` reads rightly, and y has
another. The functions made of one give x the counters 1 and 3, y 0 and 3. x may be in a
filter 0, 1, 2, 3, 5, 10 or 15 times, so that unions and removals reach the limits 3 and
15 beside an occupied neighbour without every number between. Object names and listener
names are symmetric there, and only safety is checked.

`CHECK_DEADLOCK FALSE` appears where the system may rest with everything
answered; `bus`, `bloom_filters` and `counting_filters` never rest and are checked for
deadlock.

**The discipline of `swap_waiting`.** `Waiting` lets an application issue, while
a long append is unanswered, one short append or one other operation; `size` and
calls after `clear` may follow at once, and a reader may be asked for meanwhile.
That is what the code supports. Outside it: two overlapping long appends lose
data (`swap_lost`); a `clear` or `save` queued behind a postponed append runs
during the swap that append starts, as `performPendingOperations` posts
everything at once (swapping_buffer.cpp:100); calls made in the callback of a
swap that start a swap and then queue an operation see it run during their own
swap, since line 140 is unconditional; two `readAll` share `tmp_read` and the
second returns its content twice.

## 4 Fairness

Weak fairness of the worker, of the thread of the `io_service`, and of a thread
inside a call: the operating system runs them, and no lock of the library is
held while waiting for anything but the Event. Handlers of the application
return. Nothing obliges the application to call, to destroy an object, or another
process to leave a file alone. In `FilesystemManager` a chunk read's reader need
never let it proceed: `EveryRequestAnswered` holds with one going round for
ever, `DestructorReturns` assumes that from some point on none does.
Both except a worker that a stream which never opened has ended.
`AwaitedCallsAnswered` rests on the same
threads. It says which calls of `next_chunk` an undisturbed reader answers: all of an
application that calls in the handler of the call before, the first three of one that
calls after it; that is what `SureChunks` stands on. The fairness of the buffer is of
its handlers, those that throw included, and of `ObligedWorker`: the worker but for a
chunk beyond the sure ones. `EveryCallAnswered` therefore excepts the save that awaits
such a chunk, as well as a call that waits for the end of a swap that failed, the save
whose first move failed, and every call of a program an exception has ended;
`EveryReadAnswered` excepts a reader that awaits such a chunk (`StreamAwaits`) and the
end of the program. A thread inside a helper of `FileTree` goes on with it; nothing makes it
call. The owner of a reader need not read on. Weak fairness suffices: a step of a
thread stays enabled until that thread takes it.

## 5 Proofs

Checked by TLAPS for all values of the constants that satisfy these named
assumptions, which TLC evaluates on every run:

- `FilesystemManagerAssumption`: operation codes, paths and initial files have their
  types; every request has a piece of data of its own; None is none of them.
- `ChunkedReaderAssumption`: chunks are not empty, sizes are naturals, None is neither a
  call nor an answer.
- `SwappingBufferAssumption`: threshold and chunks are not empty, the other constants
  have their types, None is not the content of a file.
- `BufferReadersAssumption`: chunks are not empty, sizes are naturals, None is neither a
  position nor a stream nor a reader.
- `FileTreeAssumption`: in the trees to start with everything but the root is in a
  directory (`IsTree`); the arguments are paths other than the root.
- `BusAssumption`: stubs of functions are not stubs of members, None is neither a
  listener nor a call.
- `BloomFilterAssumption`: m and k positive, hash functions map elements to naturals.
- `CountingBloomFilterAssumption`: the like; the exclusive or of the two naturals a
  filter of one function takes is a natural; finitely many objects and elements, None is
  no array.

The theorems about buffers have hypotheses on the application besides, `SwapsAwaited`,
`ReadsAlone` and `StreamAwaited`; see there.

**FilesystemManagerProofs**: `Invariance` (`Spec => []IInv`) and from it
`TypeCorrect`, `WakeupIsNeverLost`, `HandlersGetTheirArguments`,
`HandlersRunAtMostOnce`, `HandlersRunInOrder`, for any number of threads,
requests and paths. None of the properties is inductive. `IInv` adds to
`TypeOK` and `NoLostWakeup`:

- `AheadInv`: `ahead[r]`, what was pushed before r was last pushed, is a strict
  order on what was issued. A requeued chunk read moves to the end of it.
- `QueueInv`: the queue of handlers and each queue of arguments follow that order,
  each handler has its arguments in the queue of its code, and the reverse. Two
  queues that follow one strict order and hold the same requests begin with the
  same request, which is why `pop` pairs them (lemma by the order, without
  counting). This is needed because the i-th handler is not the i-th entry of its
  queue of arguments.
- `HeldInv`: what the worker holds is paired and performed when it is to be posted.
- `StageInv`: an issued request is answered, posted, held or queued, and
  everything in an earlier stage is ahead of everything in a later one. At most
  one handler run and no overtaking both follow from it: a request in two
  stages would be ahead of itself.
- `BoundInv`: a code is bound to a handler exactly when it has been posted. The
  refinement needs it, for a request without a code is one not performed yet.

`NoLostWakeup` is a conjunct of `IInv` too; its step needs little beyond the types.

The same module proves `Refinement` (`Spec => ImplementsSerialFs`), the safety part of
the refinement run `fm_requests` checks. The mapping shows the service the requests
other than chunk reads, the order among them, the files, the buffers of the reads, the
lengths of their streams, and as result of a request the code the worker holds for it or
has bound to its handler. `SerialFs` states what each operation gives and does by its
code and without the operators of `FileOps` (`Effect`), so that a wrong outcome of one
of them fails the refinement, and the run. A push maps to `Submit`, `Conclude` (the end
of a file operation) to `Perform`, a handler's run to `Answer`, everything else to a
stutter, `Terminate` too, after which nothing moves. The one hard step is that the held
request is the service's next (`HeldIsNext`): by `AheadInv` and `StageInv` what is ahead
of it is neither held nor queued, so it is posted or answered, and by `BoundInv` it has
a result. The handler's run follows in the same way from the io_service being first in,
first out (`StageInv`).

**BloomFilterProofs**: `NoFalseNegativesAlways`, `ExactAlways`, `IInvAlways`,
`TypeCorrect`. `IInv` says that every object, and the object a serialization was
taken from, is sound: it has the marks of what it was told of, only those unless
it is mixed, and promises nothing once it was moved from. The last two
conjuncts are the strengthening: without the saved filter a restored one need not
be sound. Lemmas establish that positions below m lie in the array
(`PositionInBytes`), that the union of arrays has the bits of both
(`UniteBytesOf`, `HasUnited`), and that each way of making a filter value
(`ConstructedSound`, `RestoredSound`, `UnionSound`, `SetSound`) gives a sound one.

**CountingBloomFilterProofs**: `ReferencesAlwaysSound`, and from a second invariant
`TypeAlwaysOK`, `CountersAlwaysExact` and `CountsAlwaysKept`, for every number of
counters, hash functions, elements and objects, and counters of 2, 4 and 8 bits.

- `RefInv` adds to `ReferencesSound` that an object deletes no array but the one it
  refers to, and that of two objects that refer to one array *neither* deletes it. That
  is what destruction needs, and it is why the move constructor must clear the old owner
  and not become one. A fresh array exists whenever some object does not live: there are
  as many names as objects (`FreshArray`, by counting).
- `CountersExact` and `CountsKept` speak of filters that are not `mixed`. With four and
  eight bits they cover every union of filters with the same functions; with two bits
  only those of filters that use no more than the first counter of a byte, because the
  code's other unions are wrong (section 6). They do not cover an object written through
  another after a move.
- `IInv` is `TypeOK`, `RefInv` and `ExactInv`: of every object of which something is
  known, each counter (`Field`) is `Expected` and within its limit. `RefInv` is needed,
  for writing an array must leave the counters of every other known object alone. That
  no counter passes its limit is needed, since arithmetic is on the whole byte and a
  carry would go into the neighbour. `CountersExact` follows with `ExpectedOne`.
- The arithmetic of a byte is stated per width (`AddTwoBits` to `TakeEightBits`) and
  joined in `ByteAdd`, `ByteTake` and `ByteNibble`: adding to one counter of a byte,
  modulo 256, leaves the others as they are when the sum fits.
- `set` and `remove` go through the hash functions one by one, a function over an
  interval of naturals. `AddRuns` and `SubtractRuns` follow it by induction on the
  number of functions, stated of a set of numbers; `SetCounts` and `RemoveCounts` say
  what becomes of each counter, `UniteCounts` the same of `operator+=`. `ExpectedGrows`
  says how the sum over the elements moves, and `CountsOf` what `has` and `count` read,
  as a least element.

**ChunkedReaderProofs**: `TypeCorrect` and `DeliveredOnceAlways`, whatever the calls,
the sizes of the file and the moment the stream is destroyed. Neither is
inductive. `TypeCorrect` says that `n_enqueued` stays in 0..2, and it is lowered
after a prefetch's handler; `CountInv` adds that it counts the prefetches that are
in the worker's queue, in its hands, posted or calling the application, wherever
each is. `DeliveredOnce` speaks of what the calls were given; `PlaceInv` extends it
to every place the bytes may be on their way: a half that is filled and not
released, the copy `next_chunk` makes, a handler posted with its answer. No two of
them share a byte, and the bytes of all have been read. A step that hands bytes on
takes them from one place to another (`PlacesMoved`), which is sound because the
half is released in the same step and the worker, which may fill the half the
moment it is released, reads only what follows (`ReadInv`).

`HalvesApart`, `AssertionsHoldAlways` and `ChunksExactAlways` need the order of the
reads, which the code does not keep: the worker attempts them in any order, puts them
back, and the halves are used in turn. `FlowInv` (in `ChunkedReaderInvariants`) says
that there are numbers for them: how many were scheduled, made and handed on, a number
for every read in the queue, in the worker's hands and in the `io_service`, and how many
of the first k reads are prefetches. Every step has a lemma that names the numbers after
it. The heart is `WindowInv`: a read is made only into a half that is not hot, reads are
made in order, and consecutive numbers use different halves, so what is made and not
consumed is at most two reads with a half each. `EnqueuedInv`, `DirectInv` and `ReadyInv`
tie `n_enqueued` and the waiting calls to the numbers: when halves are ready, no call
waits and only prefetches are under way, so a direct read never overtakes a ready half.

`FlowInv` has two ways out. `Broken`: the file has changed its size, and a read has
failed or an assertion of the worker has, after which nothing more is read. `Drained`:
the stream was destroyed, the handlers of the reads that were found stopped have begun to
run, and find every half released or put it in `q_buf_ready`. Both are kept by every step,
and in neither is a half being filled. `AssertionsHoldUndisturbed` follows, as both need a
disturbance. `EndInv` says that a file that keeps its size is read to its end and no
further, `ContentInv` that chunks of the file, with the code that belongs to them, are
what the half being filled, the hot halves, the copy, the posted handlers and the answers
hold. It rests on `HalfNotOverwritten`: the code of a half is read when its read is
posted and again when it is copied, and is the same one. It also rests on the
order: a handler of a read that was not made finds no half hot that another read filled
(`DeadFindsReleased`).

`StreamImplemented` is the refinement `ImplementsChunkStream`, for an application that
awaits each answer (`"eager"` and `"sequential"`), any number of calls and any file. A
call maps to `Ask`, the run of a handler that answers one to `Reply`, everything else to
a stutter. `SerialFlow` adds four facts to the numbers of the reads. Only the latest call
may wait, and in one place of four (`AwaitInv`): for a prefetch, for a read of its own,
for the code of its copy, or for its handler to run. No read is for an earlier call
(`ForInv`). The number of the call is that of the reads handed on less the halves that are
ready, plus one while it waits for a read (`TurnInv`); this is what makes the i-th answer
the i-th chunk although direct reads and prefetches, waiting handlers and ready halves mix.
The halves made and not consumed hold the chunks with those numbers (`FromInv`). A call
that is answered `end_of_file` at once finds no read under way, hence, by `EnqueuedInv`,
that as many chunks were handed on as there are.

**FileTreeProofs**: `Invariance`, `OnlyThereAlways`, `TreeAlways` and
`CallsExactAlways`, for any names, trees and number of threads. What a step of a call
may change depends on what the call works on, and that changes with every directory a
copy enters and every destination that leads into a directory: `Bound` says that it
always lies under the destination the call was given, for every directory still open
too, and that no path worked on is the root, so that it has a last name. `Look` and
`Copy` add names to a path under the destination (`PrefixAppend`); each call of the
operating system has a lemma that says where it changes the tree and what it overwrites
(`RemoveThere` to `RenameThere`). Nothing is assumed of what the other threads do to the
tree between two steps of a call but that they are calls of the helpers.

`CallsExact` speaks of the result of a call; `ExactInv` says what holds of a call nobody
interferes with before it has one. Until it changes anything (`StartInv`) the tree is
the one it found, and its destination is where that tree leads it. A copy of a directory
is a loop over a recursion, kept as a stack. `Stack`: each directory of it is an entry,
already seen, of the one below it. `Frame`: what there was is as it was, and what is new
is the copy of something dealt with. `Complete`: what is dealt with has its copy. Dealt
with (`Past`) is the directory itself, each entry seen of a directory of the stack, and
what lies below such an entry unless it is the next directory of the stack. The tests of
an entry (`Copy`, `CopyEntry`) leave the tree and the stack alone; until the last of
them the entry is not among those seen (`Copies`). These three are kept when an entry is
copied (`CopyingFile`), entered (`CopyingNew`, `StackPush`), passed over (`CopyingSkip`)
and when a directory is done with (`CopyingPop`), and at the end all that was below the
source is dealt with (`CopyingDone`). A copy of a directory into itself is not excluded,
it is shown never to succeed: no directory dealt with holds its own copy (`NotPast`), so
that when the loop came to its end the copy would have to contain itself; it ends only
by a path that is too long. That the call returns what it must (`Told`) follows in the
same place as what it did, from what its first look and its last step saw. The moves
rest on `Moved`, which takes what is below one path to another: it has an inverse
(`MovedBack`), and distinct things stay distinct. That there is always a directory above
what is in the tree, which the copies rely on, is `TreeAlways`.

**BusProofs**: `TypeCorrect`, `SubscribedOnceAlways`, `SubscribedAlways`,
`CalledOnceAlways` and `ExpiredSweptAlways`, for any number of events, listeners and
functions and publications nested to any depth. The properties speak of a publication at
its end; `Passed` says what holds while its iterator moves: every element before the
iterator was listed when it began and has not been called, who is due, valid and not
called is before it, and what had expired is not behind it. `Distinct`, that no two
publications are of one event, makes erasing harmless to the outer ones, and
`FewerValid`, that a step leaves fewer calls valid or as many, keeps `Passed` when
listeners are destroyed: the listener a handler runs for stays alive, so a handler
does not make a call valid again that had expired. `KeptElements` says what
`std::remove` leaves: it is an argument by counting, because the library's
`SelectSeq` would need an induction. The size of the bus is a sum over its signals;
`PairsCounted` says that a sum of the sizes of sets counts the pairs of a set and a member
of it, and `SizeCounts` follows.

**SwappingBufferProofs** and, for the last two, **BufferReadersProofs**, both about
`BufferReaders`, that is, buffers with their readers: `AnsweredOnceAlways`,
`NothingLostAlways`, `VectorsLeftAloneAlways`, `ContentExactAlways`, `SizeExactAlways`,
`TypeCorrect`, `ReaderThereAlways` and `StreamExactAlways`, for every threshold, sizes of
chunks and of the file extended, number of calls, choice of operations that fail and
number of failures. `IInv` (in `SwappingBufferInvariants`) has three layers. It is shown
to hold as long as no exception has got out of a handler: no step lets a program go on
that an exception has ended (`StepAlive`, `UntilThrown`), and the step that ends it
leaves the answers, the files and the queue of the worker as they are (`ThrowEnds`), from
which `AnsweredOnce`, `ContentExact`, `SizeExact`, `VectorsLeftAlone` and, with
`ThrowTypes`, the types are as true as before.

- For every application, `CallInv` and `KindInv`: a call that has no answer yet is in
  one place, waiting for a swap, for the worker or for the io_service (`TokenInv`); a
  request and its handler belong to the call they were made for (`RequestInv`); a
  call has at most one answer, or is the save that section 6 describes (`AnswerInv`).
  `AnsweredOnceAlways` has no hypothesis.
- Under `SwapsAwaited`, the second layer: which calls are outstanding together
  (`OverlapInv`); there is at most one swap, `swapping` says so, and no operation is
  posted during one (`SwapInv`); what was appended is on disk, in flight and in memory,
  in this order (`DataInv`, with the types it needs, `FileInv`). `DataInv` also says when
  the temporary file is created anew, since to do that when it is there would lose it.
- Under `ReadsAlone` as well, the third: calls have their turns in order and a save is
  the last (`OrderInv`), no swap runs during a `readAll` or a `save` (`WorkInv`), the files
  are there when the buffer thinks so (`FilesThere`), and for each of the eight steps of
  those two what holds while its request waits and when its handler does (`JobInv`): for
  instance that the destination of a save is the file with the first n chunks behind it.

`SwapsAwaited` says that while an append that starts a swap is unanswered the
application appends no more than fits, and makes such calls neither after one another
nor in the callback of a swap. It cannot be dropped: `swap_lost` is an instance without
it in which data is lost. `ReadsAlone` says that it awaits what it reads but for calls
of `size` and for a reader, and that the second read of a `readAll`, whose code the
program ignores, does not fail; two hazards in `PROJECT.json` say what happens
otherwise. These hypotheses are stated of the constants. Four more stand on `IInv`:

- `SizeInv`, for every application, says that `realSize` is the sum of what was appended
  since the last clear. `SentInv`, under `SwapsAwaited`, says that the size bound to the
  callback of a swap is the sum up to the append that began it, though `realSize` has
  grown by the time it is answered, and that nothing was appended behind an append that
  waits to begin a swap. How the sum grows is proved by counting, as in `BusProofs`.
  `SizeExactAlways` follows: a callback is told the sum modulo `Uint32`, the sum itself
  while it is below 2^32.
- `TypesInv`, under both, has the types of the requests and of the files of a save. They
  say more than they seem to: that a save which copies by chunks began without an error
  and meets none, and that the temporary file is still there when the rest of it is
  moved, hence that nothing of the application or of a swap comes between.
- `PiecesInv`, `ReaderInv` and `TaskInv`, with `StreamAwaited` besides: while the
  application awaits a chunked stream it calls nothing else. What a buffer holds are
  pieces of calls that were made, so `BytesOf` it is a sequence of bytes (by
  `FlattenAppend` and `FlattenConcat`, two facts about `FlattenSeq`; the swaps in flight
  are joined by the first as well).
  A reader is made when nothing else is going on, and as long as there is one the buffer
  does not change (`AtPeace`, `PeaceKept`); it has the stream of the file only if there is
  a temporary file to follow it, and if it has neither it has a place in the vector
  (`Holds`). At most one thing that concerns the reader is in the io_service, it is for
  the last call, and what it is for is there (`Waits`). `ReaderThereAlways` follows. The
  hypothesis is there for the proof: an append that begins while a stream is being made
  could begin a swap, and the reader would be made of a buffer in motion.
- `ProgressInv` says how far a reader has come. What it reads are three parts, the file
  that is extended, the temporary file and the vector (`FirstPart`, `SecondPart`,
  `LastPart`): its streams are those of the parts, one at a time (`Streaming`), and with
  the stream, or the position, it is at it has read a beginning of them (`HaveRead`).
  Until it is stopped (`GoesOn`) that beginning is what the user was given, with the chunk
  that is on its way behind it (`Continues`): for the three handlers this is what each
  of them must find so that the next one does. The handler of the file never finds an
  empty chunk, because the file is left with its last one (`MoreInFile`), which fails
  where the file is empty: the case `Exact` excludes and `stream_early_end` shows. Once
  it is stopped nothing more comes (`StopsThere`), and an `end_of_file` that comes all the
  same is behind the `stopped` (`GivenInv`). `StreamExactAlways` follows with `PartsWhole`:
  as long as there is a reader and no error, the three parts are the content
  (`DataInv`, taken from pieces to bytes by `FlattenConcat`). The chunks themselves are
  those of `ChunkStream`: `ChunkIs` says of the one asked for as number a + 1 that it
  leads from the first a * `chunk_size` bytes to the first (a + 1) * `chunk_size`.

`Awaiting` in `MCBufferReaders` asserts the three of the constants of `swap_waiting`, so
the theorems are about what that run checks.

**Induction and sums.** The library states induction with an operator as parameter, which
the installed provers cannot instantiate. The proof modules that count or concatenate
state `SetInduction` of a *set* of numbers instead, for which the provers can; it follows
from the least element of a set of numbers. `CountingBloomFilterProofs`, where counters
lose elements as well as gain them, begins with the most of it: `FiniteInduction`, of sets
of sets; that a fold exists and is unique (`FoldExists`, `FoldUnique`); hence that
`SumFunctionOnSet` of the community modules unfolds to one element and the rest, and what
it does when an element comes, goes or changes.

**Only model-checked.** Liveness (`EveryRequestAnswered`, `DestructorReturns`,
`AwaitedCallsAnswered`, `EveryCallAnswered`, `EveryReadAnswered`, `EveryCallReturns`),
which the prover does not do under fairness, and `ENABLED`.
Every invariant that a run expects to hold is also a theorem. No module
declares a RECURSIVE operator, for the provers lose SMT in such a module.

## 6 Where the code and its documentation disagree

Each is a run that TLC ends with a counterexample.

- `fm_dropped`: fs_manager.h:338 promises that a request is performed once all
  previous ones are; `process_queue` leaves as soon as it sees `done_`.
- `chunk_unanswered`: a prefetch that nobody waits for keeps `n_enqueued`
  raised; two of them, and `next_chunk` waits for a read that is not scheduled.
- `chunk_destroyed`: a read found stopped completes without data, and its handler
  asserts that there is some.
- `swap_lost`: swapping_buffer.h:37 likens the buffer to an asynchronous vector. Two
  chunks beyond the threshold in a row lose the first: the second swap makes the vector
  current whose write is still queued, and clears it.
- `stream_early_end`: when the file an Append buffer extends has nothing left to
  read, the caller's own handler goes to the stream of the temporary file
  (chunked_readers.cpp:96) and is told `end_of_file` before what is in memory.

Others were met on the way and are recorded as hazards, or as exceptions that
the properties name: fs_manager.cpp:238 tests the pointer to the stream, not the
stream, so that a file that shrank since it was opened is read padded with
zeros, as a success; the first failed move of a save is never answered
(swapping_buffer_overwrite.cpp:29), a save of an Append buffer whose last append
fails is answered twice (swapping_buffer_append.cpp:50), operations that waited
for a swap that fails are not posted (swapping_buffer.cpp:143), a save through a
real ChunkedReader of a temporary file of four chunks or more runs into
`chunk_unanswered`, a write that fails only at close is reported as a success
(fs_manager.cpp:286), a file that grows while it is read fails the assertion of
fs_manager.h:160, and `isOnDisk` stays set after a save has moved the file away.
fs_manager.h:304 and fs_manager_interface.h:188 say that `readFile` throws if the path is a
symlink; it admits one (fs_manager.cpp:249). A stream that failed to open ends the program
with `std::length_error` when it is read whole (fs_manager.cpp:233). Exceptions out of a
handler do the same: of `removeFile` when a buffer is cleared (swapping_buffer.cpp:51), of
`make_chunked_stream` in the save of an Append buffer (swapping_buffer_append.cpp:73), of
`createDirectory` in that of an Overwrite buffer (swapping_buffer_overwrite.cpp:33, 95), of
the stream of a temporary file that a reader opens. `size` and `append` promise the
"actual size" (swapping_buffer.h:50, 55) and pass a `size_t` to a callback of `uint32_t`
(lines 52, 58 and 93): from 4 GiB on it is told the size modulo 2^32.
The interface says that `move`, `copyFile` and `copyDirectory` throw if the
destination is a link and `exists` on any link (fs_manager_interface.h); the
code checks the source alone, and `exists` admits links. `copyFile` of a file
into its own directory passes the test for equal paths and may empty the file.
The mask 0xF makes a counter of two bits read its neighbour too, and one of
eight count to 15. With two bits it makes `operator+=` wrong without any counter near its
limit (counting_bloom_filters.hpp:131-133): a counter other than the first of its byte is
added twice, once with what is below it, so that two bytes 64 give 0 and an element that
is in both filters is denied by their union. After `b(std::move(a)); a = c;` both are in
use, on one array, and what is put into one is in the other.

## 7 What is not modelled

- Composite readers: a stream below them that fails to read, calls made before the
  last is answered, and a buffer that is called while it is read; the code
  excludes the last two or is unsafe under them (hazards).
- Swapping buffers: data that a file loses when it is closed, which the manager reports as
  a success (section 6; `FilesystemManager` has it). What an application does with an
  exception out of `io_service::run`: the model ends there.
- `FileTree`: links that lead to something in the tree, permissions, a full disk.
- `operator+` of CountingBloomFilter, which names a type that does not exist.
- The timed wait of Event, which nothing calls; error messages; locales, which
  convert characters and keep no state; the mock of the tests.
- Handlers that change the list of the signal that is calling them.
- Data races on one filter or one signal: both are for a single thread.
- The values of the bytes: identity of pieces and positions stands for them.

## 8 Plan

Done: the manager with its abstract specification, invariants and the proof of the
refinement; the chunked reader with its abstract stream; the swapping buffers and
the readers of their content; the file helpers; Bus; both filters. Every component has
theorems, which cover all the safety properties the runs expect to hold; section 5
lists what is left to TLC.

Left: `Event` with its mutex and condition variable as a module of its own, refined to
the atomic flag the manager uses.

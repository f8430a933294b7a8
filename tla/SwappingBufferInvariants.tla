---------------------- MODULE SwappingBufferInvariants ----------------------
(* What is true of a SwappingBuffer and of its readers in every state, and  *)
(* carries the proofs of SwappingBufferProofs from one step to the next.    *)
EXTENDS BufferReaders

\* The elements of a list.
Elements(s) == {s[i] : i \in 1..Len(s)}
IsList(s) == s \in Seq(Elements(s))

\* The tasks of the io_service that stand for a call of the application, by that call.
Own(t) == t.task \in {"operation", "cleared", "handler", "made"}

\* No element, or call, is in a list twice.
IsOnce(s) == \A i, j \in 1..Len(s) : s[i] = s[j] => i = j
FsOnce(s) == \A i, j \in 1..Len(s) : s[i].call = s[j].call => i = j
IoOnce(s) == \A i, j \in 1..Len(s) :
  Own(s[i]) /\ Own(s[j]) /\ s[i].call = s[j].call => i = j

\* The calls that requests, and tasks, stand for.
FsCalls(s) == {r.call : r \in Elements(s)}
IoCalls(s) == {t.call : t \in {u \in Elements(s) : Own(u)}}

\* The calls that wait, for a swap, for the worker or for the io_service.
Outstanding == Elements(callbacks) \cup FsCalls(fs) \cup IoCalls(io_)

\* The queues are lists, and the calls are numbered.
Lists ==
  /\ IsList(callbacks) /\ IsList(fs) /\ IsList(io_) /\ IsList(calls)
  /\ DOMAIN answers = Ids
  /\ Len(calls) \in 0..MaxCalls

\* Each call that waits is in one place only, and has no answer yet.
TokenInv ==
  /\ Lists
  /\ IsOnce(callbacks) /\ FsOnce(fs) /\ IoOnce(io_)
  /\ Elements(callbacks) \cap FsCalls(fs) = {}
  /\ Elements(callbacks) \cap IoCalls(io_) = {}
  /\ FsCalls(fs) \cap IoCalls(io_) = {}
  /\ Outstanding \subseteq Unanswered

\* The steps of a save, and the calls they may stand for.
SaveSteps == {"local", "rest", "chunk", "copied", "last", "tail"}
SaveRequest(r) == r.step \in SaveSteps => calls[r.call].op = "save"

\* A handler stands for the call its request was for.
RequestInv ==
  /\ \A r \in Elements(fs) : SaveRequest(r)
  /\ \A t \in Elements(io_) :
       t.task = "handler" => t.call = t.request.call /\ SaveRequest(t.request)

\* The answers a call may have had.
AnswerInv ==
  \A c \in Ids : \/ answers[c] = <<>>
                 \/ c <= Len(calls) /\ Len(answers[c]) = 1
                 \/ c <= Len(calls) /\ calls[c].op = "save" /\ answers[c] = <<Failed, Done>>

\* What every application may rely on.
CallInv == TokenInv /\ RequestInv /\ AnswerInv

\* A call as Overlaps has it, and whether it may come while another is unanswered.
Key(c) == <<calls[c].op, calls[c].size>>
Follower(c) == \E p \in Overlaps : p[2] = Key(c)

\* The swaps on their way to the worker, those that come back, the operations posted.
SwapRequests == {r \in Elements(fs) : r.step = "swap"}
SwapHandlers == {t \in Elements(io_) : t.task = "handler" /\ t.request.step = "swap"}
PostedOperations == {t \in Elements(io_) : t.task = "operation"}

\* The calls whose operations wait for the end of a swap, or for their turn.
Queued == Elements(callbacks) \cup {t.call : t \in PostedOperations}

\* Only calls that may overlap do, and an append that waits is such a one.
OverlapInv ==
  /\ \A c, d \in Unanswered : c < d => <<Key(c), Key(d)>> \in Overlaps
  /\ \A c \in Queued : calls[c].op = "append" => Follower(c)

\* A swap writes the swapping vector to the temporary file.
SwapRequest(r) == r.file = "tmp" /\ r.buf = swappingBuffer /\ r.mode \in {"append", "write"}

\* There is at most one swap in progress, known by swapping, and no operation is posted
\* during it: the operations that are postponed are those that would interfere.
SwapInv ==
  /\ swapping \in BOOLEAN /\ currentBuffer \in {"bufA", "bufB"}
  /\ \A r \in SwapRequests : SwapRequest(r)
  /\ \A t \in SwapHandlers : SwapRequest(t.request)
  /\ swapping <=> SwapRequests # {} \/ SwapHandlers # {}
  /\ SwapRequests = {} \/ SwapHandlers = {}
  /\ \A r, s \in SwapRequests : r = s
  /\ \A t, u \in SwapHandlers : t = u
  /\ swapping => PostedOperations = {}
  /\ swapping /\ pc = "callback" => callbacks = <<>>

\* The two vectors.
Buffers == {"bufA", "bufB"}

\* The types of the content, and what the requests do to the temporary file.
FileInv ==
  /\ bufs \in [Buffers -> Content]
  /\ logical \in Content /\ tmp \in Content \cup {None}
  /\ \A r \in Elements(fs) :
       /\ r.step \in {"swap", "read", "read_tmp"} \cup SaveSteps
       /\ r.step \in {"read", "read_tmp"} => r.mode = "read"
       /\ r.file = "tmp" /\ r.mode \in {"append", "write"} => r.buf \in Buffers

\* A vector is on its way to the temporary file.
Flying == SwapRequests # {} \/ \E t \in SwapHandlers : t.ec # "success"

\* The save has had its turn.
SaveBegun == \E c \in 1..Len(calls) : calls[c].op = "save" /\ c \notin Queued

\* The content is on disk, on its way to it, and in memory, in this order; a file that is
\* created anew was not there before.
DataInv ==
  ~error /\ ~SaveBegun =>
    /\ logical = OnDisk \o (IF Flying THEN bufs[swappingBuffer] ELSE <<>>) \o bufs[currentBuffer]
    /\ tmp # None => isOnDisk \/ \E t \in SwapHandlers : t.ec = "success"
    /\ \A r \in SwapRequests : r.mode = "write" => tmp = None

\* What waits is in the order in which it was called.
Sorted(s) == \A i, j \in 1..Len(s) : i < j => s[i] < s[j]
IsOperation(t) == t.task = "operation"
OperationsSorted(s) ==
  \A i, j \in 1..Len(s) : i < j /\ IsOperation(s[i]) /\ IsOperation(s[j]) => s[i].call < s[j].call

\* Calls have their turns in the order in which they were made, a save is the last of
\* them, and what came while a call was unanswered was allowed to.
OrderInv ==
  /\ Sorted(callbacks) /\ OperationsSorted(io_)
  /\ callbacks = <<>> \/ PostedOperations = {}
  /\ \A c \in Unanswered, d \in 1..Len(calls) : c < d => <<Key(c), Key(d)>> \in Overlaps
  /\ \A c \in 1..Len(calls) : calls[c].op = "save" => c = Len(calls)
  /\ SaveBegun => Queued = {}

\* The operation each step, and each task, is a part of.
OpOf(step) ==
  IF step = "swap" THEN "append"
  ELSE IF step \in {"read", "read_tmp"} THEN "readAll" ELSE "save"

TaskOp(t) ==
  /\ t.task = "handler" => calls[t.call].op = OpOf(t.request.step)
  /\ t.task = "cleared" => calls[t.call].op = "clear"
  /\ t.task = "made" => calls[t.call].op = "make_chunked_stream"

KindInv ==
  /\ \A r \in Elements(fs) : calls[r.call].op = OpOf(r.step)
  /\ \A t \in Elements(io_) : TaskOp(t)

\* The requests of readAll and save on their way to the worker, those that come back.
Jobs == {r \in Elements(fs) : r.step # "swap"}
DoneJobs == {t \in Elements(io_) : t.task = "handler" /\ t.request.step # "swap"}
Working == {r.call : r \in Jobs} \cup {t.call : t \in DoneJobs}

\* No swap is in progress meanwhile, and whatever waits was called later.
WorkInv == \A c \in Working : ~swapping /\ \A d \in Queued : c < d

\* Before the save begins the destination is what it was; the temporary file is there
\* when the buffer says so.
FilesThere ==
  /\ kind \in {"Append", "Overwrite"}
  /\ ~SaveBegun =>
       /\ dest = <<0>>
       /\ isOnDisk => tmp # None
       /\ (\E t \in SwapHandlers : t.ec = "success") => tmp # None

\* What is on disk and what is in memory are all there is, with a temporary file or
\* without.
AllStored == tmp # None /\ logical = tmp \o bufs[currentBuffer]
AllHeld == tmp = None /\ logical = bufs[currentBuffer]

\* The chunks of the temporary file: the n-th, and a copy of the first n.
ChunkOf(n) == IF tmp = <<>> THEN <<>> ELSE <<tmp[n]>>
CopyOf(n) == <<0>> \o SubSeq(tmp, 1, n)
IsPlace(n) == n \in Nat \ {0} /\ (n = 1 \/ n <= Len(tmp))

\* What holds when a request of readAll or save waits for the worker.
Does(r, file, mode, buf) == r.file = file /\ r.mode = mode /\ r.buf = buf

PendingRead(r) ==
  \/ /\ kind = "Append" /\ Does(r, "dest", "read", "tmp_read")
     /\ dest = <<0>> /\ (IF isOnDisk THEN AllStored ELSE AllHeld)
  \/ kind = "Overwrite" /\ Does(r, "tmp", "read", "tmp_read") /\ AllStored

PendingReadTmp(r) ==
  kind = "Append" /\ Does(r, "tmp", "read", "own") /\ AllStored /\ tmp_read = <<0>>

PendingLocal(r) ==
  /\ Does(r, "dest", IF kind = "Append" THEN "append" ELSE "write", currentBuffer)
  /\ dest = <<0>> /\ logical = bufs[currentBuffer]

PendingRest(r) == kind = "Overwrite" /\ Does(r, "tmp", "append", currentBuffer) /\ AllStored

PendingChunk(r) ==
  /\ kind = "Append" /\ Does(r, "tmp", "chunk", "own") /\ AllStored
  /\ IsPlace(r.n) /\ dest = CopyOf(r.n - 1)

PendingCopied(r) ==
  /\ kind = "Append" /\ Does(r, "dest", "append", "tmp_read") /\ AllStored
  /\ IsPlace(r.n) /\ dest = CopyOf(r.n - 1) /\ tmp_read = ChunkOf(r.n)
  /\ r.step = "last" <=> r.n >= Len(tmp)

PendingTail(r) ==
  /\ kind = "Append" /\ Does(r, "dest", "append", currentBuffer) /\ AllStored
  /\ dest = <<0>> \o tmp

Pending(r) ==
  /\ r.step = "read"     => PendingRead(r)
  /\ r.step = "read_tmp" => PendingReadTmp(r)
  /\ r.step = "local"    => PendingLocal(r)
  /\ r.step = "rest"     => PendingRest(r)
  /\ r.step = "chunk"    => PendingChunk(r)
  /\ r.step \in {"copied", "last"} => PendingCopied(r)
  /\ r.step = "tail"     => PendingTail(r)

\* What holds when it has been performed, or has failed, and its handler waits.
DoneRead(t) ==
  t.ec = "success" =>
    \/ kind = "Append" /\ tmp_read = <<0>> /\ (IF isOnDisk THEN AllStored ELSE AllHeld)
    \/ kind = "Overwrite" /\ AllStored /\ tmp_read = tmp

DoneReadTmp(t) == kind = "Append" /\ AllStored /\ tmp_read = <<0>> /\ t.data = tmp

DoneLocal(t) ==
  IF t.ec = "success" THEN dest = Original \o logical
                      ELSE dest = <<0>> /\ logical = bufs[currentBuffer]

DoneRest(t) == kind = "Overwrite" /\ (t.ec = "success" => tmp = logical)

DoneChunk(t, n) ==
  t.ec \in {"success", "end_of_file"} =>
    /\ kind = "Append" /\ AllStored
    /\ IsPlace(n) /\ dest = CopyOf(n - 1) /\ t.data = ChunkOf(n)
    /\ t.ec = "end_of_file" <=> n >= Len(tmp)

DoneCopied(t, n) ==
  t.ec = "success" => kind = "Append" /\ AllStored /\ IsPlace(n) /\ n < Len(tmp) /\ dest = CopyOf(n)

DoneLast(t) == t.ec = "success" => kind = "Append" /\ AllStored /\ dest = <<0>> \o tmp

DoneTail(t) == t.ec = "success" => kind = "Append" /\ dest = <<0>> \o logical

JobDone(t, step) ==
  /\ step = "read"     => DoneRead(t)
  /\ step = "read_tmp" => DoneReadTmp(t)
  /\ step = "local"    => DoneLocal(t)
  /\ step = "rest"     => DoneRest(t)
  /\ step = "chunk"    => DoneChunk(t, t.request.n)
  /\ step = "copied"   => DoneCopied(t, t.request.n)
  /\ step = "last"     => DoneLast(t)
  /\ step = "tail"     => DoneTail(t)

\* Every readAll and every save is where its requests say it is.
JobInv ==
  ~error => /\ \A r \in Jobs : Pending(r)
            /\ \A t \in DoneJobs : JobDone(t, t.request.step)

\* The size is that of all that was appended since the buffer was cleared.
SizeInv ==
  /\ IsList(logical) /\ Elements(logical) \subseteq 1..Len(calls)
  /\ \A c \in 1..Len(calls) : calls[c].size \in Nat
  /\ realSize = Bytes(logical, calls)
  /\ realSize <= Bytes([c \in 1..Len(calls) |-> c], calls)

\* The size bound to the callback of a swap is that up to the append that began it, and
\* nothing was appended behind an append that waits to begin one.
Sent(r) == r.n = BytesUpTo(r.call, logical, calls)

SentInv ==
  /\ \A r \in SwapRequests : Sent(r)
  /\ \A t \in SwapHandlers : Sent(t.request)
  /\ \A c \in Queued : calls[c].op = "append" => \A p \in Elements(logical) : p <= c

\* The variables that are no queue have their types, but for those of SwapInv and FileInv.
ScalarTypes ==
  /\ kind \in Kinds
  /\ isOnDisk \in BOOLEAN /\ error \in BOOLEAN
  /\ isFirstSwappingAttempt \in BOOLEAN /\ isFirstSaveAttempt \in BOOLEAN
  /\ pc \in {"idle", "callback"} /\ faults \in 0..MaxFaults

\* What a request writes is a vector, only a save reads by chunks or completes the
\* temporary file; what a handler is given is content.
RequestTypes(r) ==
  /\ r.mode \in {"append", "write"} => r.buf \in Buffers \cup {"tmp_read"}
  /\ r.mode = "chunk" => r.step = "chunk"
  /\ r.step = "rest" => r.file = "tmp" /\ r.mode = "append"

HandlerTypes(t) == t.task = "handler" => t.data \in Content

\* The steps of the copying of an Append buffer, which only begins without error.
CopySteps == {"chunk", "copied", "last", "tail"}

\* The types of the files and requests of a save hold because nothing interferes with it.
TypesInv ==
  /\ ScalarTypes /\ tmp_read \in Content /\ dest \in Content
  /\ \A r \in Elements(fs) : RequestTypes(r)
  /\ \A t \in Elements(io_) : HandlerTypes(t)
  /\ \A r \in Jobs : r.step \in CopySteps => ~error
  /\ \A t \in DoneJobs : /\ t.request.step \in CopySteps => ~error
                         /\ t.request.step = "rest" /\ t.ec = "success" => tmp # None

\* The inductive invariant: the first part for every application, the rest for one that
\* awaits its swaps, and its reads.
IInv ==
  /\ CallInv /\ KindInv
  /\ SwapsAwaited => OverlapInv /\ SwapInv /\ FileInv /\ DataInv
  /\ SwapsAwaited /\ ReadsAlone => OrderInv /\ WorkInv /\ FilesThere /\ JobInv

\* The pieces are calls that were made.
Pieces == Seq(0..Len(calls))

PiecesInv ==
  /\ bufs \in [Buffers -> Pieces] /\ tmp \in Pieces \cup {None}
  /\ dest \in Pieces /\ tmp_read \in Pieces
  /\ \A t \in Elements(io_) : t.task = "handler" => t.data \in Pieces

\* What concerns a reader in the io_service: chunks on their way, and calls passed on.
ReaderTasks == {"of_file", "of_tmp_file", "pass_on", "cached", "answer"}

Made == {t \in Elements(io_) : t.task = "made"}

\* A reader has the stream of the file only if there is a temporary file to follow, and
\* something left to read from.
Holds(r) ==
  /\ r \in Readers
  /\ r.file # None => isOnDisk
  /\ r.class = "cache" => r.pos # None
  /\ r.file = None /\ r.tmp_file = None => r.pos # None

\* When a reader is made nothing else is going on, and as long as there is one nothing
\* else begins.
ReaderInv ==
  /\ original_size \in Nat /\ reads \in Nat /\ IsList(got)
  /\ Made # {} \/ reader # None => Queued = {} /\ ~swapping /\ ~Saving
  /\ \A t \in Made : Holds(t.reader)
  /\ reader # None => Made = {} /\ Holds(reader)

\* At most one task concerns the reader, and it finds what it needs.
Waits(t) ==
  /\ reader # None /\ reads = Len(got) + 1 /\ t.n = reads
  /\ t.task = "of_file" => reader.file # None
  /\ t.task \in {"of_tmp_file", "pass_on"} => reader.tmp_file # None
  /\ t.task = "cached" => reader.pos # None

TaskInv ==
  /\ \A t \in Elements(io_) : t.task \in ReaderTasks => Waits(t)
  /\ \A i, j \in 1..Len(io_) :
       io_[i].task \in ReaderTasks /\ io_[j].task \in ReaderTasks => i = j

\* What the streams of the two files hold, and what is in memory: a reader hands them out
\* in this order.
FirstPart == IF kind = "Append" /\ isOnDisk THEN BytesOf(dest) ELSE <<>>
SecondPart ==
  IF isOnDisk THEN BytesOf(tmp) ELSE IF kind = "Append" THEN BytesOf(dest) ELSE <<>>
LastPart == BytesOf(bufs[currentBuffer])
Everything == (FirstPart \o SecondPart) \o LastPart

\* How far a stream, and a reader, has come.
FirstBytes(s, n) == SubSeq(s, 1, IF n < Len(s) THEN n ELSE Len(s))
Reached(stream) == stream.asked * chunk_size

ReadOf(r, first, second, last) ==
  IF r.file # None THEN FirstBytes(first, Reached(r.file))
  ELSE IF r.tmp_file # None THEN first \o FirstBytes(second, Reached(r.tmp_file))
  ELSE (first \o second) \o FirstBytes(last, r.pos)

HaveRead(r) == ReadOf(r, FirstPart, SecondPart, LastPart)

\* The streams are those of the parts, and are held one at a time.
Streaming(r) ==
  /\ r.class = "cache" => r.file = None /\ r.tmp_file = None
  /\ r.file # None => r.tmp_file = None /\ r.file.bytes = FirstPart
  /\ r.tmp_file # None => r.tmp_file.bytes = SecondPart

\* There is more in the first stream: it is left with its last chunk.
MoreInFile(r) == r.file # None => Reached(r.file) < Len(FirstPart)

\* An answer said that the reading was stopped, or is about to.
StoppedBy(i) == \E j \in 1..i : got[j].ec = "stopped"
Stopping == \E t \in Elements(io_) : t.task = "answer" /\ t.ec = "stopped"
Halted == StoppedBy(Len(got)) \/ Stopping

Fits(data) == data \in Seq(Byte) /\ Len(data) <= chunk_size

\* What is on its way to the user continues what was delivered, up to where the reader is.
ChunkTasks == {"of_file", "of_tmp_file", "answer"}

Continues(t) ==
  /\ t.task # "pass_on"
  /\ t.task = "cached" => Delivered = HaveRead(reader) /\ reader.file = None /\ reader.tmp_file = None
  /\ t.task \in ChunkTasks =>
       /\ Fits(t.data) /\ Delivered \o t.data = HaveRead(reader)
       /\ t.ec \in {"success", "end_of_file"} /\ (t.ec = "success" => t.data # <<>>)
  /\ t.task # "of_file" => reader.file = None
  /\ t.task = "of_file" =>
       /\ t.data # <<>>
       /\ IF t.ec = "success" THEN MoreInFile(reader) ELSE HaveRead(reader) = FirstPart
  /\ t.task = "of_tmp_file" /\ t.ec = "end_of_file" => HaveRead(reader) = FirstPart \o SecondPart
  /\ t.task = "answer" /\ t.ec = "end_of_file" => HaveRead(reader) = Everything

\* Once the reading is stopped nothing more comes.
Nothing(t) ==
  t.task = "cached" \/ /\ t.task = "answer" /\ t.data = <<>>
                       /\ t.ec \in {"stopped", "end_of_file"}
                       /\ t.ec = "end_of_file" => StoppedBy(Len(got))

GoesOn ==
  /\ Delivered \in Seq(Byte)
  /\ \A t \in Elements(io_) : t.task \in ReaderTasks => Continues(t)
  /\ (\A t \in Elements(io_) : t.task \notin ReaderTasks) =>
       Delivered = HaveRead(reader) /\ MoreInFile(reader)

StopsThere ==
  /\ stopReading /\ reader.file = None /\ reader.tmp_file = None
  /\ IsPrefix(Delivered, Everything)
  /\ \A t \in Elements(io_) : t.task \in ReaderTasks => Nothing(t)

\* What was given so far.
GivenInv ==
  \A i \in 1..Len(got) :
    /\ got[i].call = i /\ Fits(got[i].data)
    /\ got[i].ec = "success" => got[i].data # <<>>
    /\ got[i].ec = "end_of_file" => Delivered = Everything \/ StoppedBy(i)

\* An Append buffer that has swapped and extends an empty file is left out.
Exact == original_size > 0 \/ kind = "Overwrite" \/ ~isOnDisk

OnCourse == Streaming(reader) /\ GivenInv /\ (IF Halted THEN StopsThere ELSE GoesOn)

ProgressInv ==
  /\ \A t \in Made : t.reader = NewReader
  /\ reader = None => got = <<>>
  /\ reader # None /\ Exact => OnCourse
============================================================================
